------------------------ MODULE UniqueResourceProofs ------------------------
(***************************************************************************)
(* The operations of UniqueResource keep ownership unique, whatever        *)
(* program uses them.                                                      *)
(***************************************************************************)
EXTENDS UniqueResource, TLAPS

ResourceInv == ResourceTypeOK /\ OwnedOnce /\ NeverMisused

LEMMA ResourceInitially == ResourceInit => ResourceInv
BY DEF ResourceInit, ResourceInv, ResourceTypeOK, OwnedOnce, NeverMisused, Valid

LEMMA ConstructSafe ==
  ASSUME ResourceInv, NEW o \in Owners, NEW r \in Resources \cup {Invalid},
         Construct(o, r)
  PROVE  ResourceInv'
BY ResourceAssumption
   DEF ResourceInv, ResourceTypeOK, OwnedOnce, NeverMisused, Valid, Construct

LEMMA MoveConstructSafe ==
  ASSUME ResourceInv, NEW o \in Owners, NEW p \in Owners, MoveConstruct(o, p)
  PROVE  ResourceInv'
BY ResourceAssumption
   DEF ResourceInv, ResourceTypeOK, OwnedOnce, NeverMisused, Valid, MoveConstruct

LEMMA MoveAssignSafe ==
  ASSUME ResourceInv, NEW o \in Owners, NEW p \in Owners, MoveAssign(o, p)
  PROVE  ResourceInv'
<1> USE DEF ResourceInv, ResourceTypeOK, OwnedOnce, NeverMisused, Valid
<1>1. Freed({o}) = {resource[o]} \ {Invalid}
  BY DEF Freed
<1>2. Freed({o}) \subseteq open
  BY <1>1 DEF MoveAssign
<1>3. misused' = FALSE
  BY <1>2 DEF MoveAssign, Delete
<1>4. open' = open \ ({resource[o]} \ {Invalid})
  BY <1>1 DEF MoveAssign, Delete
<1>5. /\ resource' = [resource EXCEPT ![o] = resource[p], ![p] = Invalid]
      /\ live' = live /\ o \in live /\ p \in live /\ o # p
  BY DEF MoveAssign
<1>6. ResourceTypeOK'
  BY <1>3, <1>4, <1>5
<1>7. \A q \in Owners \ live' : resource'[q] = Invalid
  BY <1>5
<1>8. \A q, t \in live' :
        resource'[q] # Invalid /\ resource'[q] = resource'[t] => q = t
  BY <1>5, SMTT(30)
<1>9. open' = {resource'[q] : q \in live'} \ {Invalid}
  BY <1>4, <1>5, SMTT(30)
<1> QED
  BY <1>3, <1>6, <1>7, <1>8, <1>9

LEMMA ResetSafe ==
  ASSUME ResourceInv, NEW o \in Owners, Reset(o)
  PROVE  ResourceInv'
<1> USE DEF ResourceInv, ResourceTypeOK, OwnedOnce, NeverMisused, Valid
<1>1. Freed({o}) = {resource[o]} \ {Invalid}
  BY DEF Freed
<1>2. misused' = FALSE
  BY <1>1 DEF Reset, Delete
<1>3. open' = open \ ({resource[o]} \ {Invalid})
  BY <1>1 DEF Reset, Delete
<1>4. /\ resource' = [resource EXCEPT ![o] = Invalid]
      /\ live' = live /\ o \in live
  BY DEF Reset
<1>5. ResourceTypeOK'
  BY <1>2, <1>3, <1>4
<1>6. open' = {resource'[q] : q \in live'} \ {Invalid}
  BY <1>3, <1>4, SMTT(30)
<1> QED
  BY <1>2, <1>4, <1>5, <1>6

LEMMA LeaveScopeSafe ==
  ASSUME ResourceInv, NEW S \in SUBSET Owners, LeaveScope(S)
  PROVE  ResourceInv'
BY ResourceAssumption
   DEF ResourceInv, ResourceTypeOK, OwnedOnce, NeverMisused, Valid, LeaveScope,
       Delete, Freed
LEMMA ResourceKept == ResourceInv /\ [ResourceNext]_resourceVars => ResourceInv'
<1> SUFFICES ASSUME ResourceInv, [ResourceNext]_resourceVars PROVE ResourceInv'
  OBVIOUS
<1>1. ASSUME NEW o \in Owners, NEW r \in Resources \cup {Invalid}, Construct(o, r)
      PROVE  ResourceInv'
  BY <1>1, ConstructSafe
<1>2. ASSUME NEW o \in Owners, NEW p \in Owners,
             MoveConstruct(o, p) \/ MoveAssign(o, p)
      PROVE  ResourceInv'
  BY <1>2, MoveConstructSafe, MoveAssignSafe
<1>3. ASSUME NEW o \in Owners, Reset(o) PROVE ResourceInv'
  BY <1>3, ResetSafe
<1>4. ASSUME NEW S \in SUBSET live, LeaveScope(S) PROVE ResourceInv'
  BY <1>4, LeaveScopeSafe DEF ResourceInv, ResourceTypeOK
<1>5. CASE UNCHANGED resourceVars
  BY <1>5 DEF resourceVars, ResourceInv, ResourceTypeOK, OwnedOnce,
              NeverMisused, Valid
<1> QED
  BY <1>1, <1>2, <1>3, <1>4, <1>5 DEF ResourceNext

(* Every handle that is open has exactly one living owner, in every        *)
(* program that only touches its handles through UniqueResource.           *)
THEOREM EveryHandleOwnedOnce == ResourceSpec => []OwnedOnce
<1>1. ResourceInv => OwnedOnce
  BY DEF ResourceInv
<1> QED
  BY <1>1, ResourceInitially, ResourceKept, PTL DEF ResourceSpec

(* No handle is released twice, nor one that is not open. *)
THEOREM NoHandleMisused == ResourceSpec => []NeverMisused
<1>1. ResourceInv => NeverMisused
  BY DEF ResourceInv
<1> QED
  BY <1>1, ResourceInitially, ResourceKept, PTL DEF ResourceSpec
=============================================================================
