---------------------------- MODULE UniqueResource ----------------------------
(***************************************************************************)
(* UniqueResource (unique_resource.h): objects that own a descriptor, a    *)
(* display or an image, and what the system has open.  ResourceFactory     *)
(* wraps the result of the opening call at once, so opening a resource and *)
(* constructing its owner are one action.                                  *)
(*                                                                         *)
(* The operations are parametrised by the objects they work on; modules    *)
(* that hold such objects extend this one and use them.                    *)
(***************************************************************************)
CONSTANTS
  Owners,     \* objects of the program, locals and temporaries included
  Resources,  \* handles the system may hand out
  Invalid     \* InvalidValue: -1 or nullptr

ASSUME ResourceAssumption == Invalid \notin Resources

VARIABLES
  resource,  \* _resource of each object
  live,      \* objects whose lifetime has begun and not ended
  open,      \* what the system holds open for the program
  misused    \* history: something was released that was not open

resourceVars == <<resource, live, open, misused>>

ResourceTypeOK ==
  /\ resource \in [Owners -> Resources \cup {Invalid}]
  /\ live \subseteq Owners
  /\ open \subseteq Resources
  /\ misused \in BOOLEAN

ResourceInit ==
  /\ resource = [o \in Owners |-> Invalid]
  /\ live = {}
  /\ open = {}
  /\ misused = FALSE

-----------------------------------------------------------------------------
Valid(o) == resource[o] # Invalid

(* Slip: the deleter is called whether or not the value is valid. *)
FreedUnchecked(S) == {resource[o] : o \in S}

Freed(S) == {resource[o] : o \in S} \ {Invalid}

(* Reset() of each object in S: the deleters run on the valid ones. *)
Delete(S) ==
  /\ open' = open \ Freed(S)
  /\ misused' = \/ misused
                \/ ~(Freed(S) \subseteq open)
                \/ \E o, p \in S : o # p /\ Valid(o) /\ resource[o] = resource[p]

(* The constructor, around what an opening call returned: a new resource,  *)
(* or the invalid value of a call that failed.                             *)
Construct(o, r) ==
  /\ o \notin live
  /\ r \in (Resources \ open) \cup {Invalid}
  /\ live' = live \cup {o}
  /\ resource' = [resource EXCEPT ![o] = r]
  /\ open' = open \cup ({r} \ {Invalid})
  /\ UNCHANGED misused

(* Slip: the source of a move keeps its value (no std::exchange). *)
MoveConstructCopies(o, p) ==
  /\ o \notin live /\ p \in live
  /\ live' = live \cup {o}
  /\ resource' = [resource EXCEPT ![o] = resource[p]]
  /\ UNCHANGED <<open, misused>>

MoveConstruct(o, p) ==
  /\ o \notin live /\ p \in live
  /\ live' = live \cup {o}
  /\ resource' = [resource EXCEPT ![o] = resource[p], ![p] = Invalid]
  /\ UNCHANGED <<open, misused>>

(* Assignment to itself does nothing: a stuttering step. *)
MoveAssign(o, p) ==
  /\ {o, p} \subseteq live /\ o # p
  /\ Delete({o})
  /\ resource' = [resource EXCEPT ![o] = resource[p], ![p] = Invalid]
  /\ UNCHANGED live

Reset(o) ==
  /\ o \in live
  /\ Delete({o})
  /\ resource' = [resource EXCEPT ![o] = Invalid]
  /\ UNCHANGED live

(* The objects in S go out of scope, at the end of a block or because an   *)
(* exception unwinds it: their destructors call Reset().                   *)
LeaveScope(S) ==
  /\ S \subseteq live
  /\ Delete(S)
  /\ resource' = [o \in Owners |-> IF o \in S THEN Invalid ELSE resource[o]]
  /\ live' = live \ S

ResourceNext ==
  \/ \E o \in Owners, r \in Resources \cup {Invalid} : Construct(o, r)
  \/ \E o, p \in Owners : MoveConstruct(o, p) \/ MoveAssign(o, p)
  \/ \E o \in Owners : Reset(o)
  \/ \E S \in SUBSET live : LeaveScope(S)

ResourceSpec == ResourceInit /\ [][ResourceNext]_resourceVars

-----------------------------------------------------------------------------
(* Whatever the program has open is owned by a living object, and by one   *)
(* only: nothing leaks through a move, an assignment or an exception, and  *)
(* no two destructors release the same handle (unique_resource.h:9-14).    *)
OwnedOnce ==
  /\ open = {resource[o] : o \in live} \ {Invalid}
  /\ \A o \in Owners \ live : ~Valid(o)
  /\ \A o, p \in live : Valid(o) /\ resource[o] = resource[p] => o = p

(* No handle is released twice, nor one that was never opened              *)
(* (Reset, unique_resource.h:89-95).                                       *)
NeverMisused == ~misused
=============================================================================
