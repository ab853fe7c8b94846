------------------------------ MODULE Archive ------------------------------
(***************************************************************************)
(* What the two programs promise together, without connections, queues or  *)
(* a clock: the images each client has made are handled in the order made, *)
(* none twice.  Handling one files it or not, and costs the archive at     *)
(* most one image that was there before.                                   *)
(***************************************************************************)
EXTENDS Naturals

CONSTANT Conns

VARIABLES
  made,     \* images each client has sent whole
  handled,  \* how many of them the server has handled
  archive   \* images on disk, unharmed

Init ==
  /\ made = [c \in Conns |-> 0]
  /\ handled = [c \in Conns |-> 0]
  /\ archive = {}

Make(c) ==
  /\ made' = [made EXCEPT ![c] = @ + 1]
  /\ UNCHANGED <<handled, archive>>

Handle(c) ==
  /\ handled[c] < made[c]
  /\ handled' = [handled EXCEPT ![c] = @ + 1]
  /\ \E kept \in {archive} \cup {archive \ {i} : i \in archive} :
       archive' \in {kept, kept \cup {[of |-> c, no |-> handled[c] + 1]}}
  /\ UNCHANGED made

Next == \E c \in Conns : Make(c) \/ Handle(c)

Spec == Init /\ [][Next]_<<made, handled, archive>>
=============================================================================
