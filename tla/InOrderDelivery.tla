--------------------------- MODULE InOrderDelivery ---------------------------
(***************************************************************************)
(* What a connection promises, without bytes: the messages the peer has    *)
(* completely written are handled one at a time, in the order written,     *)
(* each at most once and unaltered.                                        *)
(***************************************************************************)
EXTENDS Naturals, Sequences

VARIABLES
  offered,  \* messages the peer has completely written
  done      \* messages the server has handled

Init == offered = <<>> /\ done = <<>>

Offer ==
  /\ Len(offered') > Len(offered)
  /\ SubSeq(offered', 1, Len(offered)) = offered
  /\ UNCHANGED done

Handle ==
  /\ Len(done) < Len(offered)
  /\ done' = Append(done, offered[Len(done) + 1])
  /\ UNCHANGED offered

Spec == Init /\ [][Offer \/ Handle]_<<offered, done>>
=============================================================================
