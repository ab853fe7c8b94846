--------------------------- MODULE ClientProtocol ---------------------------
(***************************************************************************)
(* What a server may expect of a client, without its screen, its signals   *)
(* or its pieces of messages: a request, an answer, and after a positive   *)
(* one whole images, one after another, until it ends.                     *)
(***************************************************************************)
VARIABLES
  phase,  \* "silent", "asked", "accepted", "ended"
  begun   \* a message stands on the wire incompletely

Init == phase = "silent" /\ begun = FALSE

Begin ==
  /\ phase \in {"silent", "accepted"} /\ ~begun
  /\ begun' = TRUE
  /\ UNCHANGED phase

(* The last piece of a message, or the whole of it at once. *)
Complete ==
  /\ phase \in {"silent", "accepted"}
  /\ begun' = FALSE
  /\ phase' = IF phase = "silent" THEN "asked" ELSE "accepted"

Accepted ==
  /\ phase = "asked"
  /\ phase' = "accepted"
  /\ UNCHANGED begun

End ==
  /\ phase' = "ended"
  /\ UNCHANGED begun

Next == Begin \/ Complete \/ Accepted \/ End

Spec == Init /\ [][Next]_<<phase, begun>>
=============================================================================
