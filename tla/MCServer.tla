------------------------------ MODULE MCServer ------------------------------
(***************************************************************************)
(* Bounds for the event loop.  Connections are interchangeable in what     *)
(* they do, so states that differ in their names are one (safety only).    *)
(***************************************************************************)
EXTENDS Server, TLC

Alike == Permutations(Conns)
=============================================================================
