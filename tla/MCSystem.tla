------------------------------ MODULE MCSystem ------------------------------
(***************************************************************************)
(* Two clients: of one user, with addresses that print alike; of one user  *)
(* elsewhere; of two users of whom one is refused.                         *)
(***************************************************************************)
EXTENDS System

CONSTANTS c1, c2

Who(d, p, a) == [dir |-> d, peer |-> p, accepted |-> a]

Both(v, w) == [c \in Conns |-> IF c = c1 THEN v ELSE w]

Couples ==
  {Both(Who("u1", "1111_9", TRUE), Who("u1", "1111_9", TRUE)),
   Both(Who("u1", "1111_9", TRUE), Who("u1", "1112_9", TRUE)),
   Both(Who("u1", "1111_9", TRUE), Who("u2", "1112_9", FALSE))}
=============================================================================
