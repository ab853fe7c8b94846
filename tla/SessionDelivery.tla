-------------------------- MODULE SessionDelivery --------------------------
(***************************************************************************)
(* What one connection promises: the framing the protocol asks for         *)
(* (server.h:21-40), read in the stream without regard to how it arrives,  *)
(* and InOrderDelivery of the messages so framed.                          *)
(***************************************************************************)
EXTENDS Session

(* The protocol's reading of a stream s: the message that begins after its *)
(* first a bytes, its size, its end and whether it is complete when n      *)
(* bytes of s are there.                                                   *)
SizeAt(s, a) == PeekUint32(SubSeq(s, a + 2, a + 5))

EndAt(s, a) == a + 5 + SizeAt(s, a)

MessageAt(s, a) == [type |-> s[a + 1], body |-> SubSeq(s, a + 6, EndAt(s, a))]

CompleteAt(s, a, n) == a + 5 <= n /\ EndAt(s, a) <= n

(* A message over the limit is to be passed over as a whole. *)
Accepted(s, a) ==
  IF SizeAt(s, a) > MaxMessageSize THEN <<>> ELSE <<MessageAt(s, a)>>

(* The messages in the first n bytes of s, from each place on. *)
FramesFrom(s, n) ==
  LET F[a \in 0 .. n] ==
        IF CompleteAt(s, a, n) THEN Accepted(s, a) \o F[EndAt(s, a)] ELSE <<>>
  IN  F

ProtocolFrames(s, n) == FramesFrom(s, n)[0]

(* No message of s is over the limit: At holds the places where one begins *)
(* and, perhaps, others.                                                   *)
Framing(s, At) ==
  /\ 0 \in At
  /\ \A a \in At :
       a + 5 <= Len(s) =>
         /\ SizeAt(s, a) <= MaxMessageSize
         /\ EndAt(s, a) <= Len(s) => EndAt(s, a) \in At

WithinLimit(s) == \E At \in SUBSET Nat : Framing(s, At)

-----------------------------------------------------------------------------
(* Messages as the protocol sees them, without their places.               *)
Strip(m) == [type |-> m.type, body |-> m.body]

Stripped(q) == [i \in DOMAIN q |-> Strip(q[i])]

(* Whenever the server does not receive or parse, the messages it has      *)
(* handled and those in its queue are all the protocol sees in the bytes   *)
(* received: ParseMessage stops at a message that is not complete, and     *)
(* neither queues less than is there nor more (session.cc:121-190).        *)
QueuedAsReceived ==
  pc \notin {"recv", "parse", "closed"} =>
    Stripped(Frames) = ProtocolFrames(stream, rcvd)

Delivery ==
  INSTANCE InOrderDelivery WITH
    offered <- ProtocolFrames(stream, sent),
    done    <- Stripped(handled)

(* The messages handled are those the protocol frames, in order and none   *)
(* twice, however the bytes arrived (server.h:21-40, session.cc:121-160).  *)
DeliversInOrder == Delivery!Spec
=============================================================================
