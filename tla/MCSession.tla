------------------------------ MODULE MCSession ------------------------------
(***************************************************************************)
(* Streams for the byte-level session, and what its comments say of it.    *)
(***************************************************************************)
EXTENDS SessionDelivery

Raw(type, body) == <<type>> \o Insert32(Len(body)) \o body

Auth(h, u) == CreateAuthenticationRequest(h, u)

GoodAuth == Auth(<<1>>, <<2>>)
BadUser  == Auth(<<2>>, <<0>>)

(* Messages the two programs exchange, an unknown type, two requests in a row. *)
PlainStreams ==
  { GoodAuth \o CreateImgMessage(<<1>>) \o CreateImgMessage(<<2, 0>>),
    GoodAuth \o BadUser \o CreateImgMessage(<<1>>),
    CreateImgMessage(<<2>>) \o Raw(0, <<1>>) \o CreateImgMessage(<<1>>) }

(* A message over the limit, followed by one within it.  The bytes of the  *)
(* first one's body happen to look like a message.                         *)
LargeStreams ==
  { CreateImgMessage(CreateImgMessage(<<1>>) \o <<0>>)
      \o CreateImgMessage(<<2>>) \o CreateImgMessage(<<1>>) }

(* An image without bytes: EncodePNG ignores a failed encoder. *)
EmptyStreams == { CreateImgMessage(<<>>) \o CreateImgMessage(<<1>>) }

(* One image; an authentication with an image right behind it. *)
ImageStreams == { CreateImgMessage(<<1>>) }
PairStreams  == { GoodAuth \o CreateImgMessage(<<1>>) }

MixedStreams == PlainStreams \cup LargeStreams \cup EmptyStreams

(* What the two programs exchange is within the limit.                     *)
ASSUME PlainWithinLimit ==
  \A s \in PlainStreams \cup EmptyStreams :
    \E a, b \in 0 .. Len(s) : Framing(s, {0, a, b, Len(s)})

-----------------------------------------------------------------------------
(* session.h:37: the session processes the messages it receives.  A server *)
(* asleep with nothing left to read has handled all of them.               *)
ReceivedIsProcessed == pc = "wait" /\ ~ready => messages = <<>>

(* The same, for a connection the peer closed after writing them.          *)
WrittenIsProcessed ==
  pc = "closed" /\ fin = "closed" =>
    Len(handled) = Len(ProtocolFrames(stream, sent))
=============================================================================
