---------------------------- MODULE DeliveryProofs ----------------------------
(***************************************************************************)
(* A connection keeps InOrderDelivery's promise: the messages handled are  *)
(* those the protocol reads in the peer's stream, in order, for every      *)
(* stream without a message over the limit, every way it is cut and every  *)
(* range of bytes.                                                         *)
(***************************************************************************)
EXTENDS SessionDelivery, SessionProofs, FiniteSetTheorems

-----------------------------------------------------------------------------
(* Induction.  Finite sets of numbers are well founded by inclusion, hence *)
(* the numbers 0 .. n by their size.                                       *)

LEMMA LeastNumber ==
  ASSUME NEW T \in SUBSET Nat, T # {}
  PROVE  \E n \in T : \A m \in T : n <= m
<1> DEFINE Intervals == {0 .. n : n \in T}
           R == StrictSubsetOrdering(Nat)
<1>1. Intervals \subseteq FiniteSubsetsOf(Nat) /\ Intervals # {}
  <2>1. \A n \in Nat : IsFiniteSet(0 .. n) /\ 0 .. n \in SUBSET Nat
    BY FS_Interval
  <2>2. \A n \in T : 0 .. n \in FiniteSubsetsOf(Nat)
    BY <2>1 DEF FiniteSubsetsOf
  <2> QED
    BY <2>2
<1>2. IsWellFoundedOn(R, FiniteSubsetsOf(Nat))
  BY FS_StrictSubsetOrderingWellFounded, Zenon
<1>3. PICK b \in Intervals : \A c \in Intervals : <<c, b>> \notin R
  <2> HIDE DEF Intervals, R
  <2> QED
    BY <1>1, <1>2, WFMin, Zenon
<1>4. PICK n \in T : b = 0 .. n
  BY <1>3
<1>5. ASSUME NEW m \in T, m < n PROVE FALSE
  <2>1. 0 .. m \subseteq 0 .. n /\ 0 .. m # 0 .. n
    BY <1>5
  <2>2. <<0 .. m, 0 .. n>> \in R
    BY <2>1 DEF StrictSubsetOrdering
  <2> QED
    BY <1>3, <1>4, <2>2
<1> QED
  BY <1>5

(* What holds at a place once it holds at all later ones holds everywhere. *)
LEMMA FromTheEnd ==
  ASSUME NEW n \in Nat, NEW T,
         \A a \in 0 .. n : (\A b \in a + 1 .. n : b \in T) => a \in T
  PROVE  \A a \in 0 .. n : a \in T
<1> DEFINE Left == {d \in 0 .. n : n - d \notin T}
<1>1. SUFFICES ASSUME Left # {} PROVE FALSE
  <2>1. \A a \in 0 .. n : n - a \in 0 .. n /\ n - (n - a) = a
    OBVIOUS
  <2> QED
    BY <2>1
<1>2. PICK d \in Left : \A e \in Left : d <= e
  <2>1. Left \in SUBSET Nat
    OBVIOUS
  <2> HIDE DEF Left
  <2> QED
    BY <1>1, <2>1, LeastNumber, Zenon
<1>3. \A b \in n - d + 1 .. n : b \in T
  <2> TAKE b \in n - d + 1 .. n
  <2>1. n - b \in 0 .. n /\ n - b < d /\ n - (n - b) = b
    BY <1>2
  <2> QED
    BY <1>2, <2>1
<1> QED
  BY <1>2, <1>3

-----------------------------------------------------------------------------
(* The protocol's reading of a stream. *)

Frame == [type : Byte, body : Seq(Byte)]

LEMMA Regrouped ==
  ASSUME NEW p \in Seq(Frame), NEW q \in Seq(Frame), NEW r \in Seq(Frame)
  PROVE  (p \o q) \o r = p \o (q \o r)
BY ConcatAssociative

(* A complete message ends behind where it begins, within the bytes read.  *)
LEMMA CompleteMessage ==
  ASSUME NEW s \in Seq(Byte), NEW n \in 0 .. Len(s), NEW a \in 0 .. n,
         CompleteAt(s, a, n)
  PROVE  /\ SizeAt(s, a) \in Nat /\ EndAt(s, a) \in a + 1 .. n
         /\ MessageAt(s, a) \in Frame
         /\ Accepted(s, a) \in Seq(Frame)
<1>1. PICK l \in Nat : l = Len(s) /\ n <= l
  OBVIOUS
<1>2. a + 5 <= n
  BY DEF CompleteAt
<1>3. SizeAt(s, a) \in Nat
  <2>1. PICK h \in Seq(Byte) : h = SubSeq(s, a + 2, a + 5) /\ Len(h) = 4
    <3>1. PICK p \in Nat \ {0}, q \in Int :
            p = a + 2 /\ q = a + 5 /\ q <= Len(s) /\ p <= q /\ q - p + 1 = 4
      BY <1>1, <1>2
    <3>2. SubSeq(s, p, q) \in Seq(Byte) /\ Len(SubSeq(s, p, q)) = 4
      BY <3>1, CutTyped
    <3> QED
      BY <3>1, <3>2, Zenon
  <2>2. h[1] \in Nat /\ h[2] \in Nat /\ h[3] \in Nat /\ h[4] \in Nat
    <3>1. h[1] \in Byte /\ h[2] \in Byte /\ h[3] \in Byte /\ h[4] \in Byte
      BY <2>1, ElementOfSeq
    <3> QED
      BY <3>1, WireAssumption DEF Byte
  <2>3. \A x, y \in Nat : x * Base + y \in Nat
    BY WireAssumption
  <2>4. h[1] * Base + h[2] \in Nat
    BY <2>2, <2>3
  <2>5. (h[1] * Base + h[2]) * Base + h[3] \in Nat
    BY <2>2, <2>3, <2>4
  <2>6. ((h[1] * Base + h[2]) * Base + h[3]) * Base + h[4] \in Nat
    BY <2>2, <2>3, <2>5
  <2> QED
    BY <2>1, <2>6 DEF SizeAt, PeekUint32
<1>4. EndAt(s, a) \in a + 1 .. n
  BY <1>3 DEF EndAt, CompleteAt
<1>5. MessageAt(s, a) \in Frame
  <2>1. s[a + 1] \in Byte
    <3>1. a + 1 \in 1 .. Len(s)
      BY <1>1, <1>2
    <3> QED
      BY <3>1, ElementOfSeq
  <2>2. SubSeq(s, a + 6, EndAt(s, a)) \in Seq(Byte)
    <3>1. a + 6 \in Nat \ {0} /\ EndAt(s, a) \in Int /\ EndAt(s, a) <= Len(s)
      BY <1>1, <1>4
    <3> QED
      BY <3>1, CutTyped
  <2> QED
    BY <2>1, <2>2 DEF MessageAt, Frame
<1>6. Accepted(s, a) \in Seq(Frame)
  BY <1>5 DEF Accepted
<1> QED
  BY <1>3, <1>4, <1>5, <1>6

(* The recursion that defines FramesFrom has a solution: a message ends    *)
(* behind its beginning, so it is found from the end of the stream on.     *)
LEMMA FramesSolved ==
  ASSUME NEW s \in Seq(Byte), NEW n \in 0 .. Len(s)
  PROVE  \A a \in 0 .. n :
           FramesFrom(s, n)[a]
             = IF CompleteAt(s, a, n)
               THEN Accepted(s, a) \o FramesFrom(s, n)[EndAt(s, a)]
               ELSE <<>>
<1> DEFINE Value(g, a) ==
             IF CompleteAt(s, a, n) THEN Accepted(s, a) \o g[EndAt(s, a)] ELSE <<>>
           Solves(g, k) == \A a \in k .. n : g[a] = Value(g, a)
           Solved == {k \in 0 .. n : \E g : Solves(g, k)}
<1>1. n \in Nat
  OBVIOUS
<1>2. \A a \in 0 .. n : CompleteAt(s, a, n) => EndAt(s, a) \in a + 1 .. n
  BY CompleteMessage
<1>3. ASSUME NEW k \in 0 .. n, \A b \in k + 1 .. n : b \in Solved
      PROVE  k \in Solved
  <2>1. PICK g : \A a \in k + 1 .. n : g[a] = Value(g, a)
    <3>1. CASE k = n
      BY <3>1
    <3>2. CASE k # n
      <4>1. k + 1 \in Solved
        <5>1. k + 1 \in k + 1 .. n
          BY <3>2
        <5> HIDE DEF Solved
        <5> QED
          BY <1>3, <5>1, Zenon
      <4> QED
        BY <4>1
    <3> QED
      BY <3>1, <3>2
  <2> DEFINE h == [a \in 0 .. n |-> IF a = k THEN Value(g, k) ELSE g[a]]
  <2>2. ASSUME NEW a \in k .. n PROVE h[a] = Value(h, a)
    <3>1. a \in 0 .. n
      OBVIOUS
    <3>2. Value(h, a) = Value(g, a)
      <4>1. CASE CompleteAt(s, a, n)
        <5>1. EndAt(s, a) \in 0 .. n /\ EndAt(s, a) # k
          BY <1>2, <3>1, <4>1
        <5>2. h[EndAt(s, a)] = g[EndAt(s, a)]
          <6> HIDE DEF Value
          <6> QED
            BY <5>1
        <5> HIDE DEF h
        <5> QED
          BY <5>2, Zenon
      <4>2. CASE ~CompleteAt(s, a, n)
        BY <4>2
      <4> QED
        BY <4>1, <4>2
    <3>3. h[a] = Value(g, a)
      <4> HIDE DEF Value
      <4>1. a = k \/ (a \in k + 1 .. n /\ a # k)
        OBVIOUS
      <4> QED
        BY <2>1, <3>1, <4>1
    <3> QED
      BY <3>2, <3>3, Zenon
  <2>3. Solves(h, k)
    BY <2>2, Zenon
  <2> QED
    BY <2>3, Zenon
<1>4. 0 \in Solved
  <2>1. \A a \in 0 .. n : (\A b \in a + 1 .. n : b \in Solved) => a \in Solved
    BY <1>3
  <2> HIDE DEF Solved
  <2>2. \A a \in 0 .. n : a \in Solved
    BY <1>1, <2>1, FromTheEnd, Zenon
  <2> QED
    BY <1>1, <2>2
<1>5. PICK g : Solves(g, 0)
  BY <1>4
<1> DEFINE F == [a \in 0 .. n |-> g[a]]
           Fits(f) == f = [a \in 0 .. n |-> Value(f, a)]
<1>6. Fits(F)
  <2>1. ASSUME NEW a \in 0 .. n PROVE g[a] = Value(F, a)
    <3>1. Value(g, a) = Value(F, a)
      <4>1. CASE CompleteAt(s, a, n)
        <5>1. EndAt(s, a) \in 0 .. n
          BY <1>2, <4>1
        <5>2. F[EndAt(s, a)] = g[EndAt(s, a)]
          BY <5>1
        <5> QED
          BY <5>2, Zenon
      <4>2. CASE ~CompleteAt(s, a, n)
        BY <4>2
      <4> QED
        BY <4>1, <4>2
    <3> QED
      BY <1>5, <3>1, Zenon
  <2> QED
    BY <2>1, Zenon
<1>7. Fits(FramesFrom(s, n))
  <2>1. FramesFrom(s, n) = CHOOSE f : Fits(f)
    BY DEF FramesFrom
  <2> HIDE DEF Fits, F
  <2> QED
    BY <1>6, <2>1, Zenon
<1> QED
  <2>1. PICK f : f = FramesFrom(s, n)
    OBVIOUS
  <2>2. f = [a \in 0 .. n |-> Value(f, a)]
    BY <1>7, <2>1, Zenon
  <2>3. \A a \in 0 .. n : f[a] = Value(f, a)
    BY <2>2, Zenon
  <2> QED
    BY <2>1, <2>3, Zenon

LEMMA ReadingTyped ==
  ASSUME NEW s \in Seq(Byte), NEW n \in 0 .. Len(s)
  PROVE  \A a \in 0 .. n : FramesFrom(s, n)[a] \in Seq(Frame)
<1> DEFINE f == FramesFrom(s, n)
           Typed == {a \in 0 .. n : f[a] \in Seq(Frame)}
<1>1. ASSUME NEW a \in 0 .. n, \A b \in a + 1 .. n : b \in Typed
      PROVE  a \in Typed
  <2>1. CASE CompleteAt(s, a, n)
    <3>1. EndAt(s, a) \in a + 1 .. n /\ Accepted(s, a) \in Seq(Frame)
      BY <2>1, CompleteMessage
    <3>2. f[EndAt(s, a)] \in Seq(Frame)
      BY <1>1, <3>1
    <3>3. f[a] = Accepted(s, a) \o f[EndAt(s, a)]
      BY <2>1, FramesSolved
    <3> HIDE DEF f
    <3> QED
      BY <3>1, <3>2, <3>3, ConcatProperties
  <2>2. CASE ~CompleteAt(s, a, n)
    <3>1. f[a] = <<>>
      BY <2>2, FramesSolved
    <3> HIDE DEF f
    <3>2. f[a] \in Seq(Frame)
      BY <3>1, EmptySeq
    <3> QED
      BY <3>2
  <2> QED
    BY <2>1, <2>2
<1> QED
  <2>1. n \in Nat
    OBVIOUS
  <2>2. \A a \in 0 .. n : (\A b \in a + 1 .. n : b \in Typed) => a \in Typed
    BY <1>1
  <2> HIDE DEF Typed, f
  <2>3. \A a \in 0 .. n : a \in Typed
    BY <2>1, <2>2, FromTheEnd, Zenon
  <2> QED
    BY <2>3 DEF Typed, f

(* What more of the stream shows is added behind what less of it showed.   *)
LEMMA ReadingGrows ==
  ASSUME NEW s \in Seq(Byte), NEW m \in 0 .. Len(s), NEW n \in 0 .. m
  PROVE  \A a \in 0 .. n : \E t \in Seq(Frame) :
           FramesFrom(s, m)[a] = FramesFrom(s, n)[a] \o t
<1>1. n \in 0 .. Len(s) /\ n \in Nat
  OBVIOUS
<1>2. PICK f, g : f = FramesFrom(s, n) /\ g = FramesFrom(s, m)
  OBVIOUS
<1>3. /\ \A a \in 0 .. n : f[a] \in Seq(Frame)
      /\ \A a \in 0 .. m : g[a] \in Seq(Frame)
  BY <1>1, <1>2, ReadingTyped
<1>4. /\ \A a \in 0 .. n : f[a] = IF CompleteAt(s, a, n)
                                  THEN Accepted(s, a) \o f[EndAt(s, a)] ELSE <<>>
      /\ \A a \in 0 .. m : g[a] = IF CompleteAt(s, a, m)
                                  THEN Accepted(s, a) \o g[EndAt(s, a)] ELSE <<>>
  BY <1>1, <1>2, FramesSolved, Zenon
<1> DEFINE Grows == {a \in 0 .. n : \E t \in Seq(Frame) : g[a] = f[a] \o t}
<1>5. ASSUME NEW a \in 0 .. n, \A b \in a + 1 .. n : b \in Grows
      PROVE  a \in Grows
  <2>1. CASE CompleteAt(s, a, n)
    <3>1. EndAt(s, a) \in a + 1 .. n /\ Accepted(s, a) \in Seq(Frame)
      BY <1>1, <2>1, CompleteMessage
    <3>2. PICK e \in 0 .. n : e = EndAt(s, a) /\ e \in Grows
      BY <1>5, <3>1
    <3>3. PICK t \in Seq(Frame) : g[e] = f[e] \o t
      BY <3>2
    <3>4. CompleteAt(s, a, m)
      BY <2>1, <3>1 DEF CompleteAt
    <3>5. PICK c \in Seq(Frame) : c = Accepted(s, a)
      BY <3>1
    <3>6. f[a] = c \o f[e] /\ g[a] = c \o g[e]
      <4>1. a \in 0 .. m
        OBVIOUS
      <4> QED
        BY <1>4, <2>1, <3>2, <3>4, <3>5, <4>1, Zenon
    <3>7. (c \o f[e]) \o t = c \o (f[e] \o t)
      <4>1. PICK x \in Seq(Frame) : x = f[e]
        BY <1>3
      <4>2. (c \o x) \o t = c \o (x \o t)
        BY Regrouped, Zenon
      <4> QED
        BY <4>1, <4>2, Zenon
    <3> QED
      BY <3>3, <3>6, <3>7, Zenon
  <2>2. CASE ~CompleteAt(s, a, n)
    <3>1. f[a] = <<>>
      BY <1>4, <2>2
    <3>2. g[a] \in Seq(Frame)
      BY <1>3
    <3>3. g[a] = <<>> \o g[a]
      BY <3>2, ConcatEmptySeq
    <3> QED
      BY <3>1, <3>2, <3>3, Zenon
  <2> QED
    BY <2>1, <2>2
<1> QED
  <2>1. \A a \in 0 .. n : (\A b \in a + 1 .. n : b \in Grows) => a \in Grows
    BY <1>5
  <2> HIDE DEF Grows
  <2>2. \A a \in 0 .. n : a \in Grows
    BY <1>1, <2>1, FromTheEnd, Zenon
  <2> QED
    BY <1>2, <2>2 DEF Grows

-----------------------------------------------------------------------------
(* The messages of the session, as the protocol sees them. *)

LEMMA StrippedTyped ==
  ASSUME NEW q \in Seq(Message)
  PROVE  /\ Stripped(q) \in Seq(Frame) /\ Len(Stripped(q)) = Len(q)
         /\ \A i \in 1 .. Len(q) : Stripped(q)[i] = Strip(q[i])
<1>1. \A i \in 1 .. Len(q) : Strip(q[i]) \in Frame
  <2>1. \A m \in Message : Strip(m) \in Frame
    BY DEF Strip, Frame, Message
  <2> QED
    BY <2>1, ElementOfSeq
<1>2. DOMAIN q = 1 .. Len(q) /\ Len(q) \in Nat
  OBVIOUS
<1>3. Stripped(q) = [i \in 1 .. Len(q) |-> Strip(q[i])]
  BY <1>2, Zenon DEF Stripped
<1> HIDE DEF Strip
<1>4. [i \in 1 .. Len(q) |-> Strip(q[i])] \in [1 .. Len(q) -> Frame]
  BY <1>1
<1> QED
  BY <1>2, <1>3, <1>4

LEMMA StrippedAppend ==
  ASSUME NEW q \in Seq(Message), NEW m \in Message
  PROVE  Stripped(Append(q, m)) = Append(Stripped(q), Strip(m))
<1>1. PICK r \in Seq(Message) : r = Append(q, m) /\ Len(r) = Len(q) + 1
  BY AppendProperties
<1>2. PICK x \in Frame : x = Strip(m)
  <2>1. Strip(m) \in Frame
    BY DEF Strip, Frame, Message
  <2> HIDE DEF Strip
  <2> QED
    BY <2>1
<1>3. PICK u \in Seq(Frame) : u = Stripped(r) /\ Len(u) = Len(r)
  BY StrippedTyped, Zenon
<1>4. PICK p \in Seq(Frame) : p = Stripped(q) /\ Len(p) = Len(q)
  BY StrippedTyped, Zenon
<1>5. PICK v \in Seq(Frame) : v = Append(p, x) /\ Len(v) = Len(p) + 1
  BY AppendProperties
<1>6. /\ \A i \in 1 .. Len(r) : u[i] = Strip(r[i])
      /\ \A i \in 1 .. Len(q) : p[i] = Strip(q[i])
  BY <1>3, <1>4, StrippedTyped, Zenon
<1>7. ASSUME NEW i \in 1 .. Len(u) PROVE u[i] = v[i]
  <2>1. u[i] = Strip(r[i])
    BY <1>3, <1>6
  <2>2. CASE i = Len(q) + 1
    <3>1. r[i] = m /\ v[i] = x
      BY <1>1, <1>4, <1>5, <2>2
    <3> QED
      BY <1>2, <2>1, <3>1, Zenon
  <2>3. CASE i \in 1 .. Len(q)
    <3>1. r[i] = q[i] /\ v[i] = p[i]
      BY <1>1, <1>4, <1>5, <2>3
    <3> QED
      BY <1>6, <2>1, <2>3, <3>1, Zenon
  <2>4. i = Len(q) + 1 \/ i \in 1 .. Len(q)
    BY <1>1, <1>3
  <2> QED
    BY <2>2, <2>3, <2>4
<1>8. Len(u) = Len(v)
  BY <1>1, <1>3, <1>4, <1>5
<1>9. u = v
  BY <1>7, <1>8, SeqEqual
<1> QED
  BY <1>1, <1>2, <1>3, <1>4, <1>5, <1>9, Zenon

-----------------------------------------------------------------------------
(* What is parsed so far and what the protocol reads behind it are what it *)
(* reads in all.                                                           *)
ReadSoFar ==
  \A n \in start .. Len(stream) :
    Stripped(Frames) \o FramesFrom(stream, n)[start] = ProtocolFrames(stream, n)

AtBoundary == \E At \in SUBSET Nat : Framing(stream, At) /\ start \in At

DeliveryInv == AtBoundary /\ ReadSoFar

LEMMA DeliveryInit ==
  ASSUME Init, \A s \in Streams : WithinLimit(s)
  PROVE  DeliveryInv
<1>1. stream \in Streams /\ stream \in Seq(Byte) /\ start = 0
  BY SessionAssumption DEF Init
<1>2. AtBoundary
  BY <1>1 DEF AtBoundary, WithinLimit, Framing
<1>3. Stripped(Frames) = <<>>
  <2>1. Frames = <<>>
    BY EmptySeq, ConcatEmptySeq DEF Init, Frames
  <2>2. <<>> \in Seq(Message)
    BY EmptySeq
  <2>3. Stripped(<<>>) \in Seq(Frame) /\ Len(Stripped(<<>>)) = 0
    BY <2>2, StrippedTyped
  <2>4. PICK u \in Seq(Frame) : u = Stripped(<<>>) /\ Len(u) = 0
    BY <2>3
  <2> QED
    BY <2>1, <2>4
<1>4. ASSUME NEW n \in 0 .. Len(stream)
      PROVE  <<>> \o FramesFrom(stream, n)[0] = FramesFrom(stream, n)[0]
  <2>1. 0 \in 0 .. n
    OBVIOUS
  <2>2. PICK x \in Seq(Frame) : x = FramesFrom(stream, n)[0]
    <3>1. FramesFrom(stream, n)[0] \in Seq(Frame)
      BY <1>1, <2>1, ReadingTyped, Zenon
    <3> QED
      BY <3>1, Zenon
  <2>3. <<>> \o x = x
    BY ConcatEmptySeq
  <2> QED
    BY <2>2, <2>3, Zenon
<1>5. ReadSoFar
  BY <1>1, <1>3, <1>4, Zenon DEF ReadSoFar, ProtocolFrames
<1> QED
  BY <1>2, <1>5 DEF DeliveryInv

LEMMA DeliveryKept ==
  ASSUME DeliveryInv, stream' = stream, start' = start, Frames' = Frames
  PROVE  DeliveryInv'
  BY DEF DeliveryInv, AtBoundary, ReadSoFar

(* Where the parser has a header, the protocol sees it. *)
LEMMA HeaderAgrees ==
  ASSUME TypeOK, ParserShape, HeaderRead
  PROVE  MsgLen = SizeAt(stream, start) /\ start + 5 <= Len(stream)
<1>1. /\ size_vec = SubSeq(stream, start + 2, start + 5)
      /\ start + 5 <= rcvd /\ rcvd <= Len(stream) /\ rcvd \in Nat
  BY HeaderInStream
<1>2. start \in Nat /\ Len(stream) \in Nat
  BY LenProperties DEF TypeOK
<1>3. MsgLen = SizeAt(stream, start)
  BY <1>1, Zenon DEF MsgLen, SizeAt
<1> QED
  BY <1>1, <1>2, <1>3

LEMMA ParsedAgrees ==
  ASSUME TypeOK, ParserShape, ParseBody
  PROVE  /\ Parsed \in Message /\ Strip(Parsed) = MessageAt(stream, start)
         /\ Accepted(stream, start) = <<Strip(Parsed)>>
         /\ EndAt(stream, start) = start' /\ start + 5 <= start'
         /\ start' \in Nat /\ start' <= rcvd
<1>1. HeaderRead /\ FromReqToVec /\ FieldLen = MsgLen /\ MsgLen <= MaxMessageSize
        /\ start' = start + 5 + MsgLen
  BY SessionAssumption DEF ParseBody, HeaderRead, FieldLen
<1>2. MsgLen = SizeAt(stream, start) /\ MsgLen \in Nat
  BY <1>1, HeaderAgrees, HeaderInStream
<1>3. start \in Nat
  BY DEF TypeOK
<1>4. EndAt(stream, start) = start'
  BY <1>1, <1>2 DEF EndAt
<1>5. Parsed \in Message /\ FrameExact(Parsed)
  BY ParsedExact
<1>6. Parsed.at = start /\ Len(Parsed.body) = MsgLen
  <2>1. Len(Taken) = MsgLen
    BY <1>1, <1>2, TakenTyped
  <2> QED
    BY <2>1 DEF Parsed
<1>7. Parsed.type = stream[start + 1]
        /\ Parsed.body = SubSeq(stream, start + 6, EndAt(stream, start))
  BY <1>2, <1>5, <1>6, Zenon DEF FrameExact, EndAt
<1>8. Strip(Parsed) = MessageAt(stream, start)
  BY <1>7, Zenon DEF Strip, MessageAt
<1>9. Accepted(stream, start) = <<Strip(Parsed)>>
  <2>1. ~(SizeAt(stream, start) > MaxMessageSize)
    BY <1>1, <1>2, SessionAssumption
  <2> QED
    BY <1>8, <2>1, Zenon DEF Accepted
<1>10. start + 5 <= start' /\ start' \in Nat
  BY <1>1, <1>2, <1>3
<1>11. start' <= rcvd
  <2>1. start + 6 + MsgLen <= rcvd + 1
    <3>1. PICK k : k = start + 6 + MsgLen
      OBVIOUS
    <3>2. Len(Taken) = MsgLen
      BY <1>1, <1>2, TakenTyped
    <3>3. k <= rcvd + 1
      BY <3>1, BodyInStream DEF SplitAt
    <3> QED
      BY <3>1, <3>3
  <2>2. rcvd \in Nat
    BY <1>1, HeaderInStream
  <2> QED
    BY <1>1, <1>2, <1>3, <2>1, <2>2
<1> QED
  BY <1>4, <1>5, <1>8, <1>9, <1>10, <1>11

LEMMA BodyKeepsReading ==
  ASSUME TypeOK, ParserShape, DeliveryInv, ParseBody,
         UNCHANGED <<stream, rcvd, handled>>
  PROVE  DeliveryInv'
<1>1. /\ Parsed \in Message /\ Accepted(stream, start) = <<Strip(Parsed)>>
      /\ EndAt(stream, start) = start' /\ start + 5 <= start'
      /\ start' \in Nat /\ start' <= rcvd
  BY ParsedAgrees
<1>2. /\ start \in Nat /\ rcvd \in Nat /\ Len(stream) \in Nat
      /\ rcvd <= Len(stream) /\ stream \in Seq(Byte)
  BY LenProperties DEF TypeOK
<1>3. AtBoundary'
  <2>1. PICK At \in SUBSET Nat : Framing(stream, At) /\ start \in At
    BY DEF DeliveryInv, AtBoundary
  <2>2. start + 5 <= Len(stream) /\ EndAt(stream, start) <= Len(stream)
    BY <1>1, <1>2
  <2>3. start' \in At
    BY <1>1, <2>1, <2>2, Zenon DEF Framing
  <2> QED
    BY <2>1, <2>3 DEF AtBoundary
<1>4. Frames \in Seq(Message) /\ Frames' = Append(Frames, Parsed)
  BY FramesTyped, ParsedAppended
<1>5. PICK p \in Seq(Frame) : p = Stripped(Frames)
  BY <1>4, StrippedTyped, Zenon
<1>6. PICK x \in Frame : x = Strip(Parsed)
  <2>1. Strip(Parsed) \in Frame
    BY <1>1 DEF Strip, Frame, Message
  <2> QED
    BY <2>1, Zenon
<1>7. Stripped(Frames') = p \o <<x>>
  <2>1. Stripped(Append(Frames, Parsed)) = Append(Stripped(Frames), Strip(Parsed))
    BY <1>1, <1>4, StrippedAppend, Zenon
  <2>2. Append(p, x) = p \o <<x>>
    BY AppendIsConcat
  <2> QED
    BY <1>4, <1>5, <1>6, <2>1, <2>2, Zenon
<1>8. ASSUME NEW n \in start' .. Len(stream)
      PROVE  Stripped(Frames') \o FramesFrom(stream, n)[start']
               = ProtocolFrames(stream, n)
  <2>1. /\ n \in start .. Len(stream) /\ n \in 0 .. Len(stream)
        /\ start \in 0 .. n /\ start' \in 0 .. n
    BY <1>1, <1>2
  <2>2. CompleteAt(stream, start, n)
    BY <1>1, <1>2 DEF CompleteAt
  <2>3. PICK f : f = FramesFrom(stream, n)
    OBVIOUS
  <2>4. f[start] = <<x>> \o f[start']
    <3>1. f[start] = Accepted(stream, start) \o f[EndAt(stream, start)]
      BY <1>2, <2>1, <2>2, <2>3, FramesSolved, Zenon
    <3> QED
      BY <1>1, <1>6, <3>1, Zenon
  <2>5. PICK t \in Seq(Frame) : t = f[start']
    <3>1. f[start'] \in Seq(Frame)
      BY <1>2, <2>1, <2>3, ReadingTyped, Zenon
    <3> QED
      BY <3>1, Zenon
  <2>6. p \o f[start] = ProtocolFrames(stream, n)
    BY <1>5, <2>1, <2>3, Zenon DEF DeliveryInv, ReadSoFar
  <2>7. (p \o <<x>>) \o t = p \o (<<x>> \o t)
    <3>1. PICK u \in Seq(Frame) : u = <<x>>
      <4>1. <<x>> \in Seq(Frame)
        OBVIOUS
      <4> QED
        BY <4>1, Zenon
    <3>2. (p \o u) \o t = p \o (u \o t)
      BY Regrouped, Zenon
    <3> QED
      BY <3>1, <3>2, Zenon
  <2> QED
    BY <1>7, <2>3, <2>4, <2>5, <2>6, <2>7, Zenon
<1>9. ReadSoFar'
  BY <1>8, Zenon DEF ReadSoFar
<1> QED
  BY <1>3, <1>9 DEF DeliveryInv

LEMMA DeliveryNext ==
  TypeOK /\ ParserShape /\ DeliveryInv /\ [Next]_vars => DeliveryInv'
<1> SUFFICES ASSUME TypeOK, ParserShape, DeliveryInv, [Next]_vars
             PROVE  DeliveryInv'
  OBVIOUS
<1> USE DEF peerVars, parseVars
<1>1. CASE UNCHANGED <<stream, start, handled, messages>>
  BY <1>1, DeliveryKept DEF Frames
<1>2. CASE ParseMessage
  <2>1. UNCHANGED <<stream, rcvd, handled>>
    BY <1>2 DEF ParseMessage
  <2>2. CASE ParseBody
    BY <2>1, <2>2, BodyKeepsReading
  <2>3. CASE ParseTooLarge
    <3>1. MsgLen = SizeAt(stream, start) /\ start + 5 <= Len(stream)
      BY <2>3, HeaderAgrees DEF ParseTooLarge
    <3>2. MsgLen > MaxMessageSize /\ MsgLen \in Nat
      BY <2>3, HeaderInStream DEF ParseTooLarge
    <3>3. SizeAt(stream, start) <= MaxMessageSize
      BY <3>1, Zenon DEF DeliveryInv, AtBoundary, Framing
    <3> QED
      BY <3>1, <3>2, <3>3, SessionAssumption
  <2>4. CASE ParseType \/ ParseSize \/ ParseShort \/ ParseEmpty
    BY <2>1, <2>4, DeliveryKept
    DEF ParseType, ParseSize, ParseShort, ParseEmpty, Frames
  <2> QED
    BY <1>2, <2>2, <2>3, <2>4 DEF ParseMessage
<1>3. CASE Dispatch
  <2>1. CASE HandleNothing
    BY <2>1, DeliveryKept DEF HandleNothing, Frames
  <2>2. CASE HandleAuth \/ \E ok \in BOOLEAN : HandleImgMessage(ok)
    <3>1. messages # <<>> /\ PopMessage /\ stream' = stream
      BY <2>2 DEF HandleAuth, HandleImgMessage
    <3>2. Frames' = Frames /\ start' = start
      BY <3>1, PopFrames DEF PopMessage
    <3> QED
      BY <3>1, <3>2, DeliveryKept
  <2> QED
    BY <1>3, <2>1, <2>2 DEF Dispatch
<1>4. CASE Environment
  BY <1>1, <1>4
  DEF Environment, PeerWrite, PeerClose, PeerReset, RoomTaken, RoomFreed,
      serverVars
<1>5. CASE EpollWait \/ HandleEvent \/ HandleOutEvent
  BY <1>1, <1>5 DEF EpollWait, HandleEvent, HandleOutEvent, CloseSession
<1>6. CASE TryRecv
  BY <1>1, <1>6 DEF TryRecv, RecvBytes, RecvAgain, RecvEnds, CloseSession
<1>7. CASE SendAuthResponse
  BY <1>1, <1>7 DEF SendAuthResponse, CloseSession
<1>8. CASE UNCHANGED vars
  BY <1>1, <1>8 DEF vars
<1> QED
  BY <1>2, <1>3, <1>4, <1>5, <1>6, <1>7, <1>8 DEF Next, Server

-----------------------------------------------------------------------------
(* The step simulation. *)

Offered == ProtocolFrames(stream, sent)
Done    == Stripped(handled)

LEMMA DeliveryStarts == Init => Delivery!Init
<1> SUFFICES ASSUME Init PROVE Delivery!Init
  OBVIOUS
<1>1. stream \in Seq(Byte) /\ sent = 0 /\ handled = <<>>
  BY SessionAssumption DEF Init
<1>2. Offered = <<>>
  <2>1. 0 \in 0 .. Len(stream) /\ 0 \in 0 .. 0
    BY <1>1, LenProperties
  <2>2. ~CompleteAt(stream, 0, 0)
    BY DEF CompleteAt
  <2>3. FramesFrom(stream, 0)[0] = <<>>
    BY <1>1, <2>1, <2>2, FramesSolved, Zenon
  <2> QED
    BY <1>1, <2>3, Zenon DEF Offered, ProtocolFrames
<1>3. Done = <<>>
  <2>1. <<>> \in Seq(Message) /\ Len(<<>>) = 0
    BY EmptySeq
  <2>2. PICK u \in Seq(Frame) : u = Stripped(<<>>) /\ Len(u) = 0
    BY <2>1, StrippedTyped, Zenon
  <2> QED
    BY <1>1, <2>2 DEF Done
<1> QED
  BY <1>2, <1>3, Zenon DEF Delivery!Init, Offered, Done, Stripped, Strip

LEMMA Prefixed ==
  ASSUME NEW p \in Seq(Frame), NEW t \in Seq(Frame), t # <<>>
  PROVE  Len(p \o t) > Len(p) /\ SubSeq(p \o t, 1, Len(p)) = p
<1>1. PICK q \in Seq(Frame) : q = p \o t
  BY ConcatProperties
<1>2. /\ Len(q) = Len(p) + Len(t) /\ Len(p) \in Nat /\ Len(t) \in Nat \ {0}
      /\ \A i \in 1 .. Len(p) : q[i] = p[i]
  BY <1>1, ConcatProperties, EmptySeq, LenProperties
<1>3. PICK k \in Nat : k = Len(p)
  BY <1>2
<1>4. /\ SubSeq(q, 1, k) \in Seq(Frame) /\ Len(SubSeq(q, 1, k)) = k
      /\ \A i \in 1 .. k : SubSeq(q, 1, k)[i] = q[i]
  <2>1. 1 \in Nat \ {0} /\ k \in Int /\ k <= Len(q)
    BY <1>2, <1>3
  <2>2. /\ SubSeq(q, 1, k) \in Seq(Frame)
        /\ Len(SubSeq(q, 1, k)) = IF 1 <= k THEN k - 1 + 1 ELSE 0
        /\ \A i \in 1 .. k - 1 + 1 : SubSeq(q, 1, k)[i] = q[1 + i - 1]
    BY <2>1, CutTyped
  <2> QED
    BY <2>2
<1>5. SubSeq(q, 1, k) = p
  BY <1>2, <1>3, <1>4, SeqEqual
<1> QED
  BY <1>1, <1>2, <1>3, <1>5

(* Bytes that reach the socket complete messages, or none.                 *)
LEMMA WriteOffers ==
  ASSUME TypeOK, NEW k \in 1 .. Len(stream), PeerWrite(k)
  PROVE  [Delivery!Offer]_<<Offered, Done>>
<1>1. /\ stream \in Seq(Byte) /\ stream' = stream /\ handled' = handled
      /\ sent \in 0 .. sent' /\ sent' \in 0 .. Len(stream)
      /\ sent \in 0 .. Len(stream) /\ 0 \in 0 .. sent
  BY LenProperties DEF TypeOK, PeerWrite, serverVars
<1>2. PICK p \in Seq(Frame) : p = Offered
  <2>1. FramesFrom(stream, sent)[0] \in Seq(Frame)
    BY <1>1, ReadingTyped, Zenon
  <2> QED
    BY <2>1, Zenon DEF Offered, ProtocolFrames
<1>3. PICK t \in Seq(Frame) : Offered' = p \o t
  <2>1. \E t \in Seq(Frame) :
          FramesFrom(stream, sent')[0] = FramesFrom(stream, sent)[0] \o t
    BY <1>1, ReadingGrows, Zenon
  <2> QED
    BY <1>1, <1>2, <2>1, Zenon DEF Offered, ProtocolFrames
<1>4. Done' = Done
  BY <1>1 DEF Done
<1>5. CASE t = <<>>
  <2>1. p \o t = p
    BY <1>5, ConcatEmptySeq
  <2> QED
    BY <1>2, <1>3, <1>4, <2>1
<1>6. CASE t # <<>>
  <2>1. PICK q \in Seq(Frame) : q = p \o t
    BY ConcatProperties
  <2>2. Len(q) > Len(p) /\ SubSeq(q, 1, Len(p)) = p
    BY <1>6, <2>1, Prefixed
  <2> QED
    BY <1>2, <1>3, <1>4, <2>1, <2>2, Zenon
    DEF Delivery!Offer, Offered, Done, Stripped, Strip
<1> QED
  BY <1>5, <1>6

(* The message that is popped is the next the peer was offered.            *)
LEMMA PopHandles ==
  ASSUME TypeOK, ParserShape, DeliveryInv, messages # <<>>, PopMessage,
         UNCHANGED <<stream, sent>>
  PROVE  Delivery!Handle
<1>1. /\ handled \in Seq(Message) /\ messages \in Seq(Message)
      /\ Head(messages) \in Message /\ handled' = Append(handled, Head(messages))
  BY HeadTailProperties DEF TypeOK, PopMessage, msg
<1>2. Done' = Append(Done, Strip(Head(messages)))
  BY <1>1, StrippedAppend, Zenon DEF Done
<1>3. /\ stream \in Seq(Byte) /\ sent \in start .. Len(stream)
      /\ start \in 0 .. sent /\ sent \in 0 .. Len(stream)
  BY LenProperties DEF TypeOK, ParserShape
<1>4. PICK t \in Seq(Frame) : t = FramesFrom(stream, sent)[start]
  <2>1. FramesFrom(stream, sent)[start] \in Seq(Frame)
    BY <1>3, ReadingTyped, Zenon
  <2> QED
    BY <2>1, Zenon
<1>5. Offered = Stripped(Frames) \o t
  BY <1>3, <1>4, Zenon DEF DeliveryInv, ReadSoFar, Offered
<1> DEFINE l == Len(handled)
<1>6. l \in Nat /\ l + 1 \in 1 .. Len(Frames) /\ Frames[l + 1] = Head(messages)
  <2>1. PICK h \in Seq(Message), m \in Seq(Message), f \in Seq(Message) :
          h = handled /\ m = messages /\ f = Frames
    BY <1>1, FramesTyped
  <2>2. /\ Len(f) = Len(h) + Len(m)
        /\ \A i \in 1 .. Len(h) + Len(m) :
             f[i] = IF i <= Len(h) THEN h[i] ELSE m[i - Len(h)]
    BY <2>1, ConcatProperties DEF Frames
  <2>3. m # <<>>
    BY <2>1
  <2>4. Len(m) \in Nat \ {0} /\ Len(h) \in Nat /\ Head(m) = m[1]
    BY <2>3
  <2>5. Len(h) + 1 \in 1 .. Len(f) /\ f[Len(h) + 1] = m[1]
    <3>1. PICK a, b \in Nat : a = Len(h) /\ b = Len(m) /\ b > 0
      BY <2>4
    <3>2. a + 1 \in 1 .. a + b /\ ~(a + 1 <= a) /\ a + 1 - a = 1
      BY <3>1
    <3> QED
      BY <2>2, <3>1, <3>2
  <2> QED
    BY <2>1, <2>4, <2>5
<1> HIDE DEF l
<1>7. PICK s \in Seq(Frame) :
        s = Stripped(Frames) /\ Len(s) = Len(Frames)
          /\ s[l + 1] = Strip(Head(messages))
  BY <1>6, FramesTyped, StrippedTyped, Zenon
<1>8. l < Len(s \o t) /\ (s \o t)[l + 1] = s[l + 1]
  BY <1>6, <1>7, ConcatProperties
<1>9. Len(Done) = l
  BY <1>1, StrippedTyped, Zenon DEF Done, l
<1>10. Len(Done) < Len(Offered)
         /\ Done' = Append(Done, Offered[Len(Done) + 1])
  BY <1>2, <1>5, <1>7, <1>8, <1>9, Zenon
<1>11. Offered' = Offered
  BY DEF Offered
<1> QED
  BY <1>10, <1>11, Zenon DEF Delivery!Handle, Offered, Done, Stripped, Strip

LEMMA DeliverySteps ==
  ASSUME TypeOK, ParserShape, DeliveryInv, [Next]_vars
  PROVE  [Delivery!Offer \/ Delivery!Handle]_<<Offered, Done>>
<1> USE DEF peerVars
<1>1. CASE UNCHANGED <<stream, sent, handled>>
  BY <1>1 DEF Offered, Done
<1>2. CASE \E k \in 1 .. Len(stream) : PeerWrite(k)
  BY <1>2, WriteOffers
<1>3. CASE PeerClose \/ PeerReset \/ RoomTaken \/ RoomFreed
  BY <1>1, <1>3 DEF PeerClose, PeerReset, RoomTaken, RoomFreed, serverVars
<1>4. CASE EpollWait \/ HandleEvent \/ HandleOutEvent
  BY <1>1, <1>4 DEF EpollWait, HandleEvent, HandleOutEvent, CloseSession
<1>5. CASE TryRecv
  BY <1>1, <1>5 DEF TryRecv, RecvBytes, RecvAgain, RecvEnds, CloseSession
<1>6. CASE ParseMessage
  BY <1>1, <1>6 DEF ParseMessage
<1>7. CASE Dispatch
  <2>1. CASE HandleNothing
    BY <1>1, <2>1 DEF HandleNothing
  <2>2. CASE HandleAuth \/ \E ok \in BOOLEAN : HandleImgMessage(ok)
    <3>1. messages # <<>> /\ PopMessage /\ stream' = stream /\ sent' = sent
      BY <2>2 DEF HandleAuth, HandleImgMessage
    <3> QED
      BY <3>1, PopHandles
  <2> QED
    BY <1>7, <2>1, <2>2 DEF Dispatch
<1>8. CASE SendAuthResponse
  BY <1>1, <1>8 DEF SendAuthResponse, CloseSession
<1>9. CASE UNCHANGED vars
  BY <1>1, <1>9 DEF vars
<1> QED
  BY <1>2, <1>3, <1>4, <1>5, <1>6, <1>7, <1>8, <1>9 DEF Next, Server, Environment

(* A connection implements InOrderDelivery: the messages handled are those *)
(* the protocol frames in the bytes written (server.h:21-40), in order and *)
(* each at most once, however recv() cuts them (session.cc:121-190), if no *)
(* stream holds a message over MAX_MESSAGE_SIZE.                           *)
THEOREM HandlesInOrder ==
  (\A s \in Streams : WithinLimit(s)) => (Spec => DeliversInOrder)
<1> SUFFICES ASSUME \A s \in Streams : WithinLimit(s)
             PROVE  Spec => DeliversInOrder
  OBVIOUS
<1> DEFINE Inv == TypeOK /\ ParserShape /\ DeliveryInv
<1>1. Init => Inv
  BY TypeInit, ShapeInit, DeliveryInit
<1>2. Inv /\ [Next]_vars => Inv'
  BY TypeNext, ShapeNext, DeliveryNext
<1>3. Inv /\ [Next]_vars => [Delivery!Offer \/ Delivery!Handle]_<<Offered, Done>>
  BY DeliverySteps
<1> HIDE DEF Inv
<1> QED
  BY <1>1, <1>2, <1>3, DeliveryStarts, PTL
  DEF Spec, DeliversInOrder, Delivery!Spec, Offered, Done, Stripped, Strip

-----------------------------------------------------------------------------
(* Nothing complete is left in the buffer. *)

LEMMA BufferLength ==
  ASSUME TypeOK, ParserShape
  PROVE  Len(request) = rcvd - start - Len(type_vec) - Len(size_vec)
<1>1. PICK h \in Seq(Byte), r \in Seq(Byte) :
        /\ h = type_vec \o size_vec /\ r = request
        /\ Len(h) = Len(type_vec) + Len(size_vec)
  BY ParserTyped
<1>2. /\ start \in Nat /\ rcvd \in Nat /\ start <= rcvd /\ rcvd <= Len(stream)
      /\ Len(type_vec) \in Nat /\ Len(size_vec) \in Nat /\ stream \in Seq(Byte)
  BY LenProperties DEF TypeOK, ParserShape
<1>3. h \o r = SubSeq(stream, start + 1, rcvd)
  BY <1>1, Zenon DEF ParserShape, StreamIntact
<1>4. Len(h \o r) = Len(h) + Len(r) /\ Len(r) \in Nat
  BY ConcatProperties, LenProperties
<1>5. Len(SubSeq(stream, start + 1, rcvd)) = rcvd - start
  <2>1. PICK m \in Nat \ {0}, k \in Int :
          m = start + 1 /\ k = rcvd /\ m <= k + 1 /\ k <= Len(stream)
    BY <1>2
  <2>2. Len(SubSeq(stream, m, k)) = IF m <= k THEN k - m + 1 ELSE 0
    BY <1>2, <2>1, CutTyped
  <2> QED
    BY <1>2, <2>1, <2>2
<1>6. PICK a, b, c, d \in Nat :
        a = Len(type_vec) /\ b = Len(size_vec) /\ c = Len(r) /\ d = Len(h)
  BY <1>2, <1>4, LenProperties
<1>7. d = a + b /\ d + c = rcvd - start
  BY <1>1, <1>3, <1>4, <1>5, <1>6, Zenon
<1>8. c = rcvd - start - a - b
  BY <1>2, <1>7
<1> QED
  BY <1>1, <1>6, <1>8

(* ParseMessage gives up only where the protocol sees no whole message.    *)
LEMMA ShortIncomplete ==
  ASSUME TypeOK, ParserShape, ParseShort
  PROVE  ~CompleteAt(stream, start, rcvd)
<1>1. Len(request) < FieldLen
  BY DEF ParseShort
<1>2. /\ start \in Nat /\ rcvd \in Nat /\ Len(type_vec) \in {0, 1}
      /\ Len(size_vec) \in {0, 4} /\ type_vec \in Seq(Byte)
      /\ size_vec \in Seq(Byte) /\ (size_vec # <<>> => type_vec # <<>>)
  BY DEF TypeOK, ParserShape
<1>3. Len(request) = rcvd - start - Len(type_vec) - Len(size_vec)
  BY BufferLength
<1>4. CASE type_vec = <<>>
  <2>1. FieldLen = 1 /\ Len(type_vec) = 0 /\ Len(size_vec) = 0
    BY <1>2, <1>4 DEF FieldLen
  <2> QED
    BY <1>1, <1>2, <1>3, <2>1 DEF CompleteAt
<1>5. CASE type_vec # <<>> /\ size_vec = <<>>
  <2>1. FieldLen = 4 /\ Len(type_vec) = 1 /\ Len(size_vec) = 0
    BY <1>2, <1>5 DEF FieldLen
  <2> QED
    BY <1>1, <1>2, <1>3, <2>1 DEF CompleteAt
<1>6. CASE HeaderRead
  <2>1. FieldLen = MsgLen
    BY <1>6 DEF FieldLen, HeaderRead
  <2>2. /\ MsgLen = SizeAt(stream, start) /\ MsgLen \in Nat
        /\ Len(type_vec) = 1 /\ Len(size_vec) = 4
    BY <1>6, HeaderAgrees, HeaderInStream
  <2>3. EndAt(stream, start) = start + 5 + MsgLen
    BY <2>2 DEF EndAt
  <2> QED
    BY <1>1, <1>2, <1>3, <2>1, <2>2, <2>3 DEF CompleteAt
<1> QED
  BY <1>4, <1>5, <1>6 DEF HeaderRead

Parsing == {"recv", "parse", "closed"}

NoneComplete == pc \notin Parsing => ~CompleteAt(stream, start, rcvd)

LEMMA NoneCompleteInit == Init => NoneComplete
  BY DEF Init, NoneComplete, CompleteAt

(* Only parsing ends in a place where the parser must have finished.       *)
LEMMA NoneCompleteKept ==
  ASSUME NoneComplete, UNCHANGED <<stream, start, rcvd>>,
         pc \notin Parsing \/ pc' \in Parsing
  PROVE  NoneComplete'
  BY DEF NoneComplete

LEMMA NoneCompleteNext ==
  TypeOK /\ ParserShape /\ DeliveryInv /\ NoneComplete /\ [Next]_vars
    => NoneComplete'
<1> SUFFICES ASSUME TypeOK, ParserShape, DeliveryInv, NoneComplete, [Next]_vars
             PROVE  NoneComplete'
  OBVIOUS
<1> USE NoneCompleteKept DEF peerVars, parseVars, Parsing
<1>1. CASE Environment
  BY <1>1 DEF Environment, PeerWrite, PeerClose, PeerReset, RoomTaken,
              RoomFreed, serverVars
<1>2. CASE EpollWait \/ HandleEvent \/ HandleOutEvent
  BY <1>2 DEF EpollWait, HandleEvent, HandleOutEvent, CloseSession
<1>3. CASE TryRecv
  <2>1. pc' \in Parsing
    BY <1>3 DEF TryRecv, RecvBytes, RecvAgain, RecvEnds, CloseSession
  <2> QED
    BY <2>1 DEF NoneComplete
<1>4. CASE ParseMessage
  <2>1. UNCHANGED <<stream, rcvd>> /\ pc = "parse"
    BY <1>4 DEF ParseMessage
  <2>2. CASE ParseType \/ ParseSize \/ ParseBody \/ ParseEmpty
    <3>1. pc' \in Parsing
      BY <2>1, <2>2 DEF ParseType, ParseSize, ParseBody, ParseEmpty
    <3> QED
      BY <3>1 DEF NoneComplete
  <2>3. CASE ParseShort
    <3>1. start' = start
      BY <2>3 DEF ParseShort
    <3> QED
      BY <2>1, <2>3, <3>1, ShortIncomplete DEF NoneComplete
  <2>4. CASE ParseTooLarge
    <3>1. FALSE
      <4>1. MsgLen = SizeAt(stream, start) /\ start + 5 <= Len(stream)
        BY <2>4, HeaderAgrees DEF ParseTooLarge
      <4>2. MsgLen > MaxMessageSize /\ MsgLen \in Nat
        BY <2>4, HeaderInStream DEF ParseTooLarge
      <4>3. SizeAt(stream, start) <= MaxMessageSize
        BY <4>1, Zenon DEF DeliveryInv, AtBoundary, Framing
      <4> QED
        BY <4>1, <4>2, <4>3, SessionAssumption
    <3> QED
      BY <3>1
  <2> QED
    BY <1>4, <2>2, <2>3, <2>4 DEF ParseMessage
<1>5. CASE Dispatch
  <2>1. UNCHANGED <<stream, start, rcvd>> /\ pc = "dispatch"
    BY <1>5 DEF Dispatch, HandleAuth, HandleImgMessage, HandleNothing,
                PopMessage
  <2> QED
    BY <2>1
<1>6. CASE SendAuthResponse
  BY <1>6 DEF SendAuthResponse, CloseSession
<1>7. CASE UNCHANGED vars
  BY <1>7 DEF vars
<1> QED
  BY <1>1, <1>2, <1>3, <1>4, <1>5, <1>6, <1>7 DEF Next, Server

LEMMA NoneCompleteQueued ==
  ASSUME TypeOK, ParserShape, DeliveryInv, NoneComplete
  PROVE  QueuedAsReceived
<1> SUFFICES ASSUME pc \notin Parsing
             PROVE  Stripped(Frames) = ProtocolFrames(stream, rcvd)
  BY DEF QueuedAsReceived, Parsing
<1>1. /\ stream \in Seq(Byte) /\ rcvd \in start .. Len(stream)
      /\ start \in 0 .. rcvd /\ rcvd \in 0 .. Len(stream)
  BY LenProperties DEF TypeOK, ParserShape
<1>2. FramesFrom(stream, rcvd)[start] = <<>>
  BY <1>1, FramesSolved, Zenon DEF NoneComplete
<1>3. PICK p \in Seq(Frame) : p = Stripped(Frames)
  BY FramesTyped, StrippedTyped, Zenon
<1>4. p \o <<>> = ProtocolFrames(stream, rcvd)
  BY <1>1, <1>2, <1>3, Zenon DEF DeliveryInv, ReadSoFar
<1>5. p \o <<>> = p
  BY ConcatEmptySeq
<1> QED
  BY <1>3, <1>4, <1>5

(* Whenever the server does not receive or parse, what it has handled and  *)
(* queued is all the protocol sees in the bytes received, if no stream     *)
(* holds a message over MAX_MESSAGE_SIZE: ParseMessage leaves no complete  *)
(* message in the buffer (session.cc:121-190).                             *)
THEOREM ParserKeepsUp ==
  (\A s \in Streams : WithinLimit(s)) => (Spec => []QueuedAsReceived)
<1> SUFFICES ASSUME \A s \in Streams : WithinLimit(s)
             PROVE  Spec => []QueuedAsReceived
  OBVIOUS
<1> DEFINE Inv == TypeOK /\ ParserShape /\ DeliveryInv /\ NoneComplete
<1>1. Init => Inv
  BY TypeInit, ShapeInit, DeliveryInit, NoneCompleteInit
<1>2. Inv /\ [Next]_vars => Inv'
  BY TypeNext, ShapeNext, DeliveryNext, NoneCompleteNext
<1>3. Inv => QueuedAsReceived
  BY NoneCompleteQueued
<1> HIDE DEF Inv
<1> QED
  BY <1>1, <1>2, <1>3, PTL DEF Spec

(* A server asleep, its descriptor not in the ready list, has handled or   *)
(* queued every message the peer has completely written: epoll owes it     *)
(* nothing (NoLostEdge), and its parser has kept up (server.cc:154-196).   *)
AsleepWithAll ==
  pc = "wait" /\ ~ready => Stripped(Frames) = ProtocolFrames(stream, sent)

THEOREM SleepsWithNothingUnread ==
  (\A s \in Streams : WithinLimit(s)) => (Spec => []AsleepWithAll)
<1> SUFFICES ASSUME \A s \in Streams : WithinLimit(s)
             PROVE  Spec => []AsleepWithAll
  OBVIOUS
<1>1. Spec => [](TypeOK /\ NoLostEdge /\ QueuedAsReceived)
  BY TypeCorrect, NoEdgeLost, ParserKeepsUp, PTL
<1>2. TypeOK /\ NoLostEdge /\ QueuedAsReceived => AsleepWithAll
  <2> SUFFICES ASSUME TypeOK, NoLostEdge, QueuedAsReceived, pc = "wait", ~ready
               PROVE  Stripped(Frames) = ProtocolFrames(stream, sent)
    BY DEF AsleepWithAll
  <2>1. sent = rcvd
    BY LenProperties DEF TypeOK, NoLostEdge, Readable
  <2> QED
    BY <2>1, Zenon DEF QueuedAsReceived
<1> QED
  BY <1>1, <1>2, PTL
=============================================================================
