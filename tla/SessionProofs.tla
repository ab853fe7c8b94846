---------------------------- MODULE SessionProofs ----------------------------
(***************************************************************************)
(* Theorems about one connection, for every stream of the peer, every      *)
(* buffer size and message limit, and every range of bytes.                *)
(***************************************************************************)
EXTENDS Session, SequenceTheorems, TLAPS

-----------------------------------------------------------------------------
(* Sequences and names. *)

(* Cutting a sequence of S anywhere inside it gives a sequence of S. *)
LEMMA CutTyped ==
  ASSUME NEW S, NEW s \in Seq(S), NEW m \in Nat \ {0}, NEW n \in Int, n <= Len(s)
  PROVE  /\ SubSeq(s, m, n) \in Seq(S)
         /\ Len(SubSeq(s, m, n)) = IF m <= n THEN n - m + 1 ELSE 0
         /\ \A i \in 1 .. n - m + 1 : SubSeq(s, m, n)[i] = s[m + i - 1]
<1>1. \A i \in m .. n : s[i] \in S
  BY ElementOfSeq
<1> QED
  BY <1>1, SubSeqProperties

(* What ParseAuthMessage takes from a body that holds a name are bytes.    *)
LEMMA NameTyped ==
  ASSUME NEW b \in Seq(Byte), NamePresent(b)
  PROVE  Name(b) \in Seq(Byte) /\ AfterName(b) \in Seq(Byte)
<1>1. b[1] \in Byte /\ b[2] \in Byte /\ Len(b) \in Nat /\ Len(b) >= 2
  BY ElementOfSeq, LenProperties DEF NamePresent
<1>2. PeekUint16(b) \in Nat
  BY <1>1, WireAssumption DEF PeekUint16, Byte
<1>3. 2 + PeekUint16(b) <= Len(b)
  BY <1>1, <1>2 DEF NamePresent
<1>4. SubSeq(b, 3, 2 + PeekUint16(b)) \in Seq(Byte)
  BY <1>1, <1>2, <1>3, CutTyped
<1>5. SubSeq(b, 3 + PeekUint16(b), Len(b)) \in Seq(Byte)
  BY <1>1, <1>2, <1>3, CutTyped
<1> QED
  BY <1>4, <1>5 DEF Name, AfterName

-----------------------------------------------------------------------------
(* Type correctness. *)

LEMMA TypeInit == Init => TypeOK
<1> SUFFICES ASSUME Init PROVE TypeOK
  OBVIOUS
<1>1. stream \in Seq(Byte) /\ sent \in 0 .. Len(stream) /\ rcvd \in 0 .. sent
  BY SessionAssumption, LenProperties DEF Init
<1>2. /\ request \in Seq(Byte) /\ type_vec \in Seq(Byte) /\ size_vec \in Seq(Byte)
      /\ hostname \in Seq(Byte) /\ username \in Seq(Byte)
      /\ messages \in Seq(Message) /\ handled \in Seq(Message)
      /\ answers \in Seq({Yes, No}) /\ response \in Seq({Yes, No})
  BY EmptySeq DEF Init
<1>3. saved \in Seq([hostname : Seq(Byte), username : Seq(Byte), body : Seq(Byte)])
  BY EmptySeq DEF Init
<1>4. pressure \in Nat /\ start \in Nat
  BY SessionAssumption DEF Init
<1> QED
  BY <1>1, <1>2, <1>3, <1>4 DEF Init, TypeOK, Fins, Places

LEMMA EnvironmentTyped ==
  TypeOK /\ Environment => TypeOK'
<1> SUFFICES ASSUME TypeOK, Environment PROVE TypeOK'
  OBVIOUS
<1>1. ASSUME NEW n \in 1 .. Len(stream), PeerWrite(n) PROVE TypeOK'
  BY <1>1, LenProperties
  DEF TypeOK, PeerWrite, roomVars, serverVars, parseVars, authVars
<1>2. CASE PeerClose
  BY <1>2 DEF TypeOK, PeerClose, roomVars, serverVars, parseVars, authVars, Fins
<1>3. CASE PeerReset
  BY <1>3 DEF TypeOK, PeerReset, roomVars, serverVars, parseVars, authVars, Fins
<1>4. CASE RoomTaken
  <2>1. pressure > 0 /\ pressure' = pressure - 1
    BY <1>4, Zenon DEF RoomTaken
  <2>2. pressure' \in Nat
    BY <2>1 DEF TypeOK
  <2> QED
    BY <1>4, <2>2 DEF TypeOK, RoomTaken, peerVars, serverVars, parseVars, authVars
<1>5. CASE RoomFreed
  BY <1>5 DEF TypeOK, RoomFreed, peerVars, serverVars, parseVars, authVars
<1> QED
  BY <1>1, <1>2, <1>3, <1>4, <1>5 DEF Environment

(* What every action that only moves the place of the server leaves typed. *)
LEMMA EventDoneTyped ==
  ASSUME TypeOK, NEW e, EventDone(e)
  PROVE  pc' \in Places /\ events' \in SUBSET Events
  BY DEF TypeOK, EventDone, Places

LEMMA CloseTyped ==
  TypeOK /\ CloseSession => TypeOK'
  BY DEF TypeOK, CloseSession, peerVars, roomVars, epollVars, parseVars,
         authVars, Places

LEMMA EventsTyped ==
  TypeOK /\ (EpollWait \/ HandleEvent \/ HandleOutEvent) => TypeOK'
<1> SUFFICES ASSUME TypeOK, EpollWait \/ HandleEvent \/ HandleOutEvent
             PROVE  TypeOK'
  OBVIOUS
<1>1. CASE EpollWait
  BY <1>1 DEF TypeOK, EpollWait, Poll, peerVars, roomVars, parseVars,
              authVars, Places
<1>2. CASE HandleEvent
  BY <1>2, CloseTyped DEF TypeOK, HandleEvent, peerVars, roomVars, epollVars,
                          parseVars, authVars, Places
<1>3. CASE HandleOutEvent
  <2>1. CASE TrySendFails /\ CloseSession
    BY <2>1, CloseTyped
  <2>2. CASE /\ TrySendAgain /\ EventDone("out")
             /\ UNCHANGED <<answers, response, epollVars, peerVars, rcvd, roomVars,
                            parseVars, authVars, saved, handled>>
    BY <2>2, EventDoneTyped
    DEF TypeOK, peerVars, roomVars, epollVars, parseVars, authVars
  <2>3. CASE /\ TrySendDone /\ UpdateEpollEvents(FALSE) /\ EventDone("out")
             /\ UNCHANGED <<peerVars, rcvd, roomVars, parseVars, authVars, saved,
                            handled>>
    <3>1. answers' \in Seq({Yes, No}) /\ response' \in Seq({Yes, No})
      BY <2>3, ConcatProperties, EmptySeq DEF TypeOK, TrySendDone
    <3>2. ready' \in BOOLEAN /\ wantOut' \in BOOLEAN
      BY <2>3 DEF TypeOK, UpdateEpollEvents
    <3> QED
      BY <2>3, <3>1, <3>2, EventDoneTyped
      DEF TypeOK, peerVars, roomVars, parseVars, authVars
  <2> QED
    BY <1>3, <2>1, <2>2, <2>3 DEF HandleOutEvent
<1> QED
  BY <1>1, <1>2, <1>3

LEMMA TryRecvTyped ==
  TypeOK /\ TryRecv => TypeOK'
<1> SUFFICES ASSUME TypeOK, TryRecv PROVE TypeOK'
  OBVIOUS
<1>1. CASE RecvBytes
  <2> DEFINE n == Least(BufferSize, sent - rcvd)
  <2>0. request' = request \o SubSeq(stream, rcvd + 1, rcvd + n) /\ rcvd' = rcvd + n
    BY <1>1 DEF RecvBytes
  <2>1. n \in Nat /\ n <= sent - rcvd /\ Len(stream) \in Nat
    BY <1>1, SessionAssumption, LenProperties DEF TypeOK, RecvBytes, Least
  <2> HIDE DEF n
  <2>2. SubSeq(stream, rcvd + 1, rcvd + n) \in Seq(Byte)
    BY <2>1, CutTyped DEF TypeOK
  <2>3. request' \in Seq(Byte)
    BY <2>0, <2>2, ConcatProperties DEF TypeOK
  <2>4. rcvd' \in 0 .. sent'
    <3>1. sent' = sent
      BY <1>1 DEF RecvBytes, peerVars
    <3>2. rcvd \in Nat /\ sent \in Nat
      BY <2>1 DEF TypeOK
    <3> QED
      BY <2>0, <2>1, <3>1, <3>2
  <2> QED
    BY <1>1, <2>3, <2>4
    DEF TypeOK, RecvBytes, peerVars, roomVars, epollVars, authVars
<1>2. CASE RecvAgain
  BY <1>2 DEF TypeOK, RecvAgain, peerVars, roomVars, epollVars, parseVars,
              authVars, Places
<1>3. CASE RecvEnds
  BY <1>3, CloseTyped DEF RecvEnds
<1> QED
  BY <1>1, <1>2, <1>3 DEF TryRecv

LEMMA TakenTyped ==
  ASSUME TypeOK, FromReqToVec, FieldLen \in Nat
  PROVE  /\ Taken \in Seq(Byte) /\ request' \in Seq(Byte)
         /\ Len(Taken) = FieldLen /\ request = Taken \o request'
<1>1. request \in Seq(Byte) /\ Len(request) \in Nat /\ FieldLen <= Len(request)
  BY LenProperties DEF TypeOK, FromReqToVec
<1>2. request' = SubSeq(request, FieldLen + 1, Len(request))
  BY DEF FromReqToVec
<1>3. Taken \in Seq(Byte) /\ Len(Taken) = FieldLen
  <2>1. /\ SubSeq(request, 1, FieldLen) \in Seq(Byte)
        /\ Len(SubSeq(request, 1, FieldLen)) = IF 1 <= FieldLen THEN FieldLen - 1 + 1 ELSE 0
    BY <1>1, CutTyped
  <2> QED
    BY <2>1 DEF Taken
<1>4. request' \in Seq(Byte)
  BY <1>1, <1>2, CutTyped
<1>5. SubSeq(request, 1, FieldLen) \o SubSeq(request, FieldLen + 1, Len(request))
        = SubSeq(request, 1, Len(request))
  <2>1. /\ 1 \in 1 .. Len(request) + 1
        /\ FieldLen \in 1 - 1 .. Len(request)
        /\ Len(request) \in FieldLen .. Len(request)
    BY <1>1
  <2> QED
    BY <1>1, <2>1, ConcatAdjacentSubSeq
<1>6. request = Taken \o request'
  BY <1>1, <1>2, <1>5, SubSeqFull DEF Taken
<1> QED
  BY <1>3, <1>4, <1>6

LEMMA ParseTyped ==
  TypeOK /\ ParseMessage => TypeOK'
<1> SUFFICES ASSUME TypeOK, ParseMessage PROVE TypeOK'
  OBVIOUS
<1> USE DEF peerVars, roomVars, epollVars, authVars
<1>0. UNCHANGED <<peerVars, rcvd, roomVars, answers, epollVars, response,
                  authVars, saved, events, handled>>
  BY DEF ParseMessage
<1>1. CASE ParseType
  <2>1. FieldLen = 1
    BY <1>1 DEF ParseType, FieldLen
  <2>2. Taken \in Seq(Byte) /\ request' \in Seq(Byte)
    BY <1>1, <2>1, TakenTyped DEF ParseType
  <2> QED
    BY <1>0, <1>1, <2>2 DEF TypeOK, ParseType
<1>2. CASE ParseSize
  <2>1. FieldLen = 4
    BY <1>2 DEF ParseSize, FieldLen
  <2>2. Taken \in Seq(Byte) /\ request' \in Seq(Byte)
    BY <1>2, <2>1, TakenTyped DEF ParseSize
  <2> QED
    BY <1>0, <1>2, <2>2 DEF TypeOK, ParseSize
<1>3. CASE ParseBody
  <2>1. FieldLen = MsgLen /\ MsgLen \in Nat
    BY <1>3, SessionAssumption DEF ParseBody, HeaderRead, FieldLen
  <2>2. Taken \in Seq(Byte) /\ request' \in Seq(Byte)
    BY <1>3, <2>1, TakenTyped DEF ParseBody
  <2>3. type_vec[1] \in Byte /\ start \in Nat
    BY <1>3, EmptySeq, ElementOfSeq DEF TypeOK, ParseBody, HeaderRead
  <2>4. messages' \in Seq(Message)
    <3>1. [at |-> start, type |-> type_vec[1], body |-> Taken] \in Message
      BY <2>2, <2>3 DEF Message
    <3> QED
      BY <1>3, <3>1, AppendProperties DEF TypeOK, ParseBody
  <2>5. start' \in Nat /\ type_vec' \in Seq(Byte) /\ size_vec' \in Seq(Byte)
    BY <1>3, <2>1, <2>3, EmptySeq DEF ParseBody
  <2> QED
    BY <1>0, <1>3, <2>2, <2>4, <2>5 DEF TypeOK, ParseBody
<1>4. CASE ParseTooLarge
  <2>1. start' \in Nat /\ type_vec' \in Seq(Byte) /\ size_vec' \in Seq(Byte)
    BY <1>4, EmptySeq DEF TypeOK, ParseTooLarge
  <2> QED
    BY <1>0, <1>4, <2>1 DEF TypeOK, ParseTooLarge, Places
<1>5. CASE ParseShort
  BY <1>0, <1>5 DEF TypeOK, ParseShort, parseVars, Places
<1>6. CASE ParseEmpty
  BY <1>0, <1>6 DEF TypeOK, ParseEmpty, parseVars
<1> QED
  BY <1>1, <1>2, <1>3, <1>4, <1>5, <1>6 DEF ParseMessage

LEMMA PopTyped ==
  ASSUME TypeOK, messages # <<>>, PopMessage
  PROVE  /\ msg \in Message /\ messages' \in Seq(Message) /\ handled' \in Seq(Message)
         /\ request' \in Seq(Byte) /\ type_vec' \in Seq(Byte) /\ size_vec' \in Seq(Byte)
         /\ start' \in Nat
<1>1. msg \in Message /\ Tail(messages) \in Seq(Message)
  BY HeadTailProperties DEF TypeOK, msg
<1>2. handled' \in Seq(Message)
  BY <1>1, AppendProperties DEF TypeOK, PopMessage
<1> QED
  BY <1>1, <1>2 DEF TypeOK, PopMessage

LEMMA DispatchTyped ==
  TypeOK /\ Dispatch => TypeOK'
<1> SUFFICES ASSUME TypeOK, Dispatch PROVE TypeOK'
  OBVIOUS
<1> USE DEF peerVars, roomVars, epollVars
<1>1. CASE HandleAuth
  <2>1. messages # <<>> /\ PopMessage
    BY <1>1 DEF HandleAuth
  <2>2. msg.body \in Seq(Byte)
    BY <2>1, PopTyped DEF Message
  <2>3. hostname' \in Seq(Byte)
    BY <1>1, <2>2, NameTyped DEF TypeOK, HandleAuth, HostnameStored
  <2>4. username' \in Seq(Byte)
    <3>1. CASE UsernameStored(msg.body)
      <4>1. AfterName(msg.body) \in Seq(Byte)
        BY <2>2, <3>1, NameTyped DEF UsernameStored
      <4>2. Name(AfterName(msg.body)) \in Seq(Byte)
        BY <4>1, <3>1, NameTyped DEF UsernameStored
      <4> QED
        BY <1>1, <3>1, <4>2 DEF HandleAuth
    <3>2. CASE ~UsernameStored(msg.body)
      BY <1>1, <3>2 DEF HandleAuth, TypeOK
    <3> QED
      BY <3>1, <3>2
  <2>5. verdict' \in {Yes, No}
    BY <1>1 DEF HandleAuth
  <2>6. response' \in Seq({Yes, No})
    <3>1. CASE response = <<>>
      BY <1>1, <2>5, <3>1 DEF HandleAuth
    <3>2. CASE response # <<>>
      <4>1. response \in Seq({Yes, No}) /\ 1 \in 1 .. Len(response)
        BY <3>2, EmptySeq DEF TypeOK
      <4>2. response' = [response EXCEPT ![1] = verdict']
        BY <1>1, <3>2 DEF HandleAuth
      <4> QED
        BY <2>5, <4>1, <4>2, ExceptSeq
    <3> QED
      BY <3>1, <3>2
  <2> QED
    BY <1>1, <2>1, <2>3, <2>4, <2>5, <2>6, PopTyped DEF TypeOK, HandleAuth, Places
<1>2. ASSUME NEW ok \in BOOLEAN, HandleImgMessage(ok) PROVE TypeOK'
  <2>1. messages # <<>> /\ PopMessage /\ EventDone("in")
    BY <1>2 DEF HandleImgMessage
  <2>2. saved' \in Seq([hostname : Seq(Byte), username : Seq(Byte), body : Seq(Byte)])
    <3>1. [hostname |-> hostname, username |-> username, body |-> msg.body]
            \in [hostname : Seq(Byte), username : Seq(Byte), body : Seq(Byte)]
      BY <2>1, PopTyped DEF TypeOK, Message
    <3> QED
      BY <1>2, <3>1, AppendProperties DEF TypeOK, HandleImgMessage
  <2> QED
    BY <1>2, <2>1, <2>2, PopTyped, EventDoneTyped
    DEF TypeOK, HandleImgMessage, authVars
<1>3. CASE HandleNothing
  BY <1>3, EventDoneTyped DEF TypeOK, HandleNothing, parseVars, authVars
<1> QED
  BY <1>1, <1>2, <1>3 DEF Dispatch

LEMMA AnswerTyped ==
  TypeOK /\ SendAuthResponse => TypeOK'
<1> SUFFICES ASSUME TypeOK, SendAuthResponse PROVE TypeOK'
  OBVIOUS
<1> USE DEF peerVars, roomVars, parseVars, authVars
<1>1. CASE TrySendFails /\ CloseSession
  BY <1>1, CloseTyped
<1>2. CASE /\ TrySendAgain /\ UpdateEpollEvents(TRUE) /\ EventDone("in")
           /\ UNCHANGED <<answers, response, peerVars, rcvd, roomVars, parseVars,
                          authVars, saved, handled>>
  <2>1. ready' \in BOOLEAN /\ wantOut' \in BOOLEAN
    BY <1>2 DEF TypeOK, UpdateEpollEvents
  <2> QED
    BY <1>2, <2>1, EventDoneTyped DEF TypeOK
<1>3. CASE /\ TrySendDone /\ EventDone("in")
           /\ UNCHANGED <<epollVars, peerVars, rcvd, roomVars, parseVars, authVars,
                          saved, handled>>
  <2>1. answers' \in Seq({Yes, No}) /\ response' \in Seq({Yes, No})
    BY <1>3, ConcatProperties, EmptySeq DEF TypeOK, TrySendDone
  <2> QED
    BY <1>3, <2>1, EventDoneTyped DEF TypeOK, epollVars
<1> QED
  BY <1>1, <1>2, <1>3 DEF SendAuthResponse

LEMMA TypeNext == TypeOK /\ [Next]_vars => TypeOK'
<1> SUFFICES ASSUME TypeOK, [Next]_vars PROVE TypeOK'
  OBVIOUS
<1>1. CASE Environment
  BY <1>1, EnvironmentTyped
<1>2. CASE Server
  BY <1>2, EventsTyped, TryRecvTyped, ParseTyped, DispatchTyped, AnswerTyped
  DEF Server
<1>3. CASE UNCHANGED vars
  BY <1>3 DEF TypeOK, vars, peerVars, roomVars, epollVars, parseVars, authVars
<1> QED
  BY <1>1, <1>2, <1>3 DEF Next

(* Every variable keeps its type, whatever the peer writes: in particular  *)
(* no cut of _request or of a body reaches past its end (session.cc).      *)
THEOREM TypeCorrect == Spec => []TypeOK
  BY TypeInit, TypeNext, PTL DEF Spec

-----------------------------------------------------------------------------
(* No byte is lost between the socket and the parser. *)

(* p and q, one after the other, are bytes m to b of s; and so p is the    *)
(* first of these bytes and q the others.                                  *)
Spans(s, p, q, m, b) ==
  /\ s \in Seq(Byte) /\ p \in Seq(Byte) /\ q \in Seq(Byte)
  /\ m \in Nat \ {0} /\ b \in Nat /\ m <= b + 1 /\ b <= Len(s)
  /\ p \o q = SubSeq(s, m, b)

SplitAt(s, p, q, m, b, k) ==
  /\ k = m + Len(p) /\ k <= b + 1
  /\ p = SubSeq(s, m, k - 1)
  /\ q = SubSeq(s, k, b)

LEMMA SpanSplits ==
  ASSUME NEW s, NEW p, NEW q, NEW m, NEW b, Spans(s, p, q, m, b)
  PROVE  SplitAt(s, p, q, m, b, m + Len(p))
<1>0. /\ s \in Seq(Byte) /\ p \in Seq(Byte) /\ q \in Seq(Byte)
      /\ m \in Nat \ {0} /\ b \in Nat /\ m <= b + 1 /\ b <= Len(s)
  BY DEF Spans
<1>1. Len(p) \in Nat /\ Len(q) \in Nat /\ Len(s) \in Nat
  BY <1>0, LenProperties
<1>2. /\ Len(p \o q) = Len(p) + Len(q)
      /\ \A i \in 1 .. Len(p) + Len(q) :
           (p \o q)[i] = IF i <= Len(p) THEN p[i] ELSE q[i - Len(p)]
  BY <1>0, ConcatProperties
<1>3. /\ Len(SubSeq(s, m, b)) = IF m <= b THEN b - m + 1 ELSE 0
      /\ \A i \in 1 .. b - m + 1 : SubSeq(s, m, b)[i] = s[m + i - 1]
  BY <1>0, <1>1, CutTyped
<1>4. Len(p) + Len(q) = b - m + 1
  BY <1>0, <1>1, <1>2, <1>3 DEF Spans
<1>5. p = SubSeq(s, m, m + Len(p) - 1)
  <2>1. PICK k \in Int : k = m + Len(p) - 1
    <3>1. m + Len(p) - 1 \in Int
      BY <1>0, <1>1
    <3> QED
      BY <3>1
  <2>2. /\ SubSeq(s, m, k) \in Seq(Byte)
        /\ Len(SubSeq(s, m, k)) = IF m <= k THEN k - m + 1 ELSE 0
        /\ \A i \in 1 .. k - m + 1 : SubSeq(s, m, k)[i] = s[m + i - 1]
    <3>1. k <= Len(s) /\ m <= k + 1
      BY <1>0, <1>1, <1>4, <2>1
    <3> QED
      BY <1>0, <3>1, CutTyped
  <2>3. Len(SubSeq(s, m, k)) = Len(p)
    BY <1>0, <1>1, <2>1, <2>2
  <2>4. \A i \in 1 .. Len(p) : p[i] = SubSeq(s, m, k)[i]
    <3>1. TAKE i \in 1 .. Len(p)
    <3>2. i \in 1 .. Len(p) + Len(q) /\ i \in 1 .. b - m + 1 /\ i \in 1 .. k - m + 1
      BY <1>0, <1>1, <1>4, <2>1
    <3>3. p[i] = (p \o q)[i]
      BY <1>2, <3>1, <3>2
    <3>4. (p \o q)[i] = s[m + i - 1]
      BY <1>3, <3>2 DEF Spans
    <3>5. SubSeq(s, m, k)[i] = s[m + i - 1]
      BY <2>2, <3>2
    <3> QED
      BY <3>3, <3>4, <3>5
  <2> QED
    BY <1>0, <2>1, <2>2, <2>3, <2>4, SeqEqual
<1>6. q = SubSeq(s, m + Len(p), b)
  <2>1. PICK k \in Nat \ {0} : k = m + Len(p)
    BY <1>0, <1>1
  <2>2. /\ SubSeq(s, k, b) \in Seq(Byte)
        /\ Len(SubSeq(s, k, b)) = IF k <= b THEN b - k + 1 ELSE 0
        /\ \A i \in 1 .. b - k + 1 : SubSeq(s, k, b)[i] = s[k + i - 1]
    <3>1. k <= b + 1 /\ b <= Len(s)
      BY <1>0, <1>1, <1>4, <2>1
    <3> QED
      BY <1>0, <3>1, CutTyped
  <2>3. Len(SubSeq(s, k, b)) = Len(q)
    BY <1>0, <1>1, <1>4, <2>1, <2>2
  <2>4. \A i \in 1 .. Len(q) : q[i] = SubSeq(s, k, b)[i]
    <3>1. TAKE i \in 1 .. Len(q)
    <3>2. (p \o q)[Len(p) + i] = q[i]
      <4>1. Len(p) + i \in 1 .. Len(p) + Len(q) /\ ~(Len(p) + i <= Len(p))
              /\ Len(p) + i - Len(p) = i
        BY <1>1
      <4> QED
        BY <1>2, <4>1
    <3>3. (p \o q)[Len(p) + i] = s[m + (Len(p) + i) - 1]
      <4>1. Len(p) + i \in 1 .. b - m + 1
        BY <1>0, <1>1, <1>4
      <4> QED
        BY <1>3, <4>1 DEF Spans
    <3>4. SubSeq(s, k, b)[i] = s[k + i - 1]
      <4>1. i \in 1 .. b - k + 1
        BY <1>0, <1>1, <1>4, <2>1
      <4> QED
        BY <2>2, <4>1
    <3>5. k + i - 1 = m + (Len(p) + i) - 1
      BY <1>0, <1>1, <2>1
    <3> QED
      BY <3>2, <3>3, <3>4, <3>5, Zenon
  <2> QED
    BY <1>0, <2>1, <2>2, <2>3, <2>4, SeqEqual
<1>7. m + Len(p) <= b + 1
  BY <1>0, <1>1, <1>4
<1> QED
  BY <1>5, <1>6, <1>7 DEF SplitAt, Spans

(* Where the parser stands in the stream: the header it holds is empty or  *)
(* whole, and StreamIntact.                                                *)
ParserShape ==
  /\ Len(type_vec) \in {0, 1} /\ Len(size_vec) \in {0, 4}
  /\ size_vec # <<>> => type_vec # <<>>
  /\ start <= rcvd
  /\ StreamIntact

LEMMA ShapeInit == Init => ParserShape
<1> SUFFICES ASSUME Init PROVE ParserShape
  OBVIOUS
<1>1. SubSeq(stream, start + 1, rcvd) = <<>>
  BY SubSeqEmpty DEF Init
<1>2. type_vec \o size_vec \o request = <<>>
  BY ConcatEmptySeq, EmptySeq DEF Init
<1> QED
  BY <1>1, <1>2, EmptySeq DEF Init, ParserShape, StreamIntact

(* Most steps touch neither the stream nor the parser. *)
LEMMA ShapeKept ==
  ASSUME ParserShape,
         UNCHANGED <<stream, rcvd, type_vec, size_vec, request, start>>
  PROVE  ParserShape'
  BY DEF ParserShape, StreamIntact

LEMMA SizeTyped ==
  ASSUME TypeOK, Len(size_vec) = 4
  PROVE  MsgLen \in Nat
<1>1. \A i \in 1 .. 4 : size_vec[i] \in Nat
  <2>1. size_vec \in Seq(Byte)
    BY DEF TypeOK
  <2>2. \A i \in 1 .. 4 : size_vec[i] \in Byte
    BY <2>1, ElementOfSeq
  <2> QED
    BY <2>2, WireAssumption DEF Byte
<1>2. Base \in Nat
  BY WireAssumption
<1>3. \A a, b \in Nat : a * Base + b \in Nat
  BY <1>2
<1>4. size_vec[1] \in Nat /\ size_vec[2] \in Nat /\ size_vec[3] \in Nat /\ size_vec[4] \in Nat
  BY <1>1
<1>5. size_vec[1] * Base + size_vec[2] \in Nat
  BY <1>3, <1>4
<1>6. (size_vec[1] * Base + size_vec[2]) * Base + size_vec[3] \in Nat
  BY <1>3, <1>4, <1>5
<1>7. ((size_vec[1] * Base + size_vec[2]) * Base + size_vec[3]) * Base + size_vec[4] \in Nat
  BY <1>3, <1>4, <1>6
<1> QED
  BY <1>7 DEF MsgLen, PeekUint32

LEMMA ParserTyped ==
  ASSUME TypeOK
  PROVE  /\ stream \in Seq(Byte) /\ type_vec \in Seq(Byte) /\ size_vec \in Seq(Byte)
         /\ request \in Seq(Byte)
         /\ type_vec \o size_vec \in Seq(Byte)
         /\ Len(type_vec \o size_vec) = Len(type_vec) + Len(size_vec)
<1>1. /\ stream \in Seq(Byte) /\ type_vec \in Seq(Byte) /\ size_vec \in Seq(Byte)
      /\ request \in Seq(Byte)
  BY DEF TypeOK
<1> QED
  BY <1>1, ConcatProperties

LEMMA RecvShape ==
  TypeOK /\ ParserShape /\ TryRecv => ParserShape'
<1> SUFFICES ASSUME TypeOK, ParserShape, TryRecv PROVE ParserShape'
  OBVIOUS
<1>1. CASE RecvBytes
  <2> DEFINE n == Least(BufferSize, sent - rcvd)
  <2>1. /\ request' = request \o SubSeq(stream, rcvd + 1, rcvd + n) /\ rcvd' = rcvd + n
        /\ UNCHANGED <<stream, type_vec, size_vec, start>>
    BY <1>1 DEF RecvBytes, peerVars
  <2>2. n \in Nat /\ rcvd + n <= Len(stream) /\ Len(stream) \in Nat /\ rcvd \in Nat
    BY <1>1, SessionAssumption, LenProperties DEF TypeOK, RecvBytes, Least
  <2> HIDE DEF n
  <2>3. PICK chunk \in Seq(Byte) : chunk = SubSeq(stream, rcvd + 1, rcvd + n)
    <3>1. SubSeq(stream, rcvd + 1, rcvd + n) \in Seq(Byte)
      BY <2>2, CutTyped, ParserTyped
    <3> QED
      BY <3>1
  <2>4. start \in Nat /\ start <= rcvd
    BY DEF TypeOK, ParserShape
  <2>5. SubSeq(stream, start + 1, rcvd) \o chunk = SubSeq(stream, start + 1, rcvd + n)
    <3>1. PICK m, k \in Int : m = start + 1 /\ k = rcvd + n
      BY <2>2, <2>4
    <3>2. m \in 1 .. Len(stream) + 1 /\ rcvd \in m - 1 .. Len(stream) /\ k \in rcvd .. Len(stream)
      BY <2>2, <2>4, <3>1
    <3>3. SubSeq(stream, m, rcvd) \o SubSeq(stream, rcvd + 1, k) = SubSeq(stream, m, k)
      BY <3>2, ParserTyped, ConcatAdjacentSubSeq
    <3> QED
      BY <2>3, <3>1, <3>3
  <2>6. (type_vec \o size_vec \o request) \o chunk = type_vec \o size_vec \o (request \o chunk)
    <3>1. PICK h \in Seq(Byte) : h = type_vec \o size_vec
      BY ParserTyped
    <3>2. PICK r \in Seq(Byte) : r = request
      BY ParserTyped
    <3>3. (h \o r) \o chunk = h \o (r \o chunk)
      BY ConcatAssociative
    <3> QED
      BY <3>1, <3>2, <3>3, Zenon
  <2>7. StreamIntact'
    BY <2>1, <2>3, <2>5, <2>6 DEF ParserShape, StreamIntact
  <2> QED
    BY <2>1, <2>2, <2>4, <2>7 DEF ParserShape
<1>2. CASE RecvAgain
  BY <1>2, ShapeKept DEF RecvAgain, peerVars, parseVars
<1>3. CASE RecvEnds
  BY <1>3, ShapeKept DEF RecvEnds, CloseSession, peerVars, parseVars
<1> QED
  BY <1>1, <1>2, <1>3 DEF TryRecv

(* A header that is complete is the five bytes after start, and the buffer *)
(* is what follows it.                                                     *)
LEMMA HeaderInStream ==
  ASSUME TypeOK, ParserShape, HeaderRead
  PROVE  /\ Len(type_vec) = 1 /\ Len(size_vec) = 4 /\ MsgLen \in Nat
         /\ start + 5 <= rcvd /\ rcvd <= Len(stream) /\ rcvd \in Nat
         /\ type_vec = SubSeq(stream, start + 1, start + 1)
         /\ size_vec = SubSeq(stream, start + 2, start + 5)
         /\ request = SubSeq(stream, start + 6, rcvd)
<1>1. Len(type_vec) = 1 /\ Len(size_vec) = 4
  BY EmptySeq, LenProperties DEF TypeOK, ParserShape, HeaderRead
<1>2. rcvd \in Nat /\ rcvd <= Len(stream) /\ start \in Nat /\ start <= rcvd
  BY LenProperties DEF TypeOK, ParserShape
<1>3. PICK header \in Seq(Byte) : header = type_vec \o size_vec /\ Len(header) = 5
  <2>1. type_vec \o size_vec \in Seq(Byte) /\ Len(type_vec \o size_vec) = 5
    BY <1>1, ParserTyped
  <2> QED
    BY <2>1
<1>4. PICK m \in Nat \ {0} : m = start + 1
  BY <1>2
<1>5. stream \in Seq(Byte) /\ request \in Seq(Byte) /\ type_vec \in Seq(Byte)
        /\ size_vec \in Seq(Byte) /\ m <= rcvd + 1
  BY <1>2, <1>4, ParserTyped
<1>6. SplitAt(stream, header, request, m, rcvd, m + 5)
  <2>1. header \o request = SubSeq(stream, m, rcvd)
    BY <1>3, <1>4 DEF ParserShape, StreamIntact
  <2>2. Spans(stream, header, request, m, rcvd)
    BY <1>2, <1>3, <1>5, <2>1 DEF Spans
  <2> QED
    BY <1>3, <2>2, SpanSplits, Zenon
<1>7. SplitAt(stream, type_vec, size_vec, m, m + 5 - 1, m + 1)
  <2>1. type_vec \o size_vec = SubSeq(stream, m, m + 5 - 1)
    BY <1>3, <1>6 DEF SplitAt
  <2>2. m + 5 - 1 \in Nat /\ m <= m + 5 - 1 + 1 /\ m + 5 - 1 <= Len(stream)
    BY <1>2, <1>5, <1>6, LenProperties DEF SplitAt
  <2>3. Spans(stream, type_vec, size_vec, m, m + 5 - 1)
    BY <1>5, <2>1, <2>2 DEF Spans
  <2> QED
    BY <1>1, <2>3, SpanSplits, Zenon
<1>9. /\ m + 5 - 1 = start + 5 /\ m + 5 = start + 6
      /\ m + 1 - 1 = start + 1 /\ m + 1 = start + 2
  BY <1>2, <1>4
<1> QED
  <2>1. start + 5 <= rcvd /\ MsgLen \in Nat
    BY <1>1, <1>2, <1>6, <1>9, SizeTyped DEF SplitAt
  <2> QED
    BY <1>1, <1>2, <1>4, <1>6, <1>7, <1>9, <2>1 DEF SplitAt

LEMMA EmptyHeader ==
  ASSUME NEW r \in Seq(Byte)
  PROVE  <<>> \o <<>> \o r = r
<1>1. <<>> \in Seq(Byte)
  BY EmptySeq
<1>2. <<>> \o <<>> = <<>>
  BY <1>1, ConcatEmptySeq
<1> QED
  BY <1>2, ConcatEmptySeq

(* The body that ParseBody takes, and what it leaves.                      *)
LEMMA BodyInStream ==
  ASSUME TypeOK, ParserShape, ParseBody
  PROVE  SplitAt(stream, Taken, request', start + 6, rcvd, start + 6 + MsgLen)
<1>1. HeaderRead /\ FromReqToVec /\ FieldLen = MsgLen
  BY DEF ParseBody, HeaderRead, FieldLen
<1>2. /\ MsgLen \in Nat /\ start + 5 <= rcvd /\ rcvd <= Len(stream) /\ rcvd \in Nat
      /\ request = SubSeq(stream, start + 6, rcvd)
  BY <1>1, HeaderInStream
<1>3. /\ Taken \in Seq(Byte) /\ request' \in Seq(Byte)
      /\ Len(Taken) = MsgLen /\ request = Taken \o request'
  BY <1>1, <1>2, TakenTyped
<1>4. start \in Nat /\ stream \in Seq(Byte)
  BY DEF TypeOK
<1>5. start + 6 \in Nat \ {0} /\ start + 6 <= rcvd + 1
  BY <1>2, <1>4
<1>6. Taken \o request' = SubSeq(stream, start + 6, rcvd)
  BY <1>2, <1>3
<1>7. Spans(stream, Taken, request', start + 6, rcvd)
  BY <1>2, <1>3, <1>4, <1>5, <1>6, Zenon DEF Spans
<1> QED
  BY <1>3, <1>7, SpanSplits, Zenon

LEMMA ParseShape ==
  TypeOK /\ ParserShape /\ ParseMessage => ParserShape'
<1> SUFFICES ASSUME TypeOK, ParserShape, ParseMessage PROVE ParserShape'
  OBVIOUS
<1>0. /\ stream' = stream /\ rcvd' = rcvd
      /\ request \in Seq(Byte) /\ type_vec \in Seq(Byte) /\ start \in Nat
      /\ start <= rcvd /\ rcvd \in Nat
  BY DEF TypeOK, ParseMessage, peerVars, ParserShape
<1>1. CASE ParseType
  <2>1. FieldLen = 1 /\ type_vec = <<>> /\ size_vec = <<>> /\ FromReqToVec
    BY <1>1, EmptySeq, LenProperties DEF TypeOK, ParseType, FieldLen, ParserShape
  <2>2. /\ Taken \in Seq(Byte) /\ request' \in Seq(Byte) /\ Len(Taken) = 1
        /\ request = Taken \o request'
    BY <2>1, TakenTyped
  <2>3. type_vec' = Taken /\ size_vec' = <<>> /\ start' = start
    BY <1>1, <2>1 DEF ParseType
  <2>4. type_vec' \o size_vec' \o request' = request
    BY <2>2, <2>3, ConcatEmptySeq
  <2>5. type_vec \o size_vec \o request = request
    BY <1>0, <2>1, EmptyHeader
  <2>6. StreamIntact'
    BY <1>0, <2>3, <2>4, <2>5 DEF ParserShape, StreamIntact
  <2>7. Len(type_vec') = 1 /\ Len(size_vec') = 0
    BY <2>2, <2>3
  <2> QED
    BY <1>0, <2>3, <2>6, <2>7 DEF ParserShape
<1>2. CASE ParseSize
  <2>1. FieldLen = 4 /\ type_vec # <<>> /\ size_vec = <<>> /\ FromReqToVec
    BY <1>2 DEF ParseSize, FieldLen
  <2>2. /\ Taken \in Seq(Byte) /\ request' \in Seq(Byte) /\ Len(Taken) = 4
        /\ request = Taken \o request'
    BY <2>1, TakenTyped
  <2>3. size_vec' = Taken /\ type_vec' = type_vec /\ start' = start
    BY <1>2 DEF ParseSize
  <2>4. type_vec' \o size_vec' \o request' = type_vec \o request
    <3>1. (type_vec \o Taken) \o request' = type_vec \o (Taken \o request')
      BY <1>0, <2>2, ConcatAssociative
    <3> QED
      BY <2>2, <2>3, <3>1
  <2>5. type_vec \o size_vec \o request = type_vec \o request
    BY <1>0, <2>1, ConcatEmptySeq
  <2>6. StreamIntact'
    BY <1>0, <2>3, <2>4, <2>5 DEF ParserShape, StreamIntact
  <2>7. Len(type_vec') \in {0, 1} /\ Len(size_vec') = 4 /\ type_vec' # <<>>
    BY <2>1, <2>2, <2>3 DEF ParserShape
  <2> QED
    BY <1>0, <2>3, <2>6, <2>7 DEF ParserShape
<1>3. CASE ParseBody
  <2>1. HeaderRead /\ FromReqToVec /\ FieldLen = MsgLen
    BY <1>3 DEF ParseBody, HeaderRead, FieldLen
  <2>2. MsgLen \in Nat
    BY <2>1, HeaderInStream
  <2>3. request' \in Seq(Byte)
    BY <2>1, <2>2, TakenTyped
  <2>4. type_vec' = <<>> /\ size_vec' = <<>> /\ start' = start + 5 + MsgLen
    BY <1>3 DEF ParseBody
  <2>5. start' + 1 = start + 6 + MsgLen
    BY <1>0, <2>2, <2>4
  <2>6. request' = SubSeq(stream, start' + 1, rcvd) /\ start' + 1 <= rcvd + 1
    BY <1>3, <2>5, BodyInStream DEF SplitAt
  <2>7. StreamIntact'
    BY <1>0, <2>3, <2>4, <2>6, EmptyHeader DEF StreamIntact
  <2> QED
    BY <1>0, <2>2, <2>4, <2>6, <2>7 DEF ParserShape
<1>4. CASE ParseTooLarge
  <2>1. /\ request = SubSeq(stream, start + 6, rcvd) /\ start + 5 <= rcvd
    BY <1>4, HeaderInStream DEF ParseTooLarge
  <2>2. /\ type_vec' = <<>> /\ size_vec' = <<>> /\ start' = start + 5
        /\ request' = request
    BY <1>4 DEF ParseTooLarge
  <2>3. start' + 1 = start + 6
    BY <1>0, <2>2
  <2>4. StreamIntact'
    BY <1>0, <2>1, <2>2, <2>3, EmptyHeader DEF StreamIntact
  <2> QED
    BY <1>0, <2>1, <2>2, <2>4 DEF ParserShape
<1>5. CASE ParseShort
  BY <1>0, <1>5, ShapeKept DEF ParseShort, parseVars
<1>6. CASE ParseEmpty
  BY <1>0, <1>6, ShapeKept DEF ParseEmpty, parseVars
<1> QED
  BY <1>1, <1>2, <1>3, <1>4, <1>5, <1>6 DEF ParseMessage

LEMMA ShapeNext == TypeOK /\ ParserShape /\ [Next]_vars => ParserShape'
<1> SUFFICES ASSUME TypeOK, ParserShape, [Next]_vars PROVE ParserShape'
  OBVIOUS
<1> USE DEF peerVars, parseVars
<1>1. CASE Environment
  BY <1>1, ShapeKept
  DEF Environment, PeerWrite, PeerClose, PeerReset, RoomTaken, RoomFreed,
      serverVars
<1>2. CASE EpollWait \/ HandleEvent \/ HandleOutEvent
  BY <1>2, ShapeKept DEF EpollWait, HandleEvent, HandleOutEvent, CloseSession
<1>3. CASE TryRecv
  BY <1>3, RecvShape
<1>4. CASE ParseMessage
  BY <1>4, ParseShape
<1>5. CASE Dispatch
  BY <1>5, ShapeKept
  DEF Dispatch, HandleAuth, HandleImgMessage, HandleNothing, PopMessage
<1>6. CASE SendAuthResponse
  BY <1>6, ShapeKept DEF SendAuthResponse, CloseSession
<1>7. CASE UNCHANGED vars
  BY <1>7, ShapeKept DEF vars
<1> QED
  BY <1>1, <1>2, <1>3, <1>4, <1>5, <1>6, <1>7 DEF Next, Server

(* The bytes the parser still holds are, in order, those of the stream     *)
(* after the last completed message, however recv() cut the stream         *)
(* (session.cc:110-190).                                                   *)
THEOREM NoByteLost == Spec => []StreamIntact
<1>1. TypeOK /\ ParserShape /\ [Next]_vars => (TypeOK /\ ParserShape)'
  BY TypeNext, ShapeNext
<1>2. Spec => [](TypeOK /\ ParserShape)
  BY <1>1, TypeInit, ShapeInit, PTL DEF Spec
<1>3. TypeOK /\ ParserShape => StreamIntact
  BY DEF ParserShape
<1> QED
  BY <1>2, <1>3, PTL

-----------------------------------------------------------------------------
(* Messages are cut out of the stream where their headers say. *)

LEMMA FramesKept ==
  ASSUME FramesExact, UNCHANGED <<stream, messages, handled, start>>
  PROVE  FramesExact'
  BY DEF FramesExact, Frames, FrameExact, FrameEnd

LEMMA FramesInit == Init => FramesExact
<1> SUFFICES ASSUME Init PROVE FramesExact
  OBVIOUS
<1>1. Frames = <<>>
  BY EmptySeq, ConcatEmptySeq DEF Init, Frames
<1>2. \A i \in DOMAIN Frames : FALSE
  BY <1>1
<1> QED
  BY <1>2 DEF FramesExact

(* Moving a message from the queue to the handled ones keeps the list.     *)
LEMMA PopFrames ==
  ASSUME TypeOK, messages # <<>>, PopMessage
  PROVE  Frames' = Frames
<1>1. /\ messages \in Seq(Message) /\ handled \in Seq(Message)
      /\ Head(messages) \in Message /\ Tail(messages) \in Seq(Message)
      /\ <<Head(messages)>> \in Seq(Message)
  BY HeadTailProperties DEF TypeOK
<1>2. handled' = handled \o <<Head(messages)>> /\ messages' = Tail(messages)
  BY <1>1, AppendIsConcat DEF PopMessage, msg
<1>3. messages = <<Head(messages)>> \o Tail(messages)
  BY <1>1
<1>4. (handled \o <<Head(messages)>>) \o Tail(messages)
        = handled \o (<<Head(messages)>> \o Tail(messages))
  BY <1>1, ConcatAssociative
<1> QED
  BY <1>2, <1>3, <1>4 DEF Frames

LEMMA FramesTyped ==
  ASSUME TypeOK
  PROVE  /\ Frames \in Seq(Message) /\ start \in Nat
         /\ \A i \in DOMAIN Frames : Frames[i].at \in Nat /\ FrameEnd(Frames[i]) \in Nat
<1>1. Frames \in Seq(Message)
  BY ConcatProperties DEF TypeOK, Frames
<1>2. ASSUME NEW i \in DOMAIN Frames
      PROVE  Frames[i].at \in Nat /\ FrameEnd(Frames[i]) \in Nat
  <2>1. Frames[i] \in Message
    BY <1>1, <1>2, ElementOfSeq, LenProperties
  <2>2. Frames[i].at \in Nat /\ Frames[i].body \in Seq(Byte)
    BY <2>1 DEF Message
  <2>3. Len(Frames[i].body) \in Nat
    BY <2>2, LenProperties
  <2> QED
    BY <2>2, <2>3 DEF FrameEnd
<1> QED
  BY <1>1, <1>2 DEF TypeOK

(* The message ParseBody completes.                                        *)
Parsed == [at |-> start, type |-> type_vec[1], body |-> Taken]

LEMMA ParsedExact ==
  ASSUME TypeOK, ParserShape, ParseBody
  PROVE  /\ Parsed \in Message /\ FrameExact(Parsed)
         /\ FrameEnd(Parsed) = start' /\ start <= start' /\ start' \in Nat
<1>1. HeaderRead /\ FromReqToVec /\ FieldLen = MsgLen
  BY DEF ParseBody, HeaderRead, FieldLen
<1>2. /\ Len(type_vec) = 1 /\ MsgLen \in Nat
      /\ start + 5 <= rcvd /\ rcvd <= Len(stream) /\ rcvd \in Nat
      /\ type_vec = SubSeq(stream, start + 1, start + 1)
      /\ size_vec = SubSeq(stream, start + 2, start + 5)
  BY <1>1, HeaderInStream
<1>3. Taken \in Seq(Byte) /\ Len(Taken) = MsgLen
  BY <1>1, <1>2, TakenTyped
<1>4. start \in Nat /\ stream \in Seq(Byte) /\ type_vec \in Seq(Byte)
  BY DEF TypeOK
<1>5. type_vec[1] \in Byte
  BY <1>2, <1>4, ElementOfSeq
<1>6. type_vec[1] = stream[start + 1]
  <2>1. PICK p \in Nat \ {0} : p = start + 1
    BY <1>4
  <2>2. \A i \in 1 .. p - p + 1 : SubSeq(stream, p, p)[i] = stream[p + i - 1]
    BY <1>2, <1>4, <2>1, CutTyped, LenProperties
  <2>3. SubSeq(stream, p, p)[1] = stream[p]
    BY <2>2
  <2> QED
    BY <1>2, <2>1, <2>3
<1>7. Taken = SubSeq(stream, start + 6, start + 6 + MsgLen - 1)
  <2>1. PICK k \in Nat : k = start + 6 + MsgLen
    BY <1>2, <1>4
  <2>2. SplitAt(stream, Taken, request', start + 6, rcvd, k)
    BY <2>1, BodyInStream
  <2>3. Taken = SubSeq(stream, start + 6, k - 1)
    BY <2>2 DEF SplitAt
  <2>4. k - 1 = start + 6 + MsgLen - 1
    BY <1>2, <1>4, <2>1
  <2> QED
    BY <2>3, <2>4, Zenon
<1>8. start + 6 + MsgLen - 1 = start + 5 + MsgLen
  BY <1>2, <1>4
<1>9. /\ Parsed.at = start /\ Parsed.type = type_vec[1] /\ Parsed.body = Taken
  BY DEF Parsed
<1>10. FrameExact(Parsed)
  <2>1. Parsed.type = stream[Parsed.at + 1]
    BY <1>6, <1>9
  <2>2. Len(Parsed.body) = PeekUint32(SubSeq(stream, Parsed.at + 2, Parsed.at + 5))
    BY <1>2, <1>3, <1>9 DEF MsgLen
  <2>3. Parsed.body = SubSeq(stream, Parsed.at + 6, Parsed.at + 5 + Len(Parsed.body))
    BY <1>3, <1>7, <1>8, <1>9
  <2> QED
    BY <2>1, <2>2, <2>3 DEF FrameExact
<1>11. Parsed \in Message
  BY <1>3, <1>4, <1>5 DEF Parsed, Message
<1>12. start' = start + 5 + MsgLen
  BY DEF ParseBody
<1>13. FrameEnd(Parsed) = start' /\ start <= start' /\ start' \in Nat
  <2>1. FrameEnd(Parsed) = start + 5 + MsgLen
    BY <1>3, <1>9 DEF FrameEnd
  <2> QED
    BY <1>2, <1>4, <1>12, <2>1
<1> QED
  BY <1>10, <1>11, <1>13

LEMMA ParsedAppended ==
  ASSUME TypeOK, ParserShape, ParseBody, UNCHANGED handled
  PROVE  Frames' = Append(Frames, Parsed)
<1>1. messages' = Append(messages, Parsed) /\ Parsed \in Message
  BY ParsedExact DEF ParseBody, Parsed
<1>2. messages \in Seq(Message) /\ handled \in Seq(Message)
  BY DEF TypeOK
<1>3. Frames \in Seq(Message) /\ <<Parsed>> \in Seq(Message)
  BY <1>1, FramesTyped
<1>4. handled \o (messages \o <<Parsed>>) = (handled \o messages) \o <<Parsed>>
  BY <1>2, <1>3, ConcatAssociative
<1>5. messages' = messages \o <<Parsed>>
  BY <1>1, <1>2, AppendIsConcat
<1>6. Append(Frames, Parsed) = Frames \o <<Parsed>>
  BY <1>1, <1>3, AppendIsConcat
<1> QED
  BY <1>4, <1>5, <1>6 DEF Frames

LEMMA ParseFrames ==
  TypeOK /\ ParserShape /\ FramesExact /\ ParseMessage => FramesExact'
<1> SUFFICES ASSUME TypeOK, ParserShape, FramesExact, ParseMessage
             PROVE  FramesExact'
  OBVIOUS
<1>0. stream' = stream /\ handled' = handled
  BY DEF ParseMessage, peerVars
<1>1. CASE ParseBody
  <2>1. messages' = Append(messages, Parsed) /\ Parsed \in Message
    BY <1>1, ParsedExact DEF ParseBody, Parsed
  <2>2. Frames' = Append(Frames, Parsed)
    BY <1>0, <1>1, ParsedAppended
  <2> DEFINE last == Len(Frames) + 1
  <2>3. /\ DOMAIN Frames' = 1 .. last /\ DOMAIN Frames = 1 .. Len(Frames)
        /\ Len(Frames) \in Nat
        /\ Frames'[last] = Parsed
        /\ \A i \in 1 .. Len(Frames) : Frames'[i] = Frames[i]
    BY <2>1, <2>2, FramesTyped, AppendProperties, LenProperties
  <2>4. /\ FrameExact(Parsed) /\ FrameEnd(Parsed) = start' /\ start <= start'
        /\ start' \in Nat /\ start \in Nat /\ Parsed.at = start
    BY <1>1, ParsedExact DEF Parsed, TypeOK
  <2>5. \A m : FrameExact(m)' <=> FrameExact(m)
    BY <1>0 DEF FrameExact
  <2>6. ASSUME NEW i \in 1 .. last
        PROVE  FrameExact(Frames'[i]) /\ FrameEnd(Frames'[i]) <= start'
    <3>1. CASE i = last
      BY <2>3, <2>4, <3>1
    <3>2. CASE i \in 1 .. Len(Frames)
      <4>1. FrameExact(Frames[i]) /\ FrameEnd(Frames[i]) <= start /\ FrameEnd(Frames[i]) \in Nat
        BY <2>3, <3>2, FramesTyped DEF FramesExact
      <4>2. Frames'[i] = Frames[i]
        BY <2>3, <3>2
      <4> QED
        BY <2>4, <4>1, <4>2
    <3> QED
      BY <2>3, <2>6, <3>1, <3>2
  <2>7. ASSUME NEW i \in 1 .. last, NEW j \in 1 .. last, i < j
        PROVE  FrameEnd(Frames'[i]) <= Frames'[j].at
    <3>1. i \in 1 .. Len(Frames)
      BY <2>3, <2>7
    <3>2. CASE j = last
      BY <2>3, <2>4, <3>1, <3>2 DEF FramesExact
    <3>3. CASE j \in 1 .. Len(Frames)
      BY <2>3, <2>7, <3>1, <3>3 DEF FramesExact
    <3> QED
      BY <2>3, <2>7, <3>2, <3>3
  <2> QED
    BY <1>0, <2>3, <2>6, <2>7 DEF FramesExact, FrameExact, FrameEnd
<1>2. CASE ParseTooLarge
  <2>1. Frames' = Frames /\ start' = start + 5
    BY <1>0, <1>2 DEF Frames, ParseTooLarge
  <2> QED
    BY <1>0, <2>1, FramesTyped DEF FramesExact, FrameExact, FrameEnd
<1>3. CASE ParseType \/ ParseSize \/ ParseShort \/ ParseEmpty
  BY <1>0, <1>3, FramesKept DEF ParseType, ParseSize, ParseShort, ParseEmpty, parseVars
<1> QED
  BY <1>1, <1>2, <1>3 DEF ParseMessage

LEMMA FramesNext ==
  TypeOK /\ ParserShape /\ FramesExact /\ [Next]_vars => FramesExact'
<1> SUFFICES ASSUME TypeOK, ParserShape, FramesExact, [Next]_vars
             PROVE  FramesExact'
  OBVIOUS
<1> USE DEF peerVars, parseVars
<1>1. CASE Environment
  BY <1>1, FramesKept
  DEF Environment, PeerWrite, PeerClose, PeerReset, RoomTaken, RoomFreed,
      serverVars
<1>2. CASE EpollWait \/ HandleEvent \/ HandleOutEvent \/ TryRecv
  BY <1>2, FramesKept
  DEF EpollWait, HandleEvent, HandleOutEvent, TryRecv, RecvBytes, RecvAgain,
      RecvEnds, CloseSession
<1>3. CASE ParseMessage
  BY <1>3, ParseFrames
<1>4. CASE Dispatch
  <2>1. ASSUME messages # <<>>, PopMessage, stream' = stream
        PROVE  FramesExact'
    <3>1. Frames' = Frames /\ start' = start
      BY <2>1, PopFrames DEF PopMessage
    <3> QED
      BY <2>1, <3>1 DEF FramesExact, FrameExact, FrameEnd
  <2>2. CASE HandleAuth
    BY <2>1, <2>2 DEF HandleAuth
  <2>3. ASSUME NEW ok \in BOOLEAN, HandleImgMessage(ok) PROVE FramesExact'
    BY <2>1, <2>3 DEF HandleImgMessage
  <2>4. CASE HandleNothing
    BY <2>4, FramesKept DEF HandleNothing
  <2> QED
    BY <1>4, <2>2, <2>3, <2>4 DEF Dispatch
<1>5. CASE SendAuthResponse
  BY <1>5, FramesKept DEF SendAuthResponse, CloseSession
<1>6. CASE UNCHANGED vars
  BY <1>6, FramesKept DEF vars
<1> QED
  BY <1>1, <1>2, <1>3, <1>4, <1>5, <1>6 DEF Next, Server

(* Every message queued or handled has the type, the length and the bytes  *)
(* its place in the stream gives it, and no two overlap, for every stream, *)
(* every way recv() cuts it and every message limit (session.cc:121-160).  *)
THEOREM MessagesExact == Spec => []FramesExact
<1>1. TypeOK /\ ParserShape /\ FramesExact /\ [Next]_vars
        => (TypeOK /\ ParserShape /\ FramesExact)'
  BY TypeNext, ShapeNext, FramesNext
<1>2. Spec => [](TypeOK /\ ParserShape /\ FramesExact)
  BY <1>1, TypeInit, ShapeInit, FramesInit, PTL DEF Spec
<1> QED
  BY <1>2, PTL

-----------------------------------------------------------------------------
(* Edge-triggered epoll. *)

(* Which events each place of the handler still holds. *)
EventsShape ==
  /\ pc \in {"flush", "recv", "parse", "dispatch", "answer"} => "err" \notin events
  /\ pc = "event" => events # {}
  /\ pc \in {"recv", "parse", "dispatch", "answer"} => events = {"in"}

(* Input that waits has been announced, or its event is still in hand.     *)
InEdge ==
  \/ ready \/ ~Readable \/ pc = "closed"
  \/ pc \in {"event", "flush", "recv"} /\ "in" \in events

(* An answer that waits has EPOLLOUT registered; and if there is room for  *)
(* it by now, that has been announced or its event is still in hand.       *)
OutEdge ==
  response # <<>> /\ pc \notin {"answer", "closed"} =>
    /\ wantOut
    /\ canSend => ready \/ (pc \in {"event", "flush"} /\ "out" \in events)

EdgeInv == EventsShape /\ InEdge /\ OutEdge

LEMMA EdgeInit == Init => EdgeInv
  BY DEF Init, EdgeInv, EventsShape, InEdge, OutEdge, Readable

LEMMA EdgeEnvironment ==
  TypeOK /\ EdgeInv /\ Environment => EdgeInv'
<1> SUFFICES ASSUME TypeOK, EdgeInv, Environment PROVE EdgeInv'
  OBVIOUS
<1> USE DEF EdgeInv, EventsShape, InEdge, OutEdge, Readable, roomVars, peerVars,
            serverVars, parseVars, authVars
<1>1. ASSUME NEW n \in 1 .. Len(stream), PeerWrite(n) PROVE EdgeInv'
  BY <1>1 DEF PeerWrite
<1>2. CASE PeerClose
  BY <1>2 DEF PeerClose
<1>3. CASE PeerReset
  BY <1>3 DEF PeerReset
<1>4. CASE RoomTaken
  BY <1>4 DEF RoomTaken
<1>5. CASE RoomFreed
  BY <1>5 DEF RoomFreed, TypeOK
<1> QED
  BY <1>1, <1>2, <1>3, <1>4, <1>5 DEF Environment

LEMMA EdgeClose ==
  EdgeInv /\ CloseSession => EdgeInv'
  BY DEF CloseSession, EdgeInv, EventsShape, InEdge, OutEdge

LEMMA EdgeServer ==
  TypeOK /\ EdgeInv /\ Server => EdgeInv'
<1> SUFFICES ASSUME TypeOK, EdgeInv, Server PROVE EdgeInv'
  OBVIOUS
<1> USE DEF EdgeInv, EventsShape, InEdge, OutEdge, Readable, roomVars, peerVars,
            epollVars, parseVars, authVars
<1>0. events \subseteq {"err", "out", "in"}
  BY DEF TypeOK, Events
<1>1. CASE EpollWait
  BY <1>1 DEF EpollWait, Poll, Events
<1>2. CASE HandleEvent
  <2>1. CASE "err" \in events /\ CloseSession
    BY <2>1, EdgeClose
  <2>2. CASE /\ pc = "event" /\ "err" \notin events
             /\ pc' = IF "out" \in events THEN "flush" ELSE "recv"
             /\ UNCHANGED <<peerVars, rcvd, roomVars, answers, epollVars, parseVars,
                            response, authVars, saved, events, handled>>
    <3>1. "out" \notin events => events = {"in"}
      BY <1>0, <2>2
    <3> QED
      BY <2>2, <3>1
  <2> QED
    BY <1>2, <2>1, <2>2 DEF HandleEvent
<1>3. CASE HandleOutEvent
  <2>1. CASE TrySendFails /\ CloseSession
    BY <2>1, EdgeClose
  <2>2. CASE /\ pc = "flush" /\ TrySendAgain /\ EventDone("out")
             /\ UNCHANGED <<answers, response, epollVars, peerVars, rcvd, roomVars,
                            parseVars, authVars, saved, handled>>
    BY <1>0, <2>2 DEF EventDone, TrySendAgain
  <2>3. CASE /\ pc = "flush" /\ TrySendDone /\ UpdateEpollEvents(FALSE)
             /\ EventDone("out")
             /\ UNCHANGED <<peerVars, rcvd, roomVars, parseVars, authVars, saved,
                            handled>>
    BY <1>0, <2>3 DEF EventDone, TrySendDone, UpdateEpollEvents
  <2> QED
    BY <1>3, <2>1, <2>2, <2>3 DEF HandleOutEvent
<1>4. CASE TryRecv
  <2>1. CASE pc = "recv" /\ RecvBytes
    BY <2>1 DEF RecvBytes
  <2>2. CASE pc = "recv" /\ RecvAgain
    <3>1. ~Readable
      BY <2>2 DEF TypeOK, RecvAgain
    <3> QED
      BY <2>2, <3>1 DEF RecvAgain
  <2>3. CASE RecvEnds
    BY <2>3, EdgeClose DEF RecvEnds
  <2> QED
    BY <1>4, <2>1, <2>2, <2>3 DEF TryRecv
<1>5. CASE ParseMessage
  BY <1>5 DEF ParseMessage, ParseType, ParseSize, ParseBody, ParseTooLarge,
              ParseShort, ParseEmpty
<1>6. CASE Dispatch
  <2>1. CASE HandleAuth
    BY <1>6, <2>1 DEF Dispatch, HandleAuth
  <2>2. ASSUME NEW ok \in BOOLEAN, HandleImgMessage(ok) PROVE EdgeInv'
    BY <1>6, <2>2 DEF Dispatch, HandleImgMessage, EventDone
  <2>3. CASE HandleNothing
    BY <1>6, <2>3 DEF Dispatch, HandleNothing, EventDone
  <2> QED
    BY <1>6, <2>1, <2>2, <2>3 DEF Dispatch
<1>7. CASE SendAuthResponse
  <2>1. CASE TrySendFails /\ CloseSession
    BY <2>1, EdgeClose
  <2>2. CASE /\ pc = "answer" /\ TrySendAgain /\ UpdateEpollEvents(TRUE)
             /\ EventDone("in")
             /\ UNCHANGED <<answers, response, peerVars, rcvd, roomVars, parseVars,
                            authVars, saved, handled>>
    BY <2>2 DEF EventDone, TrySendAgain, UpdateEpollEvents
  <2>3. CASE /\ pc = "answer" /\ TrySendDone /\ EventDone("in")
             /\ UNCHANGED <<epollVars, peerVars, rcvd, roomVars, parseVars, authVars,
                            saved, handled>>
    BY <2>3 DEF EventDone, TrySendDone
  <2> QED
    BY <1>7, <2>1, <2>2, <2>3 DEF SendAuthResponse
<1> QED
  BY <1>1, <1>2, <1>3, <1>4, <1>5, <1>6, <1>7 DEF Server

LEMMA EdgeAlways == Spec => [](TypeOK /\ EdgeInv)
<1>1. EdgeInv /\ UNCHANGED vars => EdgeInv'
  BY DEF EdgeInv, EventsShape, InEdge, OutEdge, Readable, vars, peerVars,
         roomVars, epollVars
<1>2. TypeOK /\ EdgeInv /\ [Next]_vars => (TypeOK /\ EdgeInv)'
  BY <1>1, TypeNext, EdgeEnvironment, EdgeServer DEF Next
<1> QED
  BY <1>2, TypeInit, EdgeInit, PTL DEF Spec

(* A server asleep owes the connection nothing that will not be announced: *)
(* no received byte and no end of stream goes unread, and an unsent answer *)
(* has EPOLLOUT registered and no room yet (server.cc:154-196).            *)
THEOREM NoEdgeLost == Spec => []NoLostEdge
<1>1. TypeOK /\ EdgeInv => NoLostEdge
  BY DEF TypeOK, EdgeInv, InEdge, OutEdge, NoLostEdge
<1> QED
  BY <1>1, EdgeAlways, PTL

-----------------------------------------------------------------------------
(* The way back to epoll_wait. *)

LEMMA EventDoneNearer ==
  ASSUME EventsShape, NEW e,
         \/ e = "out" /\ pc = "flush"
         \/ e = "in" /\ pc \in {"dispatch", "answer"},
         EventDone(e)
  PROVE  Nearer
<1>1. CASE e = "out" /\ pc = "flush"
  <2>1. pc' \in {"wait", "recv"}
    BY <1>1 DEF EventDone
  <2> QED
    BY <1>1, <2>1 DEF Nearer, Ahead
<1>2. CASE e = "in" /\ pc \in {"dispatch", "answer"}
  <2>1. pc' = "wait"
    BY <1>2 DEF EventDone, EventsShape
  <2> QED
    BY <1>2, <2>1 DEF Nearer, Ahead
<1> QED
  BY <1>1, <1>2

LEMMA CloseNearer ==
  ASSUME CloseSession, pc \in {"event", "flush", "recv", "answer"}
  PROVE  Nearer
  BY DEF CloseSession, Nearer, Ahead

LEMMA RecvNearer ==
  ASSUME TypeOK, TryRecv
  PROVE  Nearer
<1>1. pc = "recv" /\ rcvd \in Nat /\ sent \in Nat
  BY DEF TypeOK, TryRecv
<1>2. CASE RecvBytes
  <2>1. /\ rcvd' = rcvd + Least(BufferSize, sent - rcvd)
        /\ sent > rcvd /\ pc' = pc
    BY <1>2 DEF RecvBytes
  <2>2. rcvd < rcvd'
    BY <1>1, <2>1, SessionAssumption DEF Least
  <2> QED
    BY <1>1, <2>1, <2>2 DEF Nearer
<1>3. CASE RecvAgain
  BY <1>1, <1>3 DEF RecvAgain, Nearer, Ahead
<1>4. CASE RecvEnds
  BY <1>1, <1>4, CloseNearer DEF RecvEnds
<1> QED
  BY <1>2, <1>3, <1>4 DEF TryRecv

(* An iteration of ParseMessage that goes on has shortened the buffer, or  *)
(* has met a length of zero and changed nothing.                           *)
LEMMA ParseNearer ==
  ASSUME TypeOK, ParseMessage
  PROVE  Nearer \/ UNCHANGED vars
<1>1. pc = "parse" /\ request \in Seq(Byte)
  BY DEF TypeOK, ParseMessage
<1>2. ASSUME FromReqToVec, FieldLen \in Nat \ {0}, pc' = pc PROVE Nearer
  <2>1. request' \in Seq(Byte) /\ Len(Taken) = FieldLen /\ request = Taken \o request'
          /\ Taken \in Seq(Byte)
    BY <1>2, TakenTyped
  <2>2. PICK t \in Seq(Byte), r \in Seq(Byte) : t = Taken /\ r = request'
    BY <2>1
  <2>3. Len(t \o r) = Len(t) + Len(r) /\ Len(t) \in Nat /\ Len(r) \in Nat
    BY ConcatProperties, LenProperties
  <2>4. Len(request') < Len(request)
    BY <1>2, <2>1, <2>2, <2>3
  <2> QED
    BY <1>1, <1>2, <2>4 DEF Nearer
<1>3. CASE ParseType
  BY <1>2, <1>3 DEF ParseType, FieldLen
<1>4. CASE ParseSize
  BY <1>2, <1>4 DEF ParseSize, FieldLen
<1>5. CASE ParseBody
  BY <1>2, <1>5, SessionAssumption DEF ParseBody, FieldLen, HeaderRead
<1>6. CASE ParseTooLarge \/ ParseShort
  BY <1>1, <1>6 DEF ParseTooLarge, ParseShort, Nearer, Ahead
<1>7. CASE ParseEmpty
  BY <1>7 DEF ParseMessage, ParseEmpty, vars
<1> QED
  BY <1>3, <1>4, <1>5, <1>6, <1>7 DEF ParseMessage

LEMMA ServerNearer ==
  ASSUME TypeOK, EventsShape, Server, pc # "wait"
  PROVE  Nearer \/ UNCHANGED vars
<1>1. CASE HandleEvent
  BY <1>1, CloseNearer DEF HandleEvent, Nearer, Ahead
<1>2. CASE HandleOutEvent
  <2>1. pc = "flush"
    BY <1>2 DEF HandleOutEvent
  <2>2. CloseSession \/ EventDone("out")
    BY <1>2 DEF HandleOutEvent
  <2> QED
    BY <2>1, <2>2, CloseNearer, EventDoneNearer
<1>3. CASE Dispatch
  <2>1. pc = "dispatch"
    BY <1>3 DEF Dispatch
  <2>2. pc' = "answer" \/ EventDone("in")
    BY <1>3 DEF Dispatch, HandleAuth, HandleImgMessage, HandleNothing
  <2> QED
    BY <2>1, <2>2, EventDoneNearer DEF Nearer, Ahead
<1>4. CASE SendAuthResponse
  <2>1. pc = "answer"
    BY <1>4 DEF SendAuthResponse
  <2>2. CloseSession \/ EventDone("in")
    BY <1>4 DEF SendAuthResponse
  <2> QED
    BY <2>1, <2>2, CloseNearer, EventDoneNearer
<1>5. CASE EpollWait
  BY <1>5 DEF EpollWait
<1> QED
  BY <1>1, <1>2, <1>3, <1>4, <1>5, RecvNearer, ParseNearer DEF Server

(* Every step of a handler that changes anything brings it nearer to its   *)
(* return (session.cc:110-232, server.cc:144-230).                         *)
THEOREM HandlerComesBack == Spec => HandlerApproachesReturn
<1> DEFINE Step == Server /\ pc # "wait" => Nearer \/ UNCHANGED vars
<1>1. TypeOK /\ EdgeInv => Step
  BY ServerNearer DEF EdgeInv
<1>2. Spec => [](TypeOK /\ EdgeInv)
  BY EdgeAlways
<1> HIDE DEF Step
<1>3. Spec => [][Step]_vars
  BY <1>1, <1>2, PTL
<1>4. ASSUME [Step]_vars
      PROVE  [Server /\ pc # "wait" => Nearer]_vars
  BY <1>4 DEF Step
<1> QED
  BY <1>3, <1>4, PTL DEF HandlerApproachesReturn

-----------------------------------------------------------------------------
(* Answers. *)

LEMMA LenOne ==
  ASSUME NEW n \in Nat, n <= 1, n # 0
  PROVE  n = 1
  OBVIOUS

LEMMA LastOfConcat ==
  ASSUME NEW S, NEW s \in Seq(S), NEW t \in Seq(S), Len(t) = 1
  PROVE  Len(s) \in Nat /\ Len(s \o t) = Len(s) + 1 /\ (s \o t)[Len(s) + 1] = t[1]
<1>1. Len(s) \in Nat /\ Len(s \o t) = Len(s) + Len(t)
  BY ConcatProperties, LenProperties
<1> QED
  BY <1>1, ConcatProperties

LEMMA VerdictKept ==
  ASSUME LatestVerdictAnswered, UNCHANGED <<verdict, answers, response>>
  PROVE  LatestVerdictAnswered'
  BY DEF LatestVerdictAnswered

LEMMA VerdictSent ==
  ASSUME TypeOK, LatestVerdictAnswered, TrySendDone, UNCHANGED verdict
  PROVE  LatestVerdictAnswered'
<1>1. answers' \o response' = answers \o response /\ Len(response') = 0
  BY ConcatProperties, ConcatEmptySeq DEF TypeOK, TrySendDone
<1> QED
  BY <1>1 DEF LatestVerdictAnswered

LEMMA VerdictGiven ==
  ASSUME TypeOK, LatestVerdictAnswered, HandleAuth
  PROVE  LatestVerdictAnswered'
<1>1. verdict' \in {Yes, No} /\ answers' = answers /\ answers \in Seq({Yes, No})
  BY DEF HandleAuth, TypeOK
<1>2. response' \in Seq({Yes, No}) /\ Len(response') = 1 /\ response'[1] = verdict'
  <2>1. CASE response = <<>>
    BY <1>1, <2>1 DEF HandleAuth
  <2>2. CASE response # <<>>
    <3>1. response \in Seq({Yes, No}) /\ Len(response) = 1
      <4>1. response \in Seq({Yes, No}) /\ Len(response) <= 1
        BY DEF TypeOK, LatestVerdictAnswered
      <4>2. Len(response) \in Nat /\ Len(response) # 0
        BY <2>2, <4>1, LenProperties, EmptySeq
      <4> QED
        BY <4>1, <4>2, LenOne
    <3>2. response' = [response EXCEPT ![1] = verdict']
      BY <2>2 DEF HandleAuth
    <3> QED
      BY <1>1, <3>1, <3>2, ExceptSeq
  <2> QED
    BY <2>1, <2>2
<1>3. /\ Len(answers' \o response') = Len(answers) + 1
      /\ (answers' \o response')[Len(answers) + 1] = verdict'
      /\ Len(answers) \in Nat
  <2>1. PICK a \in Seq({Yes, No}) : a = answers
    BY <1>1
  <2>2. PICK r \in Seq({Yes, No}) : r = response'
    BY <1>2
  <2>3. Len(r) = 1 /\ r[1] = verdict'
    BY <1>2, <2>2
  <2>4. Len(a) \in Nat /\ Len(a \o r) = Len(a) + 1 /\ (a \o r)[Len(a) + 1] = r[1]
    BY <2>3, LastOfConcat
  <2> QED
    BY <1>1, <2>1, <2>2, <2>3, <2>4
<1>4. answers' \o response' # <<>>
  BY <1>3
<1> QED
  BY <1>2, <1>3, <1>4 DEF LatestVerdictAnswered

LEMMA VerdictNext ==
  TypeOK /\ LatestVerdictAnswered /\ [Next]_vars => LatestVerdictAnswered'
<1> SUFFICES ASSUME TypeOK, LatestVerdictAnswered, [Next]_vars
             PROVE  LatestVerdictAnswered'
  OBVIOUS
<1> USE DEF authVars
<1>1. CASE Environment
  BY <1>1, VerdictKept
  DEF Environment, PeerWrite, PeerClose, PeerReset, RoomTaken, RoomFreed,
      serverVars
<1>2. CASE EpollWait \/ HandleEvent \/ TryRecv
  BY <1>2, VerdictKept
  DEF EpollWait, HandleEvent, TryRecv, RecvBytes, RecvAgain, RecvEnds,
      CloseSession
<1>3. CASE HandleOutEvent
  BY <1>3, VerdictKept, VerdictSent DEF HandleOutEvent, CloseSession
<1>4. CASE ParseMessage
  BY <1>4, VerdictKept DEF ParseMessage
<1>5. CASE Dispatch
  <2>1. ASSUME NEW ok \in BOOLEAN, HandleImgMessage(ok)
        PROVE LatestVerdictAnswered'
    BY <2>1, VerdictKept DEF HandleImgMessage
  <2>2. CASE HandleNothing
    BY <2>2, VerdictKept DEF HandleNothing
  <2> QED
    BY <1>5, <2>1, <2>2, VerdictGiven DEF Dispatch
<1>6. CASE SendAuthResponse
  BY <1>6, VerdictKept, VerdictSent DEF SendAuthResponse, CloseSession
<1>7. CASE UNCHANGED vars
  BY <1>7, VerdictKept DEF vars
<1> QED
  BY <1>1, <1>2, <1>3, <1>4, <1>5, <1>6, <1>7 DEF Next, Server

(* The last thing the peer is told, now or when room appears, is the       *)
(* outcome of its last authentication (session.cc:192-232).                *)
THEOREM LastVerdictTold == Spec => []LatestVerdictAnswered
<1>1. Init => LatestVerdictAnswered
  BY EmptySeq DEF Init, LatestVerdictAnswered
<1>2. TypeOK /\ LatestVerdictAnswered /\ [Next]_vars
        => (TypeOK /\ LatestVerdictAnswered)'
  BY TypeNext, VerdictNext
<1>3. Spec => [](TypeOK /\ LatestVerdictAnswered)
  BY <1>1, <1>2, TypeInit, PTL DEF Spec
<1> QED
  BY <1>3, PTL
=============================================================================
