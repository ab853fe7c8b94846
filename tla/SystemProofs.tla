---------------------------- MODULE SystemProofs ----------------------------
(***************************************************************************)
(* Theorems about System, for any connections, any identities of their     *)
(* clients and any bounds.                                                 *)
(***************************************************************************)
EXTENDS System, SequenceTheorems, TLAPS

(* The numbers 0 .. n-1 in order: what a client has written.               *)
Written(n) == [i \in 1 .. n |-> i - 1]

LEMMA WrittenSeq ==
  ASSUME NEW n \in Nat
  PROVE  Written(n) \in Seq(Nat) /\ Len(Written(n)) = n
<1>1. \A i \in 1 .. n : i - 1 \in Nat
  OBVIOUS
<1>2. Written(n) \in [1 .. n -> Nat]
  BY <1>1 DEF Written
<1>3. Written(n) \in Seq(Nat)
  BY <1>2
<1>4. DOMAIN Written(n) = 1 .. n
  BY <1>2
<1>5. Len(Written(n)) = n
  BY <1>3, <1>4
<1> QED
  BY <1>3, <1>5

LEMMA ThreeParts ==
  ASSUME NEW s \in Seq(Nat), NEW t \in Seq(Nat), NEW u \in Seq(Nat)
  PROVE  s \o t \o u = s \o (t \o u)
BY ConcatAssociative, SMTT(40)

LEMMA AppendToThird ==
  ASSUME NEW s \in Seq(Nat), NEW t \in Seq(Nat), NEW u \in Seq(Nat),
         NEW n \in Nat
  PROVE  /\ s \o t \o u \in Seq(Nat)
         /\ s \o t \o Append(u, n) = Append(s \o t \o u, n)
<1>1. s \o t \in Seq(Nat)
  OBVIOUS
<1>2. <<n>> \in Seq(Nat)
  OBVIOUS
<1>3. s \o t \o u \in Seq(Nat)
  BY <1>1
<1>4. s \o t \o Append(u, n) = (s \o t) \o (u \o <<n>>)
  BY AppendIsConcat
<1>5. (s \o t) \o (u \o <<n>>) = (s \o t \o u) \o <<n>>
  BY <1>1, <1>2, ConcatAssociative
<1>6. (s \o t \o u) \o <<n>> = Append(s \o t \o u, n)
  BY <1>3, AppendIsConcat
<1> QED
  BY <1>3, <1>4, <1>5, <1>6

LEMMA HeadMovedOver ==
  ASSUME NEW s \in Seq(Nat), NEW q \in Seq(Nat), q # <<>>
  PROVE  Append(s, Head(q)) \o Tail(q) \o <<>> = s \o q
<1> DEFINE h == <<Head(q)>>
<1>1. Head(q) \in Nat /\ Tail(q) \in Seq(Nat)
  BY HeadTailProperties
<1>2. h \in Seq(Nat)
  BY <1>1
<1>3. h \o Tail(q) = q
  <2>1. Len(q) \in Nat \ {0} /\ Len(h) = 1 /\ h[1] = q[1]
    OBVIOUS
  <2>2. Len(Tail(q)) = Len(q) - 1
        /\ \A i \in 1 .. Len(q) - 1 : Tail(q)[i] = q[i + 1]
    BY HeadTailProperties
  <2>3. h \o Tail(q) \in Seq(Nat) /\ Len(h \o Tail(q)) = Len(q)
    BY <1>1, <1>2, <2>1, <2>2, ConcatProperties
  <2>4. ASSUME NEW i \in 1 .. Len(q) PROVE (h \o Tail(q))[i] = q[i]
    <3>1. CASE i = 1
      BY <1>1, <1>2, <2>1, <2>2, <3>1, ConcatProperties
    <3>2. CASE i # 1
      <4>1. i \in 2 .. Len(q) /\ i - 1 \in 1 .. Len(q) - 1
        BY <2>1, <3>2
      <4>2. (h \o Tail(q))[i] = Tail(q)[i - 1]
        BY <1>1, <1>2, <2>1, <2>2, <4>1, ConcatProperties
      <4> QED
        BY <2>2, <4>1, <4>2
    <3> QED
      BY <3>1, <3>2
  <2> QED
    BY <2>3, <2>4, SeqEqual
<1>4. Append(s, Head(q)) = s \o h
  BY <1>1, AppendIsConcat
<1> HIDE DEF h
<1>5. (s \o h) \o Tail(q) = s \o (h \o Tail(q))
  BY <1>1, <1>2, ThreeParts, Zenon
<1>6. s \o q \in Seq(Nat)
  OBVIOUS
<1>7. (s \o q) \o <<>> = s \o q
  BY <1>6, ConcatEmptySeq
<1> QED
  BY <1>3, <1>4, <1>5, <1>7

(* One more message at the end of the third of three parts.                *)
LEMMA WrittenMore ==
  ASSUME NEW s \in Seq(Nat), NEW t \in Seq(Nat), NEW u \in Seq(Nat),
         NEW n \in Nat
  PROVE  s \o t \o u = Written(n) => s \o t \o Append(u, n) = Written(n + 1)
<1>1. s \o t \o Append(u, n) = Append(s \o t \o u, n)
  BY AppendToThird, SMTT(40)
<1>2. /\ Append(Written(n), n) \in Seq(Nat)
      /\ Len(Append(Written(n), n)) = n + 1
  BY WrittenSeq, AppendProperties
<1>3. \A i \in 1 .. n + 1 : Append(Written(n), n)[i] = Written(n + 1)[i]
  BY WrittenSeq DEF Written
<1>4. Written(n + 1) \in Seq(Nat) /\ Len(Written(n + 1)) = n + 1
  BY WrittenSeq
<1>5. Append(Written(n), n) = Written(n + 1)
  BY <1>2, <1>3, <1>4, SeqEqual
<1> QED
  BY <1>1, <1>5, Zenon

(* The first message of the two parts not yet handled is the one whose     *)
(* number is how many were handled, and handling it changes no order.      *)
LEMMA WrittenHandled ==
  ASSUME NEW s \in Seq(Nat), NEW q \in Seq(Nat), q # <<>>,
         NEW n \in Nat, s \o q = Written(n)
  PROVE  /\ Head(q) = Len(s)
         /\ Len(s) < n
         /\ Append(s, Head(q)) \o Tail(q) \o <<>> = Written(n)
<1>1. Len(q) \in Nat \ {0} /\ Len(s) \in Nat /\ Head(q) = q[1]
  OBVIOUS
<1>2. Len(s \o q) = Len(s) + Len(q) /\ (s \o q)[Len(s) + 1] = q[1]
  BY <1>1, ConcatProperties
<1>3. n = Len(s) + Len(q)
  BY <1>2, WrittenSeq
<1>4. q[1] = Len(s)
  BY <1>1, <1>2, <1>3 DEF Written
<1>5. Append(s, Head(q)) \o Tail(q) \o <<>> = s \o q
  BY HeadMovedOver
<1>6. Head(q) = Len(s) /\ Len(s) < n
  BY <1>1, <1>3, <1>4
<1> QED
  BY <1>5, <1>6, Zenon

-----------------------------------------------------------------------------
(* Type correctness. *)

LEMMA InitTyped == Init => TypeOK
<1> SUFFICES ASSUME Init PROVE TypeOK
  OBVIOUS
<1>1. /\ written \in [Conns -> Nat] /\ fin \in [Conns -> BOOLEAN]
      /\ edge \in [Conns -> BOOLEAN]
      /\ dir \in [Conns -> {NoDir} \cup {who[c].dir : c \in Conns}]
  BY DEF Init
<1>2. /\ wire \in [Conns -> Seq(Nat)] /\ messages \in [Conns -> Seq(Nat)]
      /\ handled \in [Conns -> Seq(Nat)]
  BY DEF Init
<1>3. clock \in 0 .. MaxClock /\ changes \in Nat
  BY SystemAssumption DEF Init
<1> QED
  BY <1>1, <1>2, <1>3 DEF Init, TypeOK

(* The server gets stuck: nothing else changes. *)
Stuck == AcceptFails \/ \E c \in Conns : HangOn(c)

LEMMA StuckQuiet ==
  ASSUME Stuck
  PROVE  UNCHANGED <<who, at, written, wire, fin, session, messages, dir, answer,
                     disk, filed, up, clock, changes, setBack, handled>>
BY DEF Stuck, AcceptFails, HangOn, Event, clientVars, netVars, nameVars, fileVars,
       worldVars

LEMMA StuckTyped ==
  ASSUME TypeOK, Stuck
  PROVE  TypeOK'
<1>1. edge' \in [Conns -> BOOLEAN] /\ arrival' \in BOOLEAN /\ hung' \in BOOLEAN
  BY DEF TypeOK, Stuck, AcceptFails, HangOn, Event, netVars
<1> QED
  BY <1>1, StuckQuiet DEF TypeOK

LEMMA ClientTyped ==
  ASSUME TypeOK, NEW c \in Conns,
         Connect(c) \/ Ask(c) \/ SendImage(c) \/ TryAuthenticate(c) \/ ClientEnds(c)
  PROVE  TypeOK'
<1> USE DEF TypeOK, clientVars, netVars, nameVars, fileVars, worldVars, loopVars,
            serverVars
<1>1. Connect(c) => TypeOK'
  BY DEF Connect
<1>2. Ask(c) => TypeOK'
  BY DEF Ask, SendAll
<1>3. SendImage(c) => TypeOK'
  BY DEF SendImage, SendAll
<1>4. ASSUME TryAuthenticate(c) PROVE TypeOK'
  <2>1. CASE Leave(c, TRUE)
    BY <1>4, <2>1 DEF TryAuthenticate, Leave
  <2>2. CASE /\ at[c] = "asked"
             /\ at' = [at EXCEPT ![c] = "sending"]
             /\ UNCHANGED <<who, written, netVars, serverVars>>
    BY <2>2
  <2> QED
    BY <1>4, <2>1, <2>2 DEF TryAuthenticate
<1>5. ClientEnds(c) => TypeOK'
  BY DEF ClientEnds, Leave
<1> QED
  BY <1>1, <1>2, <1>3, <1>4, <1>5

LEMMA QueueTyped ==
  ASSUME TypeOK, NEW c \in Conns, Queue(c) # <<>>
  PROVE  /\ Queue(c) \in Seq(Nat)
         /\ Oldest(c) \in Nat
         /\ Tail(Queue(c)) \in Seq(Nat)
<1>1. messages[c] \in Seq(Nat) /\ wire[c] \in Seq(Nat)
  BY DEF TypeOK
<1>2. Queue(c) \in Seq(Nat)
  BY <1>1 DEF Queue
<1>3. Head(Queue(c)) \in Nat /\ Tail(Queue(c)) \in Seq(Nat)
  BY <1>2, HeadTailProperties
<1> QED
  BY <1>2, <1>3 DEF Oldest

(* What PopMessage leaves of the three parts is a sequence of numbers.     *)
LEMMA PopTyped ==
  ASSUME TypeOK, NEW c \in Conns, Queue(c) # <<>>, PopMessage(c)
  PROVE  /\ messages' \in [Conns -> Seq(Nat)]
         /\ wire' \in [Conns -> Seq(Nat)]
         /\ handled' \in [Conns -> Seq(Nat)]
<1>1. Queue(c) \in Seq(Nat) /\ Oldest(c) \in Nat /\ Tail(Queue(c)) \in Seq(Nat)
  BY QueueTyped
<1> QED
  <2>1. messages' \in [Conns -> Seq(Nat)]
    BY <1>1 DEF TypeOK, PopMessage
  <2>2. wire' \in [Conns -> Seq(Nat)]
    BY <1>1 DEF TypeOK, PopMessage
  <2>3. handled[c] \in Seq(Nat)
    BY DEF TypeOK
  <2>4. Append(handled[c], Oldest(c)) \in Seq(Nat)
    BY <1>1, <2>3
  <2>5. handled' \in [Conns -> Seq(Nat)]
    BY <2>4 DEF TypeOK, PopMessage
  <2> QED
    BY <2>1, <2>2, <2>5

LEMMA ServeTyped ==
  ASSUME TypeOK, NEW c \in Conns, Serve(c)
  PROVE  TypeOK'
<1> USE DEF clientVars, netVars, nameVars, fileVars, worldVars, loopVars
<1>1. ASSUME Accept(c) PROVE TypeOK'
  <2>1. /\ session' \in [Conns -> {"none", "queued", "open", "closed"}]
        /\ \A d \in Conns : session'[d] = "none" <=> session[d] = "none"
    BY <1>1 DEF TypeOK, Accept
  <2>2. edge' \in [Conns -> BOOLEAN]
    BY <1>1 DEF TypeOK, Accept
  <2>3. UNCHANGED <<clientVars, wire, fin, messages, nameVars, fileVars, worldVars,
                    loopVars, handled>>
    BY <1>1 DEF Accept
  <2> QED
    BY <2>1, <2>2, <2>3 DEF TypeOK
<1>2. CloseSession(c) => TypeOK'
  BY DEF TypeOK, CloseSession, Event
<1>3. ASSUME HandleAuthRequest(c) PROVE TypeOK'
  <2>1. messages' \in [Conns -> Seq(Nat)] /\ wire' \in [Conns -> Seq(Nat)]
           /\ handled' \in [Conns -> Seq(Nat)]
    BY <1>3, PopTyped DEF HandleAuthRequest
  <2>2. /\ dir' \in [Conns -> {NoDir} \cup {who[d].dir : d \in Conns}]
        /\ answer' \in [Conns -> {"none", "Y", "N"}]
        /\ edge' \in [Conns -> BOOLEAN]
    BY <1>3 DEF HandleAuthRequest, Event, TypeOK
  <2>3. UNCHANGED <<clientVars, fin, worldVars, loopVars, session, fileVars>>
    BY <1>3 DEF HandleAuthRequest, Event
  <2> QED
    BY <2>1, <2>2, <2>3 DEF TypeOK
<1>4. ASSUME HandleImgMessage(c) PROVE TypeOK'
  <2>1. messages' \in [Conns -> Seq(Nat)] /\ wire' \in [Conns -> Seq(Nat)]
           /\ handled' \in [Conns -> Seq(Nat)]
    BY <1>4, PopTyped DEF HandleImgMessage
  <2>2. filed' \subseteq Image /\ \A f \in disk' : f.image \in filed'
    <3>1. Oldest(c) \in Nat
      BY <1>4, QueueTyped DEF HandleImgMessage
    <3>2. ASSUME NEW whole \in BOOLEAN, SaveScreen(c, whole)
          PROVE  filed' \subseteq Image /\ \A f \in disk' : f.image \in filed'
      BY <3>1, <3>2 DEF SaveScreen, Image, TypeOK
    <3> QED
      BY <1>4, <3>2 DEF HandleImgMessage, TypeOK
  <2>3. edge' \in [Conns -> BOOLEAN]
    BY <1>4 DEF HandleImgMessage, Event, TypeOK
  <2>4. UNCHANGED <<clientVars, fin, worldVars, loopVars, session, nameVars>>
    BY <1>4 DEF HandleImgMessage, Event
  <2> QED
    BY <2>1, <2>2, <2>3, <2>4 DEF TypeOK
<1> QED
  BY <1>1, <1>2, <1>3, <1>4 DEF Serve

LEMMA WorldTyped ==
  ASSUME TypeOK, StopServer \/ StartServer \/ Tick \/ SetBack
  PROVE  TypeOK'
<1> USE DEF TypeOK, clientVars, netVars, nameVars, fileVars, loopVars
<1>1. ASSUME StopServer PROVE TypeOK'
  <2>1. session' \in [Conns -> {"none", "queued", "open", "closed"}]
    BY <1>1 DEF StopServer
  <2>2. \A c \in Conns : session'[c] = "none" <=> at'[c] = "idle"
    BY <1>1 DEF StopServer
  <2>3. UNCHANGED <<clientVars, netVars, messages, nameVars, fileVars, clock,
                    changes, setBack, handled>>
    BY <1>1 DEF StopServer
  <2>4. {up', arrival', hung'} \subseteq BOOLEAN
    BY <1>1 DEF StopServer
  <2> QED
    BY <2>1, <2>2, <2>3, <2>4
<1>2. StartServer => TypeOK'
  BY DEF StartServer
<1>3. Tick => TypeOK'
  BY SystemAssumption DEF Tick
<1>4. SetBack => TypeOK'
  BY SystemAssumption DEF SetBack
<1> QED
  BY <1>1, <1>2, <1>3, <1>4

LEMMA TypeKept == TypeOK /\ [Next]_vars => TypeOK'
<1> SUFFICES ASSUME TypeOK, [Next]_vars PROVE TypeOK'
  OBVIOUS
<1>1. CASE UNCHANGED vars
  BY <1>1 DEF TypeOK, vars, clientVars, netVars, nameVars, fileVars, worldVars,
              loopVars
<1> QED
  BY <1>1, ClientTyped, ServeTyped, WorldTyped, StuckTyped DEF Next, Stuck

(* Every reachable state is well typed; in particular a connection has a   *)
(* session state exactly from connect() on.                                *)
THEOREM SystemTyped == Spec => []TypeOK
BY InitTyped, TypeKept, PTL DEF Spec

-----------------------------------------------------------------------------
(* Nothing is lost, and what may be sent. *)

Lossless ==
  /\ \A c \in Conns :
       session[c] # "closed" => Everything(c) = Written(written[c])
  /\ \A c \in Conns : Len(handled[c]) <= written[c]

(* A client sends one message before it has been accepted, and the server  *)
(* knows the names of those it has accepted.                               *)
Introduced ==
  \A c \in Conns :
    /\ at[c] \in {"idle", "asking"} => written[c] = 0
    /\ at[c] = "sending" \/ written[c] > 1 => answer[c] = "Y"
    /\ answer[c] = "Y" => who[c].accepted /\ dir[c] = who[c].dir

MessageInv == TypeOK /\ Lossless /\ Introduced

LEMMA MessageInit == Init => MessageInv
<1> SUFFICES ASSUME Init PROVE Lossless /\ Introduced
  BY InitTyped DEF MessageInv
<1>1. ASSUME NEW c \in Conns PROVE Everything(c) = Written(written[c])
  <2>1. handled[c] = <<>> /\ messages[c] = <<>> /\ wire[c] = <<>>
    BY DEF Init
  <2>2. Written(written[c]) = <<>>
    BY DEF Init, Written
  <2> QED
    BY <2>1, <2>2 DEF Everything
<1>2. ASSUME NEW c \in Conns PROVE Len(handled[c]) <= written[c]
  <2>1. handled[c] = <<>> /\ written[c] = 0
    BY DEF Init
  <2>2. Len(handled[c]) = 0
    BY <2>1
  <2> QED
    BY <2>1, <2>2
<1> QED
  BY <1>1, <1>2 DEF Init, Lossless, Introduced

(* The message PopMessage handles, and what it leaves.                     *)
LEMMA PopInOrder ==
  ASSUME MessageInv, NEW c \in Conns, session[c] = "open", Queue(c) # <<>>,
         PopMessage(c)
  PROVE  /\ Oldest(c) = Len(handled[c])
         /\ Len(handled[c]) < written[c]
         /\ Len(handled'[c]) = Len(handled[c]) + 1
         /\ Everything(c)' = Written(written[c])
<1>1. /\ handled[c] \in Seq(Nat)
      /\ messages[c] \in Seq(Nat)
      /\ wire[c] \in Seq(Nat)
      /\ written[c] \in Nat
  BY DEF MessageInv, TypeOK
<1>2. Queue(c) \in Seq(Nat)
  BY <1>1 DEF Queue
<1>3. Everything(c) = handled[c] \o Queue(c)
  <2>1. handled[c] \o messages[c] \o wire[c]
          = handled[c] \o (messages[c] \o wire[c])
    BY <1>1, ThreeParts, Zenon
  <2> QED
    BY <2>1, Zenon DEF Everything, Queue
<1>4. Everything(c) = Written(written[c])
  BY DEF MessageInv, Lossless
<1>5. handled[c] \o Queue(c) = Written(written[c])
  BY <1>3, <1>4, Zenon
<1>6. /\ Oldest(c) = Len(handled[c])
      /\ Len(handled[c]) < written[c]
      /\ Append(handled[c], Oldest(c)) \o Tail(Queue(c)) \o <<>>
           = Written(written[c])
  BY <1>1, <1>2, <1>5, WrittenHandled, ZenonT(60) DEF Oldest
<1>7. /\ handled'[c] = Append(handled[c], Oldest(c))
      /\ messages'[c] = Tail(Queue(c))
      /\ wire'[c] = <<>>
  BY DEF PopMessage, MessageInv, TypeOK
<1>8. Everything(c)' = Written(written[c])
  BY <1>6, <1>7, Zenon DEF Everything
<1>9. Len(handled'[c]) = Len(handled[c]) + 1
  <2>1. Oldest(c) \in Nat
    BY <1>1, <1>6
  <2> QED
    BY <1>1, <1>7, <2>1
<1> QED
  BY <1>6, <1>8, <1>9

(* A connection whose three parts and count stay as they are keeps them.   *)
LEMMA LosslessOther ==
  ASSUME Lossless, NEW d \in Conns,
         handled'[d] = handled[d], messages'[d] = messages[d],
         wire'[d] = wire[d], written'[d] = written[d],
         session'[d] # "closed" => session[d] # "closed"
  PROVE  /\ session'[d] # "closed" => Everything(d)' = Written(written[d]')
         /\ Len(handled'[d]) <= written'[d]
<1>1. Everything(d)' = Everything(d)
  BY DEF Everything
<1>2. session'[d] # "closed" => Everything(d)' = Written(written[d]')
  BY <1>1, Zenon DEF Lossless
<1> QED
  BY <1>2 DEF Lossless

LEMMA SendAllLossless ==
  ASSUME MessageInv, NEW c \in Conns, SendAll(c)
  PROVE  Lossless'
<1> USE DEF serverVars, nameVars, fileVars, worldVars
<1>1. /\ handled'[c] = handled[c] /\ messages'[c] = messages[c]
      /\ session' = session
      /\ wire'[c] = Append(wire[c], written[c])
      /\ written'[c] = written[c] + 1
  BY DEF SendAll, MessageInv, TypeOK
<1>2. ASSUME session[c] # "closed"
      PROVE  Everything(c)' = Written(written[c]')
  <2>1. /\ handled[c] \in Seq(Nat)
        /\ messages[c] \in Seq(Nat)
        /\ wire[c] \in Seq(Nat)
        /\ written[c] \in Nat
    BY DEF MessageInv, TypeOK
  <2>2. Everything(c) = Written(written[c])
    BY <1>2 DEF MessageInv, Lossless
  <2>3. handled[c] \o messages[c] \o Append(wire[c], written[c])
          = Written(written[c] + 1)
    BY <2>1, <2>2, WrittenMore DEF Everything
  <2> QED
    BY <1>1, <2>3, Zenon DEF Everything
<1>3. Len(handled'[c]) <= written'[c]
  <2>1. Len(handled[c]) \in Nat /\ Len(handled[c]) <= written[c]
           /\ written[c] \in Nat
    BY DEF MessageInv, TypeOK, Lossless
  <2> QED
    BY <1>1, <2>1
<1>4. ASSUME NEW d \in Conns, d # c
      PROVE  /\ session'[d] # "closed" => Everything(d)' = Written(written[d]')
             /\ Len(handled'[d]) <= written'[d]
  <2>1. /\ handled'[d] = handled[d] /\ messages'[d] = messages[d]
        /\ wire'[d] = wire[d] /\ written'[d] = written[d]
    BY <1>4 DEF SendAll, MessageInv, TypeOK
  <2> QED
    BY <1>1, <2>1, LosslessOther DEF MessageInv
<1> QED
  BY <1>1, <1>2, <1>3, <1>4 DEF Lossless

(* Handling the head of a queue.                                           *)
LEMMA PopLossless ==
  ASSUME MessageInv, NEW c \in Conns, Event(c), Queue(c) # <<>>,
         PopMessage(c), UNCHANGED session
  PROVE  Lossless'
<1>0. session[c] = "open" /\ UNCHANGED <<written>>
  BY DEF Event, clientVars
<1>1. /\ Everything(c)' = Written(written[c]')
      /\ Len(handled'[c]) <= written'[c]
  <2>1. /\ Len(handled[c]) < written[c]
        /\ Len(handled'[c]) = Len(handled[c]) + 1
        /\ Everything(c)' = Written(written[c])
    BY <1>0, PopInOrder
  <2>2. Len(handled[c]) \in Nat /\ written[c] \in Nat
    BY DEF MessageInv, TypeOK
  <2>3. Len(handled'[c]) <= written[c]
    BY <2>1, <2>2
  <2> QED
    BY <1>0, <2>1, <2>3
<1>2. ASSUME NEW d \in Conns, d # c
      PROVE  /\ session'[d] # "closed" => Everything(d)' = Written(written[d]')
             /\ Len(handled'[d]) <= written'[d]
  <2>1. /\ handled'[d] = handled[d] /\ messages'[d] = messages[d]
        /\ wire'[d] = wire[d] /\ written'[d] = written[d]
    BY <1>0, <1>2 DEF PopMessage, MessageInv, TypeOK
  <2> QED
    BY <2>1, LosslessOther DEF MessageInv
<1> QED
  BY <1>1, <1>2 DEF Lossless

(* Steps that move no message.                                             *)
LEMMA LosslessQuiet ==
  ASSUME Lossless, UNCHANGED <<handled, messages, wire, written>>,
         \A d \in Conns : session'[d] # "closed" => session[d] # "closed"
  PROVE  Lossless'
<1>1. ASSUME NEW d \in Conns
      PROVE  /\ session'[d] # "closed" => Everything(d)' = Written(written[d]')
             /\ Len(handled'[d]) <= written'[d]
  BY LosslessOther
<1> QED
  BY <1>1 DEF Lossless

LEMMA LosslessKept ==
  ASSUME MessageInv, Next
  PROVE  Lossless'
<1> USE DEF clientVars, netVars, nameVars, fileVars, worldVars, serverVars
<1>1. ASSUME NEW c \in Conns, Connect(c) \/ TryAuthenticate(c) \/ ClientEnds(c)
      PROVE  Lossless'
  <2>1. UNCHANGED <<handled, messages, wire, written>>
    BY <1>1 DEF Connect, TryAuthenticate, ClientEnds, Leave
  <2>2. \A d \in Conns : session'[d] # "closed" => session[d] # "closed"
    <3>1. CASE Connect(c)
      BY <3>1 DEF Connect, MessageInv, TypeOK
    <3>2. CASE TryAuthenticate(c) \/ ClientEnds(c)
      BY <3>2 DEF TryAuthenticate, ClientEnds, Leave
    <3> QED
      BY <1>1, <3>1, <3>2
  <2> QED
    BY <2>1, <2>2, LosslessQuiet DEF MessageInv
<1>2. ASSUME NEW c \in Conns, Ask(c) \/ SendImage(c)
      PROVE  Lossless'
  BY <1>2, SendAllLossless DEF Ask, SendImage
<1>3. ASSUME NEW c \in Conns, Accept(c) \/ CloseSession(c)
      PROVE  Lossless'
  <2>1. UNCHANGED <<handled, messages, wire, written>>
    BY <1>3 DEF Accept, CloseSession, Event
  <2>2. \A d \in Conns : session'[d] # "closed" => session[d] # "closed"
    BY <1>3 DEF Accept, CloseSession, Event, MessageInv, TypeOK
  <2> QED
    BY <2>1, <2>2, LosslessQuiet DEF MessageInv
<1>4. ASSUME NEW c \in Conns, HandleAuthRequest(c) \/ HandleImgMessage(c)
      PROVE  Lossless'
  BY <1>4, PopLossless DEF HandleAuthRequest, HandleImgMessage
<1>5. ASSUME StopServer \/ StartServer \/ Tick \/ SetBack
      PROVE  Lossless'
  <2>1. UNCHANGED <<handled, messages, wire, written>>
    BY <1>5 DEF StopServer, StartServer, Tick, SetBack
  <2>2. \A d \in Conns : session'[d] # "closed" => session[d] # "closed"
    BY <1>5 DEF StopServer, StartServer, Tick, SetBack, MessageInv, TypeOK
  <2> QED
    BY <2>1, <2>2, LosslessQuiet DEF MessageInv
<1>6. CASE Stuck
  BY <1>6, StuckQuiet, LosslessQuiet DEF MessageInv
<1> QED
  BY <1>1, <1>2, <1>3, <1>4, <1>5, <1>6 DEF Next, Serve, Stuck

LEMMA IntroducedKept ==
  ASSUME MessageInv, Next
  PROVE  Introduced'
<1> USE DEF clientVars, netVars, nameVars, fileVars, worldVars, serverVars,
            MessageInv, TypeOK, Introduced
<1>1. ASSUME NEW c \in Conns, Connect(c) PROVE Introduced'
  BY <1>1 DEF Connect
<1>2. ASSUME NEW c \in Conns, Ask(c) PROVE Introduced'
  <2>0. written[c] = 0 /\ written' = [written EXCEPT ![c] = @ + 1]
    BY <1>2 DEF Ask, SendAll
  <2>1. written' = [written EXCEPT ![c] = 1]
    BY <2>0
  <2>2. /\ at' = [at EXCEPT ![c] = "asked"]
        /\ UNCHANGED <<who, answer, dir>>
    BY <1>2 DEF Ask, SendAll
  <2> QED
    BY <2>1, <2>2
<1>3. ASSUME NEW c \in Conns, SendImage(c) PROVE Introduced'
  BY <1>3 DEF SendImage, SendAll
<1>4. ASSUME NEW c \in Conns, TryAuthenticate(c) PROVE Introduced'
  BY <1>4 DEF TryAuthenticate, Leave
<1>5. ASSUME NEW c \in Conns, ClientEnds(c) PROVE Introduced'
  BY <1>5 DEF ClientEnds, Leave
<1>6. ASSUME NEW c \in Conns, Accept(c) \/ CloseSession(c) PROVE Introduced'
  BY <1>6 DEF Accept, CloseSession, Event
<1>7. ASSUME NEW c \in Conns, HandleAuthRequest(c) PROVE Introduced'
  <2>1. /\ UNCHANGED <<who, at, written>>
        /\ dir' = [dir EXCEPT ![c] = who[c].dir]
        /\ answer' = [answer EXCEPT ![c] = IF who[c].accepted THEN "Y" ELSE "N"]
    BY <1>7 DEF HandleAuthRequest, Event
  <2>2. at[c] = "sending" \/ written[c] > 1 => who[c].accepted
    OBVIOUS
  <2> QED
    BY <2>1, <2>2
<1>8. ASSUME NEW c \in Conns, HandleImgMessage(c) PROVE Introduced'
  BY <1>8 DEF HandleImgMessage, Event
<1>9. ASSUME StopServer \/ StartServer \/ Tick \/ SetBack PROVE Introduced'
  BY <1>9 DEF StopServer, StartServer, Tick, SetBack
<1>10. CASE Stuck
  BY <1>10, StuckQuiet
<1> QED
  BY <1>1, <1>2, <1>3, <1>4, <1>5, <1>6, <1>7, <1>8, <1>9, <1>10
  DEF Next, Serve, Stuck

LEMMA MessageKept == MessageInv /\ [Next]_vars => MessageInv'
<1> SUFFICES ASSUME MessageInv, [Next]_vars PROVE MessageInv'
  OBVIOUS
<1>1. TypeOK'
  BY TypeKept DEF MessageInv
<1>2. CASE Next
  BY <1>1, <1>2, LosslessKept, IntroducedKept DEF MessageInv
<1>3. CASE UNCHANGED vars
  <2>1. UNCHANGED <<handled, messages, wire, written, session>>
    BY <1>3 DEF vars, clientVars, netVars
  <2>2. Lossless'
    BY <2>1, LosslessQuiet DEF MessageInv
  <2>3. Introduced'
    BY <1>3 DEF MessageInv, Introduced, vars, clientVars, netVars, nameVars
  <2> QED
    BY <1>1, <2>2, <2>3 DEF MessageInv
<1> QED
  BY <1>2, <1>3

LEMMA MessagesAlways == Spec => []MessageInv
BY MessageInit, MessageKept, PTL DEF Spec

(* While a session lives, what its client has sent has been handled, is    *)
(* queued or is still to be read, in the order sent and without a gap.     *)
THEOREM SystemLosesNothing == Spec => []NothingLostWhileOpen
<1>1. MessageInv => NothingLostWhileOpen
  BY DEF MessageInv, Lossless, NothingLostWhileOpen, Written
<1> QED
  BY <1>1, MessagesAlways, PTL

-----------------------------------------------------------------------------
(* The files. *)

(* What a name says: the identity of the sender and the time.              *)
PathOf(i) == [dir |-> who[i.of].dir, time |-> i.time, peer |-> who[i.of].peer]

Sound(f) ==
  /\ f.image.of \in Conns /\ f.image.no \in Nat \ {0} /\ f.image.time \in Nat
  /\ f.path = PathOf(f.image)
  /\ who[f.image.of].accepted
  /\ f.image.no < Len(handled[f.image.of])
  /\ ~setBack => f.image.time <= clock

OnePerPath == \A f, g \in disk : f.path = g.path => f = g

FilesInv ==
  /\ \A f \in disk : Sound(f)
  /\ OnePerPath
  /\ FilesOrdered
  /\ KeptUnlessSameName

LEMMA FilesInit == Init => FilesInv
BY DEF Init, FilesInv, OnePerPath, FilesOrdered, KeptUnlessSameName

(* What saving the image at the head of the queue adds to the disk, and    *)
(* what may be said of it.                                                 *)
NewImage(c, whole) ==
  [of |-> c, no |-> Oldest(c), time |-> clock, whole |-> whole]

NewFile(c, whole) == [path |-> Path(c, clock), image |-> NewImage(c, whole)]

LEMMA SavedFile ==
  ASSUME MessageInv, NEW c \in Conns, HandleImgMessage(c),
         NEW whole \in BOOLEAN, SaveScreen(c, whole)
  PROVE  /\ disk' = {f \in disk : f.path # Path(c, clock)} \cup {NewFile(c, whole)}
         /\ filed' = filed \cup {NewImage(c, whole)}
         /\ Path(c, clock) = PathOf(NewImage(c, whole))
         /\ Oldest(c) = Len(handled[c]) /\ Len(handled[c]) \in Nat \ {0}
         /\ Len(handled[c]) < written[c]
         /\ Len(handled'[c]) = Len(handled[c]) + 1
         /\ \A d \in Conns \ {c} : handled'[d] = handled[d]
         /\ UNCHANGED <<who, clock, setBack, written>>
         /\ who[c].accepted
<1>1. /\ disk' = {f \in disk : f.path # Path(c, clock)} \cup {NewFile(c, whole)}
      /\ filed' = filed \cup {NewImage(c, whole)}
  BY DEF SaveScreen, NewFile, NewImage
<1>2. /\ UNCHANGED <<who, clock, setBack, written>>
      /\ session[c] = "open" /\ Queue(c) # <<>> /\ PopMessage(c)
      /\ Oldest(c) # 0
  BY DEF HandleImgMessage, Event, clientVars, worldVars
<1>3. /\ Oldest(c) = Len(handled[c])
      /\ Len(handled[c]) < written[c]
      /\ Len(handled'[c]) = Len(handled[c]) + 1
  BY <1>2, PopInOrder
<1>4. Len(handled[c]) \in Nat /\ written[c] \in Nat
  BY DEF MessageInv, TypeOK
<1>5. Len(handled[c]) \in Nat \ {0} /\ written[c] > 1
  BY <1>2, <1>3, <1>4
<1>6. who[c].accepted /\ dir[c] = who[c].dir
  BY <1>5 DEF MessageInv, Introduced
<1>7. Path(c, clock) = PathOf(NewImage(c, whole))
  BY <1>6 DEF Path, PathOf, NewImage
<1>8. \A d \in Conns \ {c} : handled'[d] = handled[d]
  BY <1>2 DEF PopMessage, MessageInv, TypeOK
<1> QED
  BY <1>1, <1>2, <1>3, <1>5, <1>6, <1>7, <1>8

(* A file stays sound while handled only grows.                            *)
LEMMA SoundStays ==
  ASSUME MessageInv, NEW f, Sound(f), UNCHANGED who,
         Len(handled[f.image.of]) <= Len(handled'[f.image.of]),
         Len(handled'[f.image.of]) \in Nat,
         ~setBack' => ~setBack /\ clock <= clock',
         clock' \in Nat
  PROVE  Sound(f)'
<1>1. /\ Len(handled[f.image.of]) \in Nat
      /\ clock \in Nat
  BY SystemAssumption DEF Sound, MessageInv, TypeOK
<1>2. PathOf(f.image)' = PathOf(f.image)
  BY DEF PathOf
<1>3. f.image.no < Len(handled'[f.image.of])
  BY <1>1 DEF Sound
<1>4. ~setBack' => f.image.time <= clock'
  BY <1>1 DEF Sound
<1> QED
  BY <1>2, <1>3, <1>4 DEF Sound

LEMMA SaveKeepsFiles ==
  ASSUME MessageInv, MessageInv', FilesInv, NEW c \in Conns, HandleImgMessage(c),
         NEW whole \in BOOLEAN, SaveScreen(c, whole)
  PROVE  FilesInv'
<1>1. PICK new :
        /\ disk' = {f \in disk : f.path # new.path} \cup {new}
        /\ filed' = filed \cup {new.image}
        /\ new.path = PathOf(new.image)
        /\ new.image.of = c /\ new.image.no = Len(handled[c])
        /\ new.image.time = clock
  <2>1. /\ NewFile(c, whole).path = Path(c, clock)
        /\ NewFile(c, whole).image = NewImage(c, whole)
        /\ NewImage(c, whole).of = c /\ NewImage(c, whole).no = Oldest(c)
        /\ NewImage(c, whole).time = clock
    BY DEF NewFile, NewImage
  <2> QED
    BY <2>1, SavedFile
<1>2. /\ Len(handled[c]) \in Nat \ {0}
      /\ Len(handled'[c]) = Len(handled[c]) + 1
      /\ \A d \in Conns \ {c} : handled'[d] = handled[d]
      /\ UNCHANGED <<who, clock, setBack>>
      /\ who[c].accepted
  BY SavedFile
<1>3. clock \in Nat
  BY SystemAssumption DEF MessageInv, TypeOK
<1>4. ASSUME NEW d \in Conns
      PROVE  /\ Len(handled[d]) \in Nat /\ Len(handled'[d]) \in Nat
             /\ Len(handled[d]) <= Len(handled'[d])
  <2>1. Len(handled[d]) \in Nat
    BY DEF MessageInv, TypeOK
  <2>2. CASE d = c
    BY <1>2, <2>2
  <2>3. CASE d # c
    BY <1>2, <2>1, <2>3
  <2> QED
    BY <2>2, <2>3
<1>5. Sound(new)'
  <2>1. PathOf(new.image)' = PathOf(new.image)
    BY <1>2 DEF PathOf
  <2>2. new.image.no < Len(handled'[c])
    BY <1>1, <1>2
  <2>3. new.image.time <= clock' /\ new.image.time \in Nat
    BY <1>1, <1>2, <1>3
  <2>4. new.path = PathOf(new.image)'
    BY <1>1, <2>1
  <2>5. who'[new.image.of].accepted
    BY <1>1, <1>2
  <2> QED
    BY <1>1, <1>2, <2>2, <2>3, <2>4, <2>5 DEF Sound
<1>6. \A f \in disk' : Sound(f)'
  <2>1. ASSUME NEW f \in disk PROVE Sound(f)'
    <3>1. Sound(f) /\ f.image.of \in Conns
      BY DEF FilesInv, Sound
    <3> QED
      BY <1>2, <1>3, <1>4, <3>1, SoundStays
  <2> QED
    BY <1>1, <1>5, <2>1
<1>7. OnePerPath'
  BY <1>1 DEF FilesInv, OnePerPath
<1>8. FilesOrdered'
  <2> SUFFICES ASSUME ~setBack, NEW f \in disk', NEW g \in disk',
                      f.image.of = g.image.of, f.image.time < g.image.time
               PROVE  f.image.no < g.image.no
    BY <1>2 DEF FilesOrdered
  <2>1. CASE f \in disk /\ g \in disk
    BY <2>1 DEF FilesInv, FilesOrdered
  <2>2. CASE f = new /\ g \in disk
    <3>1. g.image.time <= clock /\ g.image.time \in Nat
      BY <2>2 DEF FilesInv, Sound
    <3> QED
      BY <1>1, <1>3, <2>2, <3>1
  <2>3. CASE f \in disk /\ g = new
    BY <1>1, <2>3 DEF FilesInv, Sound
  <2>4. CASE f = new /\ g = new
    BY <1>1, <1>3, <2>4
  <2> QED
    BY <1>1, <2>1, <2>2, <2>3, <2>4
<1>9. KeptUnlessSameName'
  <2> SUFFICES ASSUME NEW i \in filed'
               PROVE  \E f \in disk' : SameName(i, f.image)
    BY <1>2 DEF KeptUnlessSameName, SameName
  <2>1. CASE i = new.image
    BY <1>1, <2>1 DEF SameName
  <2>2. CASE i \in filed
    <3>1. PICK f \in disk : SameName(i, f.image)
      BY <2>2 DEF FilesInv, KeptUnlessSameName
    <3>2. CASE f.path # new.path
      BY <1>1, <3>1, <3>2
    <3>3. CASE f.path = new.path
      <4>1. PathOf(f.image) = PathOf(new.image)
        BY <1>1, <3>3 DEF FilesInv, Sound
      <4>2. SameName(f.image, new.image)
        BY <4>1 DEF PathOf, SameName
      <4>3. SameName(i, new.image)
        BY <3>1, <4>2 DEF SameName
      <4> QED
        BY <1>1, <4>3
    <3> QED
      BY <3>2, <3>3
  <2> QED
    BY <1>1, <2>1, <2>2
<1> QED
  BY <1>6, <1>7, <1>8, <1>9 DEF FilesInv

(* Steps that save nothing.                                                *)
LEMMA FilesQuiet ==
  ASSUME MessageInv, MessageInv', FilesInv, UNCHANGED <<disk, filed, who>>,
         \A d \in Conns : Len(handled[d]) <= Len(handled'[d]),
         ~setBack' => ~setBack /\ clock <= clock'
  PROVE  FilesInv'
<1>1. ASSUME NEW f \in disk PROVE Sound(f)'
  <2>1. Sound(f) /\ f.image.of \in Conns
    BY DEF FilesInv, Sound
  <2>2. Len(handled'[f.image.of]) \in Nat /\ clock' \in Nat
    BY <2>1, SystemAssumption DEF MessageInv, TypeOK
  <2> QED
    BY <2>1, <2>2, SoundStays
<1>2. FilesOrdered'
  BY DEF FilesInv, FilesOrdered
<1>3. KeptUnlessSameName' /\ OnePerPath'
  BY DEF FilesInv, KeptUnlessSameName, SameName, OnePerPath
<1> QED
  BY <1>1, <1>2, <1>3 DEF FilesInv

(* Handling a message makes the handled ones more, and no step less.       *)
LEMMA HandledGrows ==
  ASSUME MessageInv, Next, NEW d \in Conns
  PROVE  Len(handled[d]) <= Len(handled'[d])
<1> USE DEF clientVars, netVars, nameVars, fileVars, worldVars, serverVars
<1>0. Len(handled[d]) \in Nat
  BY DEF MessageInv, TypeOK
<1>1. ASSUME NEW c \in Conns, HandleAuthRequest(c) \/ HandleImgMessage(c)
      PROVE  Len(handled[d]) <= Len(handled'[d])
  <2>1. session[c] = "open" /\ Queue(c) # <<>> /\ PopMessage(c)
    BY <1>1 DEF HandleAuthRequest, HandleImgMessage, Event
  <2>2. CASE d = c
    BY <1>0, <2>1, <2>2, PopInOrder
  <2>3. CASE d # c
    BY <1>0, <2>1, <2>3 DEF PopMessage, MessageInv, TypeOK
  <2> QED
    BY <2>2, <2>3
<1>2. ASSUME UNCHANGED handled PROVE Len(handled[d]) <= Len(handled'[d])
  BY <1>0, <1>2
<1>3. ASSUME NEW c \in Conns,
             Connect(c) \/ Ask(c) \/ SendImage(c) \/ TryAuthenticate(c)
               \/ ClientEnds(c)
      PROVE  UNCHANGED handled
  BY <1>3 DEF Connect, Ask, SendImage, SendAll, TryAuthenticate, ClientEnds, Leave
<1>4. ASSUME NEW c \in Conns, Accept(c) \/ CloseSession(c)
      PROVE  UNCHANGED handled
  BY <1>4 DEF Accept, CloseSession
<1>5. ASSUME StopServer \/ StartServer \/ Tick \/ SetBack
      PROVE  UNCHANGED handled
  BY <1>5 DEF StopServer, StartServer, Tick, SetBack
<1>6. CASE Stuck
  BY <1>0, <1>6, StuckQuiet
<1> QED
  BY <1>1, <1>2, <1>3, <1>4, <1>5, <1>6 DEF Next, Serve, Stuck

(* Only saving changes the disk, and only SetBack moves the clock back.    *)
LEMMA QuietSteps ==
  ASSUME MessageInv, Next
  PROVE  \/ /\ UNCHANGED <<disk, filed, who>>
            /\ ~setBack' => ~setBack /\ clock <= clock'
         \/ \E c \in Conns : HandleImgMessage(c)
                              /\ \E whole \in BOOLEAN : SaveScreen(c, whole)
<1> USE DEF clientVars, netVars, nameVars, fileVars, worldVars, serverVars
<1>0. clock \in Nat
  BY SystemAssumption DEF MessageInv, TypeOK
<1> DEFINE Quiet == /\ UNCHANGED <<disk, filed, who>>
                    /\ ~setBack' => ~setBack /\ clock <= clock'
<1>1. ASSUME UNCHANGED <<disk, filed, who, clock, setBack>> PROVE Quiet
  BY <1>0, <1>1
<1>2. ASSUME NEW c \in Conns,
             Connect(c) \/ Ask(c) \/ SendImage(c) \/ TryAuthenticate(c)
               \/ ClientEnds(c)
      PROVE  UNCHANGED <<disk, filed, who, clock, setBack>>
  BY <1>2 DEF Connect, Ask, SendImage, SendAll, TryAuthenticate, ClientEnds, Leave
<1>3. ASSUME NEW c \in Conns,
             Accept(c) \/ CloseSession(c) \/ HandleAuthRequest(c)
      PROVE  UNCHANGED <<disk, filed, who, clock, setBack>>
  BY <1>3 DEF Accept, CloseSession, HandleAuthRequest, Event
<1>4. ASSUME NEW c \in Conns, HandleImgMessage(c),
             ~ \E whole \in BOOLEAN : SaveScreen(c, whole)
      PROVE  UNCHANGED <<disk, filed, who, clock, setBack>>
  BY <1>4 DEF HandleImgMessage, Event
<1>5. ASSUME StopServer \/ StartServer
      PROVE  UNCHANGED <<disk, filed, who, clock, setBack>>
  BY <1>5 DEF StopServer, StartServer
<1>6. ASSUME Tick \/ SetBack PROVE Quiet
  BY <1>0, <1>6 DEF Tick, SetBack
<1>7. ASSUME Stuck PROVE UNCHANGED <<disk, filed, who, clock, setBack>>
  BY <1>7, StuckQuiet
<1> HIDE DEF Quiet
<1>8. Quiet \/ \E c \in Conns : HandleImgMessage(c)
                              /\ \E whole \in BOOLEAN : SaveScreen(c, whole)
  BY <1>1, <1>2, <1>3, <1>4, <1>5, <1>6, <1>7 DEF Next, Serve, Stuck
<1> QED
  BY <1>8 DEF Quiet

SystemInv == MessageInv /\ FilesInv

LEMMA SystemInit == Init => SystemInv
BY MessageInit, FilesInit DEF SystemInv

LEMMA SystemKept == SystemInv /\ [Next]_vars => SystemInv'
<1> SUFFICES ASSUME SystemInv, [Next]_vars PROVE SystemInv'
  OBVIOUS
<1>1. MessageInv /\ MessageInv' /\ FilesInv
  BY MessageKept DEF SystemInv
<1>2. CASE UNCHANGED vars
  <2>1. UNCHANGED <<disk, filed, who, handled, clock, setBack>>
    BY <1>2 DEF vars, clientVars, fileVars, worldVars
  <2>2. clock \in Nat /\ \A d \in Conns : Len(handled[d]) \in Nat
    BY <1>1, SystemAssumption DEF MessageInv, TypeOK
  <2>3. clock <= clock' /\ \A d \in Conns : Len(handled[d]) <= Len(handled'[d])
    BY <2>1, <2>2
  <2> QED
    BY <1>1, <2>1, <2>3, FilesQuiet DEF SystemInv
<1>3. CASE Next
  <2>1. CASE /\ UNCHANGED <<disk, filed, who>>
             /\ ~setBack' => ~setBack /\ clock <= clock'
    BY <1>1, <1>3, <2>1, HandledGrows, FilesQuiet DEF SystemInv
  <2>2. CASE \E c \in Conns : HandleImgMessage(c)
                              /\ \E whole \in BOOLEAN : SaveScreen(c, whole)
    BY <1>1, <2>2, SaveKeepsFiles DEF SystemInv
  <2> QED
    BY <1>1, <1>3, <2>1, <2>2, QuietSteps
<1> QED
  BY <1>2, <1>3

LEMMA SystemAlways == Spec => []SystemInv
BY SystemInit, SystemKept, PTL DEF Spec

(* No file lies where its sender's names do not lead, none is of a refused *)
(* client, and none is of an image that was not sent.                      *)
THEOREM FilesAreAuthentic == Spec => []FilesAuthentic
<1>1. SystemInv => FilesAuthentic
  <2> SUFFICES ASSUME SystemInv, NEW f \in disk
               PROVE  LET c == f.image.of
                      IN  /\ f.path.dir = who[c].dir
                          /\ who[c].accepted
                          /\ f.image.no \in 1 .. written[c] - 1
    BY DEF FilesAuthentic
  <2> DEFINE c == f.image.of
  <2>1. Sound(f) /\ c \in Conns
    BY DEF SystemInv, FilesInv, Sound
  <2>2. /\ Len(handled[c]) \in Nat /\ written[c] \in Nat
        /\ Len(handled[c]) <= written[c]
    BY <2>1 DEF SystemInv, MessageInv, Lossless, TypeOK
  <2>3. f.image.no \in 1 .. written[c] - 1
    BY <2>1, <2>2 DEF Sound
  <2>4. f.path.dir = who[c].dir
    BY <2>1 DEF Sound, PathOf
  <2> QED
    BY <2>1, <2>3, <2>4 DEF Sound
<1> QED
  BY <1>1, SystemAlways, PTL

(* As long as the local time is not set back, file names sort the images   *)
(* of a client in the order it made them.                                  *)
THEOREM FilesInOrder == Spec => []FilesOrdered
<1>1. SystemInv => FilesOrdered
  BY DEF SystemInv, FilesInv
<1> QED
  BY <1>1, SystemAlways, PTL

(* An image reported as saved is only ever replaced by one of the same     *)
(* names, address and second.                                              *)
THEOREM OnlySameNameReplaces == Spec => []KeptUnlessSameName
<1>1. SystemInv => KeptUnlessSameName
  BY DEF SystemInv, FilesInv
<1> QED
  BY <1>1, SystemAlways, PTL

-----------------------------------------------------------------------------
(* System implements Archive. *)

Short(f) == [of |-> f.image.of, no |-> f.image.no]

(* A file that replaces what had its path costs the archive one image at   *)
(* most, whether that one was whole or is still there under another path.  *)
LEMMA OneLost ==
  ASSUME OnePerPath, NEW new, new.image.whole \in BOOLEAN,
         disk' = {f \in disk : f.path # new.path} \cup {new}
  PROVE  \E kept \in {Unharmed} \cup {Unharmed \ {i} : i \in Unharmed} :
           Unharmed' \in {kept, kept \cup {Short(new)}}
<1> DEFINE rest == {Short(f) : f \in {g \in disk : g.path # new.path /\ g.image.whole}}
<1>1. Unharmed = {Short(f) : f \in {g \in disk : g.image.whole}}
  BY DEF Unharmed, Short
<1>2. Unharmed' = {Short(f) : f \in {g \in disk' : g.image.whole}}
  BY DEF Unharmed, Short
<1> HIDE DEF Short
<1>3. Unharmed' \in {rest, rest \cup {Short(new)}}
  <2>1. CASE new.image.whole
    BY <1>2, <2>1
  <2>2. CASE ~new.image.whole
    BY <1>2, <2>2
  <2> QED
    BY <2>1, <2>2
<1>4. rest \in {Unharmed} \cup {Unharmed \ {i} : i \in Unharmed}
  <2>1. CASE \A f \in disk : f.path = new.path => ~f.image.whole
    BY <1>1, <2>1
  <2>2. ASSUME NEW f \in disk, f.path = new.path, f.image.whole
        PROVE  rest \in {Unharmed} \cup {Unharmed \ {i} : i \in Unharmed}
    <3>1. \A g \in disk : g.path = new.path => g = f
      BY <2>2 DEF OnePerPath
    <3>2. Unharmed = rest \cup {Short(f)} /\ Short(f) \in Unharmed
      BY <1>1, <2>2, <3>1
    <3>3. CASE Short(f) \in rest
      BY <3>2, <3>3
    <3>4. CASE Short(f) \notin rest
      <4>1. rest = Unharmed \ {Short(f)}
        BY <3>2, <3>4
      <4> QED
        BY <3>2, <4>1
    <3> QED
      BY <3>3, <3>4
  <2> QED
    BY <2>1, <2>2
<1> QED
  BY <1>3, <1>4

abstractVars == <<Made, Handled, Unharmed>>

LEMMA PromiseInit == Init => Promise!Init
<1> SUFFICES ASSUME Init PROVE Promise!Init
  OBVIOUS
<1>1. Made = [c \in Conns |-> 0]
  BY DEF Init, Made
<1>2. Handled = [c \in Conns |-> 0]
  BY DEF Init, Handled
<1>3. Unharmed = {}
  BY DEF Init, Unharmed
<1> QED
  BY <1>1, <1>2, <1>3 DEF Promise!Init

LEMMA QuietPromise ==
  ASSUME UNCHANGED <<written, handled, disk>>
  PROVE  UNCHANGED abstractVars
BY DEF abstractVars, Made, Handled, Unharmed

LEMMA MakePromise ==
  ASSUME MessageInv, NEW c \in Conns, SendAll(c)
  PROVE  Promise!Make(c) \/ UNCHANGED abstractVars
<1>1. UNCHANGED <<handled, disk>> /\ written' = [written EXCEPT ![c] = @ + 1]
  BY DEF SendAll, serverVars, fileVars
<1>2. UNCHANGED <<Handled, Unharmed>>
  BY <1>1 DEF Handled, Unharmed
<1>3. written \in [Conns -> Nat]
  BY DEF MessageInv, TypeOK
<1>4. CASE written[c] = 0
  <2>1. Made' = Made
    BY <1>1, <1>3, <1>4 DEF Made
  <2> QED
    BY <1>2, <2>1 DEF abstractVars
<1>5. CASE written[c] # 0
  <2>0. written[c] \in Nat /\ written'[c] = written[c] + 1
    BY <1>1, <1>3
  <2>1. Made[c] = written[c] - 1 /\ Made'[c] = written'[c] - 1
    BY <1>5, <2>0 DEF Made
  <2>2. Made'[c] = Made[c] + 1
    BY <2>0, <2>1
  <2>3. \A d \in Conns \ {c} : Made'[d] = Made[d]
    BY <1>1, <1>3 DEF Made
  <2>4. Made' = [Made EXCEPT ![c] = @ + 1]
    BY <2>2, <2>3 DEF Made
  <2> QED
    BY <1>2, <2>4 DEF Promise!Make
<1> QED
  BY <1>4, <1>5

LEMMA AuthPromise ==
  ASSUME MessageInv, NEW c \in Conns, HandleAuthRequest(c)
  PROVE  UNCHANGED abstractVars
<1>1. /\ UNCHANGED <<written, disk>>
      /\ session[c] = "open" /\ Queue(c) # <<>> /\ PopMessage(c)
      /\ Oldest(c) = 0
  BY DEF HandleAuthRequest, Event, clientVars, fileVars
<1>2. Len(handled[c]) = 0 /\ Len(handled'[c]) = 1
  <2>1. Oldest(c) = Len(handled[c]) /\ Len(handled'[c]) = Len(handled[c]) + 1
    BY <1>1, PopInOrder
  <2> QED
    BY <1>1, <2>1
<1>3. handled[c] \in Seq(Nat) /\ handled' \in [Conns -> Seq(Nat)]
  BY <1>1, PopTyped DEF MessageInv, TypeOK
<1>4. Handled'[c] = 0 /\ Handled[c] = 0
  BY <1>2, <1>3 DEF Handled
<1>5. \A d \in Conns \ {c} : handled'[d] = handled[d]
  BY <1>1 DEF PopMessage, MessageInv, TypeOK
<1>6. Handled' = Handled
  BY <1>4, <1>5 DEF Handled
<1>7. UNCHANGED <<Made, Unharmed>>
  BY <1>1 DEF Made, Unharmed
<1> QED
  BY <1>6, <1>7 DEF abstractVars

LEMMA ImagePromise ==
  ASSUME SystemInv, NEW c \in Conns, HandleImgMessage(c)
  PROVE  Promise!Handle(c)
<1>1. /\ UNCHANGED written
      /\ session[c] = "open" /\ Queue(c) # <<>> /\ PopMessage(c)
      /\ Oldest(c) # 0
  BY DEF HandleImgMessage, Event, clientVars
<1>2. /\ Oldest(c) = Len(handled[c])
      /\ Len(handled[c]) < written[c]
      /\ Len(handled'[c]) = Len(handled[c]) + 1
  BY <1>1, PopInOrder DEF SystemInv
<1>3. /\ handled[c] \in Seq(Nat) /\ handled' \in [Conns -> Seq(Nat)]
      /\ written[c] \in Nat
  BY <1>1, PopTyped DEF SystemInv, MessageInv, TypeOK
<1>4. Len(handled[c]) \in Nat \ {0}
  BY <1>1, <1>2, <1>3
<1>5. handled[c] # <<>> /\ handled'[c] # <<>>
  BY <1>2, <1>3, <1>4
<1>6. /\ Handled[c] = Len(handled[c]) - 1
      /\ Handled'[c] = Handled[c] + 1
      /\ Handled[c] < Made[c]
      /\ Oldest(c) = Handled[c] + 1
  BY <1>1, <1>2, <1>3, <1>4, <1>5 DEF Handled, Made
<1>7. \A d \in Conns \ {c} : handled'[d] = handled[d]
  BY <1>1 DEF PopMessage, SystemInv, MessageInv, TypeOK
<1>8. Handled' = [Handled EXCEPT ![c] = @ + 1]
  BY <1>6, <1>7 DEF Handled
<1>9. Made' = Made
  BY <1>1 DEF Made
<1> DEFINE new == [of |-> c, no |-> Handled[c] + 1]
           Filed == \E kept \in {Unharmed} \cup {Unharmed \ {i} : i \in Unharmed} :
                      Unharmed' \in {kept, kept \cup {new}}
<1>10. Filed
  <2>1. CASE UNCHANGED fileVars
    BY <2>1 DEF fileVars, Unharmed
  <2>2. ASSUME NEW whole \in BOOLEAN, SaveScreen(c, whole)
        PROVE  Filed
    <3>1. PICK f :
            /\ disk' = {g \in disk : g.path # f.path} \cup {f}
            /\ f.image.whole \in BOOLEAN
            /\ f.image.of = c /\ f.image.no = Oldest(c)
      <4>1. /\ NewFile(c, whole).path = Path(c, clock)
            /\ NewFile(c, whole).image = NewImage(c, whole)
            /\ NewImage(c, whole).of = c /\ NewImage(c, whole).no = Oldest(c)
            /\ NewImage(c, whole).whole = whole
        BY DEF NewFile, NewImage
      <4> QED
        BY <2>2, <4>1, SavedFile DEF SystemInv
    <3>2. Short(f) = new
      BY <1>6, <3>1 DEF Short
    <3>3. OnePerPath
      BY DEF SystemInv, FilesInv
    <3> HIDE DEF new
    <3> QED
      BY <3>1, <3>2, <3>3, OneLost
  <2> QED
    BY <2>1, <2>2 DEF HandleImgMessage
<1> QED
  BY <1>6, <1>8, <1>9, <1>10 DEF Promise!Handle

LEMMA PromiseStep ==
  ASSUME SystemInv, [Next]_vars
  PROVE  [Promise!Next]_abstractVars
<1>1. CASE UNCHANGED vars
  BY <1>1, QuietPromise DEF vars, clientVars, fileVars
<1>2. CASE Next
  <2> USE DEF clientVars, netVars, nameVars, fileVars, worldVars, serverVars
  <2>1. ASSUME NEW c \in Conns, Connect(c) \/ TryAuthenticate(c) \/ ClientEnds(c)
        PROVE  UNCHANGED <<written, handled, disk>>
    BY <2>1 DEF Connect, TryAuthenticate, ClientEnds, Leave
  <2>2. ASSUME NEW c \in Conns, Ask(c) \/ SendImage(c)
        PROVE  Promise!Make(c) \/ UNCHANGED abstractVars
    BY <2>2, MakePromise DEF Ask, SendImage, SystemInv
  <2>3. ASSUME NEW c \in Conns, Accept(c) \/ CloseSession(c)
        PROVE  UNCHANGED <<written, handled, disk>>
    BY <2>3 DEF Accept, CloseSession, Event
  <2>4. ASSUME NEW c \in Conns, HandleAuthRequest(c)
        PROVE  UNCHANGED abstractVars
    BY <2>4, AuthPromise DEF SystemInv
  <2>5. ASSUME NEW c \in Conns, HandleImgMessage(c)
        PROVE  Promise!Handle(c)
    BY <2>5, ImagePromise
  <2>6. ASSUME StopServer \/ StartServer \/ Tick \/ SetBack
        PROVE  UNCHANGED <<written, handled, disk>>
    BY <2>6 DEF StopServer, StartServer, Tick, SetBack
  <2>7. ASSUME Stuck PROVE UNCHANGED <<written, handled, disk>>
    BY <2>7, StuckQuiet
  <2> QED
    BY <1>2, <2>1, <2>2, <2>3, <2>4, <2>5, <2>6, <2>7, QuietPromise
       DEF Next, Serve, Stuck, Promise!Next
<1> QED
  BY <1>1, <1>2

(* Client, network, server and disk together do what Archive says: every   *)
(* image handled is the next one its client made, and saving it costs at   *)
(* most one other, whatever fails or ends.                                 *)
THEOREM SystemKeepsPromise == Spec => KeepsPromise
<1>1. Init => Promise!Init
  BY PromiseInit
<1>2. SystemInv /\ [Next]_vars => [Promise!Next]_<<Made, Handled, Unharmed>>
  BY PromiseStep DEF abstractVars
<1> QED
  BY <1>1, <1>2, SystemAlways, PTL DEF Spec, KeepsPromise, Promise!Spec
=============================================================================
