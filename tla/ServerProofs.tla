---------------------------- MODULE ServerProofs ----------------------------
(***************************************************************************)
(* Theorems about the event loop, for any set of connections, any limit on *)
(* descriptors and any batch size.                                         *)
(***************************************************************************)
EXTENDS Server, SequenceTheorems, TLAPS

-----------------------------------------------------------------------------
(* Types. *)

LEMMA AnnouncedTyped ==
  ASSUME ready \in Seq(Watch), NEW e \in Watch
  PROVE  Announced(e) \in Seq(Watch)
  BY AppendProperties DEF Announced

LEMMA SignalledTyped ==
  ASSUME TypeOK, NEW c \in Conns
  PROVE  Signalled(c) \in Seq(Watch)
<1>1. CASE \E f \in Fds : socket[f] = c
  <2>1. PICK f \in Fds : f = CHOOSE g \in Fds : socket[g] = c
    BY <1>1
  <2>2. [fd |-> f, conn |-> c] \in Watch
    BY DEF Watch
  <2> QED
    BY <1>1, <2>1, <2>2, AnnouncedTyped DEF Signalled, TypeOK
<1> QED
  BY <1>1 DEF Signalled, TypeOK

LEMMA TypeEnvironment == TypeOK /\ Environment => TypeOK'
<1> SUFFICES ASSUME TypeOK, Environment PROVE TypeOK'
  OBVIOUS
<1> USE DEF kernelVars, serverVars, peerVars
<1>1. ASSUME NEW c \in Conns, Connect(c) PROVE TypeOK'
  <2>1. Arrival \in Watch
    BY DEF Arrival, Watch
  <2>2. ready' \in Seq(Watch)
    BY <1>1, <2>1, AnnouncedTyped DEF Connect, TypeOK
  <2>3. backlog' \in Seq(Conns)
    BY <1>1, AppendProperties DEF Connect, TypeOK
  <2> QED
    BY <1>1, <2>2, <2>3 DEF Connect, TypeOK
<1>2. ASSUME NEW c \in Conns, PeerSend(c) PROVE TypeOK'
  BY <1>2, SignalledTyped DEF PeerSend, TypeOK
<1>3. ASSUME NEW c \in Conns, PeerEnd(c) PROVE TypeOK'
  BY <1>3, SignalledTyped DEF PeerEnd, TypeOK
<1>4. ASSUME NEW c \in Conns, PeerRead(c) PROVE TypeOK'
  BY <1>4, SignalledTyped DEF PeerRead, TypeOK
<1>5. CASE Interrupt
  BY <1>5 DEF Interrupt, TypeOK
<1> QED
  BY <1>1, <1>2, <1>3, <1>4, <1>5 DEF Environment

(* The head of a batch is an event, and of a client it has a descriptor.   *)
LEMMA EventTyped ==
  ASSUME TypeOK, NextEvent
  PROVE  /\ event \in Event
         /\ batch' \in Seq(Event)
         /\ event.of # Arrival => event.of.fd \in Fds /\ event.of.conn \in Conns
<1>1. event \in Event /\ batch' \in Seq(Event)
  BY HeadTailProperties, EmptySeq DEF TypeOK, NextEvent, event
<1>2. event.of \in Watch
  BY <1>1 DEF Event
<1>3. event.of # Arrival => event.of \in [fd : Fds, conn : Conns]
  BY <1>2 DEF Watch, Arrival
<1> QED
  BY <1>1, <1>3

LEMMA TypeAccept == TypeOK /\ AcceptNewConnections => TypeOK'
<1> SUFFICES ASSUME TypeOK, AcceptNewConnections PROVE TypeOK'
  OBVIOUS
<1> USE DEF kernelVars, serverVars, peerVars
<1>1. CASE AcceptOne
  <2>1. PICK f \in FreeFds :
          LET c == Head(backlog)
              e == [fd |-> f, conn |-> c]
          IN  /\ phase' = [phase EXCEPT ![c] = "open"]
              /\ socket' = [socket EXCEPT ![f] = c]
              /\ registered' = registered \cup {f}
              /\ ready' = IF c \in input \cup ended THEN Append(ready, e) ELSE ready
              /\ fd_session_ht' = Insert(f, c)
    BY <1>1 DEF AcceptOne
  <2>2. f \in Fds /\ Head(backlog) \in Conns /\ backlog' \in Seq(Conns)
    BY <1>1, HeadTailProperties, EmptySeq DEF AcceptOne, FreeFds, TypeOK
  <2>3. [fd |-> f, conn |-> Head(backlog)] \in Watch
    BY <2>2 DEF Watch
  <2>4. ready' \in Seq(Watch)
    BY <2>1, <2>3, AppendProperties DEF TypeOK
  <2> QED
    BY <1>1, <2>1, <2>2, <2>4 DEF AcceptOne, TypeOK, Insert
<1>2. CASE AcceptDropped
  <2>1. backlog' \in Seq(Conns) /\ Head(backlog) \in Conns
    BY <1>2, HeadTailProperties, EmptySeq DEF AcceptDropped, TypeOK
  <2> QED
    BY <1>2, <2>1 DEF AcceptDropped, TypeOK
<1>3. CASE AcceptError
  <2>1. Head(backlog) \in Conns /\ Tail(backlog) \in Seq(Conns)
    BY <1>3, HeadTailProperties, EmptySeq DEF AcceptError, TypeOK
  <2> QED
    BY <1>3, <2>1 DEF AcceptError, TypeOK
<1>4. CASE AcceptAgain
  BY <1>4 DEF AcceptAgain, TypeOK
<1> QED
  BY <1>1, <1>2, <1>3, <1>4 DEF AcceptNewConnections

(* What a handler leaves typed, case by case. *)
HandlerTyped ==
  /\ phase' \in [Conns -> {"idle", "queued", "open", "done"}]
  /\ input' \in SUBSET Conns /\ waiting' \in SUBSET Conns
  /\ socket' \in [Fds -> Conns \cup {NoConn}]
  /\ registered' \in SUBSET (Fds \cup {ServerFd})
  /\ ready' \in Seq(Watch)
  /\ fd_session_ht' \in [Fds -> Conns \cup {NoConn}]
  /\ pc' \in {"batch", "hung", "failed"}

LEMMA CloseTyped ==
  ASSUME TypeOK, pc = "batch", NEW f \in Fds, CloseSession(f)
  PROVE  HandlerTyped
  BY DEF HandlerTyped, CloseSession, TypeOK

LEMMA KeepTyped ==
  ASSUME TypeOK, pc = "batch", NEW f \in Fds, fd_session_ht[f] # NoConn,
         NEW outs, KeepSession(f, outs), input' \in SUBSET Conns
  PROVE  HandlerTyped
<1> DEFINE c == fd_session_ht[f]
<1>1. c \in Conns /\ [fd |-> f, conn |-> c] \in Watch
  BY DEF TypeOK, Watch
<1>2. ready' \in Seq(Watch)
  BY <1>1, AnnouncedTyped DEF KeepSession, UpdateEpollEvents, TypeOK
<1>3. waiting' \in SUBSET Conns /\ pc' \in {"batch", "failed"}
  BY <1>1 DEF KeepSession, UpdateEpollEvents, TypeOK
<1> QED
  BY <1>2, <1>3 DEF HandlerTyped, KeepSession, TypeOK

LEMMA HangTyped ==
  ASSUME TypeOK, NEW f \in Fds, fd_session_ht[f] # NoConn, HandlerHangs(f)
  PROVE  HandlerTyped
<1>1. fd_session_ht[f] \in Conns /\ [fd |-> f, conn |-> fd_session_ht[f]] \in Watch
  BY DEF TypeOK, Watch
<1>2. ready' \in Seq(Watch)
  BY <1>1, AnnouncedTyped DEF HandlerHangs, TypeOK
<1> QED
  BY <1>2 DEF HandlerTyped, HandlerHangs, TypeOK

LEMMA TypeHandle == TypeOK /\ HandleEvent => TypeOK'
<1> SUFFICES ASSUME TypeOK, HandleEvent PROVE TypeOK'
  OBVIOUS
<1> DEFINE f == event.of.fd
<1>1. f \in Fds /\ batch' \in Seq(Event) /\ pc = "batch"
  BY EventTyped DEF HandleEvent, NextEvent
<1>2. HandlerTyped
  <2>1. CASE fd_session_ht[f] = NoConn
    BY <1>1, <2>1 DEF HandleEvent, HandlerTyped, TypeOK
  <2>2. CASE fd_session_ht[f] # NoConn /\ HandleInEvent(f)
    <3>1. CASE CloseSession(f)
      BY <1>1, <3>1, CloseTyped
    <3>2. CASE KeepSession(f, InMasks(f)) /\ input' = input \ {fd_session_ht[f]}
      <4>1. input' \in SUBSET Conns
        BY <3>2 DEF TypeOK
      <4> QED
        BY <1>1, <2>2, <3>2, <4>1, KeepTyped
    <3>3. CASE HandlerHangs(f)
      BY <1>1, <2>2, <3>3, HangTyped
    <3> QED
      BY <2>2, <3>1, <3>2, <3>3 DEF HandleInEvent
  <2>3. CASE fd_session_ht[f] # NoConn /\ HandleOutEvent(f)
    <3>1. CASE CloseSession(f)
      BY <1>1, <3>1, CloseTyped
    <3>2. CASE KeepSession(f, {FALSE}) /\ UNCHANGED input
      <4>1. input' \in SUBSET Conns
        BY <3>2 DEF TypeOK
      <4> QED
        BY <1>1, <2>3, <3>2, <4>1, KeepTyped
    <3> QED
      BY <2>3, <3>1, <3>2 DEF HandleOutEvent
  <2> QED
    BY <2>1, <2>2, <2>3 DEF HandleEvent
<1>3. UNCHANGED <<ended, backlog, stop_flag, starved>>
  BY DEF HandleEvent
<1> QED
  BY <1>1, <1>2, <1>3 DEF HandlerTyped, TypeOK

LEMMA TypeCollect == TypeOK /\ Collect => TypeOK'
<1> SUFFICES ASSUME TypeOK, Collect PROVE TypeOK'
  OBVIOUS
<1>1. Head(ready) \in Watch /\ ready' \in Seq(Watch)
  BY HeadTailProperties, EmptySeq DEF Collect, Collectable, TypeOK
<1>2. EventOf(Head(ready)) \in Event
  BY <1>1 DEF EventOf, Event
<1>3. batch' \in Seq(Event)
  BY <1>2, AppendProperties DEF Collect, TypeOK
<1> QED
  BY <1>1, <1>3 DEF Collect, TypeOK, kernelVars, peerVars

LEMMA TypeNext == TypeOK /\ [Next]_vars => TypeOK'
<1> SUFFICES ASSUME TypeOK, [Next]_vars PROVE TypeOK'
  OBVIOUS
<1> USE DEF kernelVars, serverVars, peerVars
<1>1. CASE CheckStop
  BY <1>1 DEF CheckStop, TypeOK
<1>2. CASE EnterWait
  BY <1>2 DEF EnterWait, TypeOK
<1>3. CASE WakeUp
  BY <1>3 DEF WakeUp, TypeOK
<1>4. CASE BatchDone
  BY <1>4 DEF BatchDone, TypeOK
<1>5. CASE StartAccept
  BY <1>5, EventTyped DEF StartAccept, TypeOK
<1>6. CASE UNCHANGED vars
  BY <1>6 DEF vars, TypeOK
<1> QED
  BY <1>1, <1>2, <1>3, <1>4, <1>5, <1>6, TypeEnvironment, TypeAccept, TypeHandle,
     TypeCollect
  DEF Next, Loop

LEMMA TypeInit == Init => TypeOK
  BY ServerAssumption, EmptySeq DEF Init, TypeOK

(* Every variable keeps its type: in particular the table never holds a    *)
(* session without a connection (server.cc).                               *)
THEOREM LoopTyped == Spec => []TypeOK
  BY TypeInit, TypeNext, PTL DEF Spec

-----------------------------------------------------------------------------
(* Sequences used as queues. *)

LEMMA TailElements ==
  ASSUME NEW S, NEW s \in Seq(S), s # <<>>
  PROVE  /\ 1 \in DOMAIN s /\ Head(s) = s[1] /\ Tail(s) \in Seq(S)
         /\ \A i \in DOMAIN Tail(s) :
              i + 1 \in DOMAIN s /\ Tail(s)[i] = s[i + 1] /\ i \in Nat \ {0}
         /\ \A i \in DOMAIN s : i = 1 \/ i - 1 \in DOMAIN Tail(s)
<1>1. Len(s) \in Nat \ {0} /\ DOMAIN s = 1 .. Len(s)
  BY EmptySeq, LenProperties
<1>2. /\ Head(s) = s[1] /\ Tail(s) \in Seq(S)
      /\ Len(Tail(s)) = Len(s) - 1
      /\ \A i \in 1 .. Len(Tail(s)) : Tail(s)[i] = s[i + 1]
  BY HeadTailProperties
<1>3. DOMAIN Tail(s) = 1 .. Len(s) - 1
  BY <1>2, LenProperties
<1> QED
  BY <1>1, <1>2, <1>3

LEMMA AppendElements ==
  ASSUME NEW S, NEW s \in Seq(S), NEW x \in S
  PROVE  \A i \in DOMAIN Append(s, x) :
           \/ i \in DOMAIN s /\ Append(s, x)[i] = s[i]
           \/ i = Len(s) + 1 /\ i \notin DOMAIN s /\ Append(s, x)[i] = x
<1>1. /\ Append(s, x) \in Seq(S) /\ Len(Append(s, x)) = Len(s) + 1
      /\ \A i \in 1 .. Len(s) : Append(s, x)[i] = s[i]
      /\ Append(s, x)[Len(s) + 1] = x
  BY AppendProperties
<1>2. DOMAIN s = 1 .. Len(s) /\ DOMAIN Append(s, x) = 1 .. Len(s) + 1 /\ Len(s) \in Nat
  BY <1>1, LenProperties
<1> QED
  BY <1>1, <1>2

LEMMA InAppend ==
  ASSUME NEW S, NEW s \in Seq(S), NEW x \in S, NEW e
  PROVE  In(e, Append(s, x)) <=> In(e, s) \/ e = x
<1>1. /\ Len(Append(s, x)) = Len(s) + 1 /\ Append(s, x) \in Seq(S)
      /\ \A i \in 1 .. Len(s) : Append(s, x)[i] = s[i]
      /\ Append(s, x)[Len(s) + 1] = x
  BY AppendProperties
<1>2. DOMAIN s = 1 .. Len(s) /\ DOMAIN Append(s, x) = 1 .. Len(s) + 1 /\ Len(s) \in Nat
  BY <1>1, LenProperties
<1> QED
  BY <1>1, <1>2 DEF In

LEMMA InTail ==
  ASSUME NEW S, NEW s \in Seq(S), s # <<>>, NEW e
  PROVE  In(e, s) <=> In(e, Tail(s)) \/ e = Head(s)
<1>1. In(e, s) => In(e, Tail(s)) \/ e = Head(s)
  <2> SUFFICES ASSUME In(e, s), e # Head(s) PROVE In(e, Tail(s))
    OBVIOUS
  <2>1. PICK i \in DOMAIN s : s[i] = e
    BY DEF In
  <2>2. i - 1 \in DOMAIN Tail(s)
    BY <2>1, TailElements
  <2>3. Tail(s)[i - 1] = s[(i - 1) + 1] /\ i - 1 \in Nat
    BY <2>2, TailElements
  <2>4. i \in Int
    BY <2>1, LenProperties
  <2>5. (i - 1) + 1 = i
    BY <2>4
  <2> QED
    BY <2>1, <2>2, <2>3, <2>5 DEF In
<1>2. In(e, Tail(s)) \/ e = Head(s) => In(e, s)
  BY TailElements DEF In
<1> QED
  BY <1>1, <1>2

-----------------------------------------------------------------------------
(* The table, the descriptors and the batch. *)

(* What waits in the backlog waits once, and has no descriptor yet. *)
Queued ==
  /\ \A i \in DOMAIN backlog : phase[backlog[i]] = "queued"
  /\ \A i, j \in DOMAIN backlog : backlog[i] = backlog[j] => i = j

(* A batch names a descriptor once, so closing it leaves no event of it.   *)
OneEach == \A i, j \in DOMAIN batch : batch[i].of = batch[j].of => i = j

TableInv ==
  /\ TableMatchesDescriptors
  /\ Queued
  /\ NoStaleEvent
  /\ OneEach
  /\ LoopSurvives

LEMMA TableInit == Init => TableInv
  BY EmptySeq, ServerAssumption
  DEF Init, TableInv, TableMatchesDescriptors, Queued, NoStaleEvent, OneEach,
      LoopSurvives

LEMMA TableKept ==
  ASSUME TableInv, pc' # "failed",
         UNCHANGED <<phase, backlog, socket, registered, fd_session_ht, batch>>
  PROVE  TableInv'
  BY DEF TableInv, TableMatchesDescriptors, Queued, NoStaleEvent, OneEach,
         LoopSurvives

LEMMA TableConnect ==
  ASSUME TypeOK, TableInv, NEW c \in Conns, Connect(c)
  PROVE  TableInv'
<1>1. /\ phase[c] = "idle" /\ phase' = [phase EXCEPT ![c] = "queued"]
      /\ backlog' = Append(backlog, c)
      /\ UNCHANGED <<socket, registered, fd_session_ht, batch, pc>>
  BY DEF Connect, serverVars
<1>2. phase \in [Conns -> {"idle", "queued", "open", "done"}] /\ backlog \in Seq(Conns)
  BY DEF TypeOK
<1>3. TableMatchesDescriptors'
  BY <1>1, <1>2 DEF TableInv, TableMatchesDescriptors
<1>4. \A i \in DOMAIN backlog : backlog[i] \in Conns /\ backlog[i] # c
  BY <1>1, <1>2, ElementOfSeq, LenProperties DEF TableInv, Queued
<1>5. \A i \in DOMAIN backlog' :
        \/ i \in DOMAIN backlog /\ backlog'[i] = backlog[i]
        \/ i = Len(backlog) + 1 /\ backlog'[i] = c
  BY <1>1, <1>2, AppendElements
<1>6. Queued'
  BY <1>1, <1>2, <1>4, <1>5 DEF TableInv, Queued
<1> QED
  BY <1>1, <1>3, <1>6 DEF TableInv, NoStaleEvent, OneEach, LoopSurvives

LEMMA TableAcceptOne ==
  ASSUME TypeOK, TableInv, AcceptOne
  PROVE  TableInv'
<1> DEFINE c == Head(backlog)
<1>1. PICK f \in FreeFds :
        /\ phase' = [phase EXCEPT ![c] = "open"]
        /\ socket' = [socket EXCEPT ![f] = c]
        /\ registered' = registered \cup {f}
        /\ fd_session_ht' = Insert(f, c)
  BY DEF AcceptOne
<1>2. backlog # <<>> /\ backlog' = Tail(backlog) /\ UNCHANGED <<batch, pc>>
  BY DEF AcceptOne
<1>3. /\ phase \in [Conns -> {"idle", "queued", "open", "done"}]
      /\ backlog \in Seq(Conns)
      /\ socket \in [Fds -> Conns \cup {NoConn}]
      /\ fd_session_ht \in [Fds -> Conns \cup {NoConn}]
      /\ f \in Fds /\ socket[f] = NoConn
  BY DEF TypeOK, FreeFds
<1>4. c \in Conns /\ c = backlog[1] /\ 1 \in DOMAIN backlog
  BY <1>2, <1>3, TailElements, ElementOfSeq, LenProperties
<1>5. phase[c] = "queued" /\ \A g \in Fds : socket[g] # c
  BY <1>3, <1>4 DEF TableInv, Queued, TableMatchesDescriptors
<1>6. TableMatchesDescriptors'
  BY <1>1, <1>3, <1>4, <1>5, ServerAssumption
  DEF TableInv, TableMatchesDescriptors, Insert
<1>7. Queued'
  <2>1. \A i \in DOMAIN backlog' :
          /\ i + 1 \in DOMAIN backlog /\ backlog'[i] = backlog[i + 1]
          /\ i \in Nat \ {0}
    BY <1>2, <1>3, TailElements
  <2>2. \A i \in DOMAIN backlog' : backlog'[i] # c /\ backlog'[i] \in Conns
    BY <1>3, <1>4, <2>1, ElementOfSeq, LenProperties DEF TableInv, Queued
  <2> QED
    BY <1>1, <1>3, <2>1, <2>2 DEF TableInv, Queued
<1>8. NoStaleEvent'
  <2> SUFFICES ASSUME NEW i \in DOMAIN batch, batch[i].of # Arrival
               PROVE  fd_session_ht'[batch[i].of.fd] = batch[i].of.conn
    BY <1>2 DEF NoStaleEvent
  <2>1. batch[i].of \in Watch
    <3>1. batch \in Seq(Event)
      BY DEF TypeOK
    <3>2. batch[i] \in Event
      BY <3>1, ElementOfSeq, LenProperties
    <3> QED
      BY <3>2 DEF Event
  <2>2. batch[i].of.fd \in Fds /\ batch[i].of.conn \in Conns
    BY <2>1 DEF Watch, Arrival
  <2>3. fd_session_ht[batch[i].of.fd] = batch[i].of.conn
    BY DEF TableInv, NoStaleEvent
  <2>4. batch[i].of.fd # f
    BY <1>3, <2>2, <2>3, ServerAssumption DEF TableInv, TableMatchesDescriptors
  <2> QED
    BY <1>1, <1>3, <2>2, <2>3, <2>4 DEF Insert
<1> QED
  BY <1>2, <1>6, <1>7, <1>8 DEF TableInv, OneEach, LoopSurvives

(* The first of the backlog goes without having had a descriptor. *)
LEMMA TableForgotten ==
  ASSUME TypeOK, TableInv, backlog # <<>>, pc' # "failed",
         phase' = [phase EXCEPT ![Head(backlog)] = "done"],
         backlog' = Tail(backlog),
         UNCHANGED <<socket, registered, fd_session_ht, batch>>
  PROVE  TableInv'
<1> DEFINE c == Head(backlog)
<1>1. /\ phase' = [phase EXCEPT ![c] = "done"] /\ backlog # <<>>
      /\ backlog' = Tail(backlog)
      /\ UNCHANGED <<socket, registered, fd_session_ht, batch>>
  OBVIOUS
<1>2. /\ phase \in [Conns -> {"idle", "queued", "open", "done"}]
      /\ backlog \in Seq(Conns)
  BY DEF TypeOK
<1>3. c \in Conns /\ c = backlog[1] /\ 1 \in DOMAIN backlog
  BY <1>1, <1>2, TailElements, ElementOfSeq, LenProperties
<1>4. phase[c] = "queued"
  BY <1>3 DEF TableInv, Queued
<1>5. TableMatchesDescriptors'
  BY <1>1, <1>2, <1>3, <1>4 DEF TableInv, TableMatchesDescriptors
<1>6. \A i \in DOMAIN backlog' :
        /\ i + 1 \in DOMAIN backlog /\ backlog'[i] = backlog[i + 1]
        /\ i \in Nat \ {0}
  BY <1>1, <1>2, TailElements
<1>7. \A i \in DOMAIN backlog' : backlog'[i] # c /\ backlog'[i] \in Conns
  BY <1>2, <1>3, <1>6, ElementOfSeq, LenProperties DEF TableInv, Queued
<1>8. Queued'
  BY <1>1, <1>2, <1>6, <1>7 DEF TableInv, Queued
<1> QED
  BY <1>1, <1>5, <1>8 DEF TableInv, NoStaleEvent, OneEach, LoopSurvives

LEMMA TableAcceptDropped ==
  ASSUME TypeOK, TableInv, AcceptDropped
  PROVE  TableInv'
<1>1. /\ phase' = [phase EXCEPT ![Head(backlog)] = "done"] /\ backlog # <<>>
      /\ backlog' = Tail(backlog) /\ pc' = "accept"
      /\ UNCHANGED <<socket, registered, fd_session_ht, batch>>
  BY DEF AcceptDropped, serverVars
<1> QED
  BY <1>1, TableForgotten

LEMMA TableAcceptError ==
  ASSUME TypeOK, TableInv, AcceptError
  PROVE  TableInv'
<1>1. /\ pc' = "batch" /\ backlog # <<>>
      /\ UNCHANGED <<socket, registered, fd_session_ht, batch>>
  BY DEF AcceptError
<1>2. CASE UNCHANGED <<phase, backlog>>
  BY <1>1, <1>2, TableKept
<1>3. CASE /\ phase' = [phase EXCEPT ![Head(backlog)] = "done"]
           /\ backlog' = Tail(backlog)
  BY <1>1, <1>3, TableForgotten
<1> QED
  BY <1>2, <1>3 DEF AcceptError

LEMMA TableCollect ==
  ASSUME TypeOK, TableInv, Collect
  PROVE  TableInv'
<1> DEFINE e == Head(ready)
<1>1. /\ UNCHANGED <<phase, backlog, socket, registered, fd_session_ht, pc>>
      /\ ~Returned(e) /\ ready # <<>>
      /\ batch' = IF Pollable(e) THEN Append(batch, EventOf(e)) ELSE batch
  BY DEF Collect, Collectable, peerVars, kernelVars
<1>2. CASE ~Pollable(e)
  BY <1>1, <1>2, TableKept DEF TableInv, LoopSurvives
<1>3. CASE Pollable(e)
  <2>1. e \in Watch /\ EventOf(e) \in Event /\ EventOf(e).of = e /\ batch \in Seq(Event)
    BY <1>1, HeadTailProperties, EmptySeq DEF TypeOK, EventOf, Event
  <2>2. \A i \in DOMAIN batch' :
          \/ i \in DOMAIN batch /\ batch'[i] = batch[i]
          \/ i = Len(batch) + 1 /\ batch'[i] = EventOf(e)
    BY <1>1, <1>3, <2>1, AppendElements
  <2>3. e # Arrival => fd_session_ht[e.fd] = e.conn
    BY <1>3 DEF Pollable, TableInv, TableMatchesDescriptors
  <2>4. NoStaleEvent'
    BY <1>1, <2>1, <2>2, <2>3 DEF TableInv, NoStaleEvent
  <2>5. OneEach'
    BY <1>1, <2>1, <2>2 DEF TableInv, OneEach, Returned
  <2> QED
    BY <1>1, <2>4, <2>5 DEF TableInv, TableMatchesDescriptors, Queued, LoopSurvives
<1> QED
  BY <1>2, <1>3

(* What is left of a batch once its first event is taken: events of other  *)
(* descriptors, each with the session it is about.                         *)
LEMMA BatchRest ==
  ASSUME TypeOK, TableInv, NextEvent
  PROVE  /\ OneEach'
         /\ event.of # Arrival => fd_session_ht[event.of.fd] = event.of.conn
         /\ \A i \in DOMAIN batch' :
              batch'[i].of # Arrival =>
                /\ batch'[i].of.fd \in Fds
                /\ fd_session_ht[batch'[i].of.fd] = batch'[i].of.conn
                /\ event.of # Arrival => batch'[i].of.fd # event.of.fd
<1>1. batch \in Seq(Event) /\ batch # <<>> /\ batch' = Tail(batch)
  BY DEF TypeOK, NextEvent
<1>2. /\ 1 \in DOMAIN batch /\ event = batch[1]
      /\ \A i \in DOMAIN batch' :
           i + 1 \in DOMAIN batch /\ batch'[i] = batch[i + 1] /\ i \in Nat \ {0}
  BY <1>1, TailElements DEF event
<1>3. OneEach'
  BY <1>2 DEF TableInv, OneEach
<1>4. event.of # Arrival => fd_session_ht[event.of.fd] = event.of.conn
  BY <1>2 DEF TableInv, NoStaleEvent
<1>5. ASSUME NEW i \in DOMAIN batch', batch'[i].of # Arrival
      PROVE  /\ batch'[i].of.fd \in Fds
             /\ fd_session_ht[batch'[i].of.fd] = batch'[i].of.conn
             /\ event.of # Arrival => batch'[i].of.fd # event.of.fd
  <2>1. /\ i + 1 \in DOMAIN batch /\ batch'[i] = batch[i + 1] /\ i + 1 # 1
    BY <1>2, <1>5
  <2>2. batch'[i].of \in [fd : Fds, conn : Conns]
    <3>1. batch[i + 1] \in Event
      BY <1>1, <2>1, ElementOfSeq, LenProperties
    <3> QED
      BY <1>5, <2>1, <3>1 DEF Event, Watch, Arrival
  <2>3. fd_session_ht[batch'[i].of.fd] = batch'[i].of.conn
    BY <1>5, <2>1 DEF TableInv, NoStaleEvent
  <2>4. batch'[i].of # event.of
    BY <1>2, <2>1 DEF TableInv, OneEach
  <2>5. ASSUME event.of # Arrival PROVE batch'[i].of.fd # event.of.fd
    <3>1. event.of \in [fd : Fds, conn : Conns]
      BY <2>5, EventTyped DEF Event, Watch, Arrival
    <3> QED
      BY <1>4, <2>2, <2>3, <2>4, <2>5, <3>1
  <2> QED
    BY <2>2, <2>3, <2>5
<1> QED
  BY <1>3, <1>4, <1>5

LEMMA TableClose ==
  ASSUME TypeOK, TableInv, NextEvent, event.of # Arrival,
         CloseSession(event.of.fd), fd_session_ht[event.of.fd] # NoConn,
         UNCHANGED backlog
  PROVE  TableInv'
<1> DEFINE f == event.of.fd
           c == fd_session_ht[f]
<1>1. f \in Fds
  BY EventTyped
<1>2. /\ phase \in [Conns -> {"idle", "queued", "open", "done"}]
      /\ backlog \in Seq(Conns)
      /\ socket \in [Fds -> Conns \cup {NoConn}]
      /\ fd_session_ht \in [Fds -> Conns \cup {NoConn}]
      /\ c \in Conns
  BY <1>1 DEF TypeOK
<1>3. /\ registered' = registered \ {f}
      /\ fd_session_ht' = [fd_session_ht EXCEPT ![f] = NoConn]
      /\ phase' = [phase EXCEPT ![c] = "done"]
      /\ socket' = [socket EXCEPT ![f] = NoConn]
      /\ pc' = pc
  BY DEF CloseSession
<1>4. phase[c] = "open" /\ socket[f] = c
  BY <1>1, <1>2 DEF TableInv, TableMatchesDescriptors
<1>5. TableMatchesDescriptors'
  <2> USE DEF TableInv, TableMatchesDescriptors
  <2>1. fd_session_ht' = socket'
    BY <1>3
  <2>2. registered' = {ServerFd} \cup {g \in Fds : socket'[g] # NoConn}
    BY <1>1, <1>2, <1>3, ServerAssumption
  <2>3. \A d \in Conns : phase'[d] = "open" <=> \E g \in Fds : socket'[g] = d
    <3>1. TAKE d \in Conns
    <3>2. d # NoConn /\ c # NoConn
      BY <1>2, ServerAssumption
    <3>3. CASE d = c
      <4>1. phase'[d] # "open"
        BY <1>2, <1>3, <3>3
      <4>2. \A g \in Fds : socket'[g] # d
        BY <1>1, <1>2, <1>3, <1>4, <3>2, <3>3
      <4> QED
        BY <4>1, <4>2
    <3>4. CASE d # c
      <4>1. phase'[d] = phase[d]
        BY <1>2, <1>3, <3>4
      <4>2. \A g \in Fds : socket'[g] = d <=> socket[g] = d
        BY <1>1, <1>2, <1>3, <1>4, <3>2, <3>4
      <4> QED
        BY <4>1, <4>2
    <3> QED
      BY <3>3, <3>4
  <2>4. \A g, h \in Fds : socket'[g] = socket'[h] /\ socket'[g] # NoConn => g = h
    BY <1>1, <1>2, <1>3
  <2> QED
    BY <2>1, <2>2, <2>3, <2>4
<1>6. Queued'
  <2>1. \A i \in DOMAIN backlog : backlog[i] \in Conns /\ backlog[i] # c
    BY <1>2, <1>4, ElementOfSeq, LenProperties DEF TableInv, Queued
  <2> QED
    BY <1>2, <1>3, <2>1 DEF TableInv, Queued
<1>7. NoStaleEvent'
  BY <1>2, <1>3, BatchRest DEF NoStaleEvent
<1> QED
  BY <1>3, <1>5, <1>6, <1>7, BatchRest DEF TableInv, LoopSurvives

LEMMA TableKeep ==
  ASSUME TypeOK, TableInv, NextEvent, event.of # Arrival,
         NEW outs, KeepSession(event.of.fd, outs),
         fd_session_ht[event.of.fd] # NoConn, UNCHANGED backlog
  PROVE  TableInv'
<1> DEFINE f == event.of.fd
<1>1. f \in registered
  BY EventTyped DEF TableInv, TableMatchesDescriptors
<1>2. UNCHANGED <<phase, socket, registered, fd_session_ht, pc>>
  BY <1>1 DEF KeepSession, UpdateEpollEvents
<1>3. NoStaleEvent'
  BY <1>2, BatchRest DEF NoStaleEvent
<1> QED
  BY <1>2, <1>3, BatchRest
  DEF TableInv, TableMatchesDescriptors, Queued, LoopSurvives

LEMMA TableHangs ==
  ASSUME TypeOK, TableInv, NextEvent, event.of # Arrival,
         HandlerHangs(event.of.fd), UNCHANGED backlog
  PROVE  TableInv'
<1>1. UNCHANGED <<phase, socket, registered, fd_session_ht>> /\ pc' = "hung"
  BY DEF HandlerHangs
<1>2. NoStaleEvent'
  BY <1>1, BatchRest DEF NoStaleEvent
<1> QED
  BY <1>1, <1>2, BatchRest
  DEF TableInv, TableMatchesDescriptors, Queued, LoopSurvives

LEMMA TableHandle ==
  ASSUME TypeOK, TableInv, HandleEvent
  PROVE  TableInv'
<1> DEFINE f == event.of.fd
<1>1. NextEvent /\ event.of # Arrival /\ UNCHANGED backlog
  BY DEF HandleEvent
<1>2. CASE fd_session_ht[f] = NoConn
  <2>1. FALSE
    BY <1>1, <1>2, BatchRest, EventTyped, ServerAssumption
  <2> QED
    BY <2>1
<1>3. CASE fd_session_ht[f] # NoConn /\ HandleInEvent(f)
  BY <1>1, <1>3, TableClose, TableKeep, TableHangs DEF HandleInEvent
<1>4. CASE fd_session_ht[f] # NoConn /\ HandleOutEvent(f)
  BY <1>1, <1>4, TableClose, TableKeep DEF HandleOutEvent
<1> QED
  BY <1>2, <1>3, <1>4 DEF HandleEvent

LEMMA TableNext == TypeOK /\ TableInv /\ [Next]_vars => TableInv'
<1> SUFFICES ASSUME TypeOK, TableInv, [Next]_vars PROVE TableInv'
  OBVIOUS
<1> USE DEF kernelVars, serverVars, peerVars
<1>1. ASSUME NEW c \in Conns, PeerSend(c) \/ PeerEnd(c) \/ PeerRead(c)
      PROVE  TableInv'
  BY <1>1, TableKept DEF PeerSend, PeerEnd, PeerRead, TableInv, LoopSurvives
<1>2. CASE Interrupt
  BY <1>2, TableKept DEF Interrupt, TableInv, LoopSurvives
<1>3. CASE CheckStop \/ EnterWait \/ WakeUp \/ BatchDone
  BY <1>3, TableKept DEF CheckStop, EnterWait, WakeUp, BatchDone
<1>4. CASE StartAccept
  <2>1. NoStaleEvent'
    BY <1>4, BatchRest DEF StartAccept, NoStaleEvent
  <2> QED
    BY <1>4, <2>1, BatchRest
    DEF StartAccept, TableInv, TableMatchesDescriptors, Queued, LoopSurvives
<1>5. CASE AcceptAgain
  BY <1>5, TableKept DEF AcceptAgain
<1>6. CASE UNCHANGED vars
  BY <1>6, TableKept DEF vars, TableInv, LoopSurvives
<1> QED
  BY <1>1, <1>2, <1>3, <1>4, <1>5, <1>6, TableConnect, TableAcceptOne,
     TableAcceptDropped, TableAcceptError, TableCollect, TableHandle
  DEF Next, Environment, Loop, AcceptNewConnections

LEMMA TableAlways == Spec => [](TypeOK /\ TableInv)
<1>1. Init => TypeOK /\ TableInv
  BY TypeInit, TableInit
<1>2. TypeOK /\ TableInv /\ [Next]_vars => (TypeOK /\ TableInv)'
  BY TypeNext, TableNext
<1> QED
  BY <1>1, <1>2, PTL DEF Spec

(* The session table, epoll's set and the open descriptors always agree,   *)
(* so no path of accepting or closing leaks or confuses one                *)
(* (server.cc:80-142).                                                     *)
THEOREM DescriptorsOwned == Spec => []TableMatchesDescriptors
<1>1. TypeOK /\ TableInv => TableMatchesDescriptors
  BY DEF TableInv
<1> QED
  BY <1>1, TableAlways, PTL

(* No event is handed to another connection than the one it is about, with *)
(* descriptors reused within a batch or not (server.cc:198-258).           *)
THEOREM EventsFresh == Spec => []NoStaleEvent
<1>1. TypeOK /\ TableInv => NoStaleEvent
  BY DEF TableInv
<1> QED
  BY <1>1, TableAlways, PTL

(* EPOLL_CTL_MOD is only asked for a descriptor epoll watches, so its      *)
(* exception never ends the loop (server.cc:144-152).                      *)
THEOREM LoopNeverThrows == Spec => []LoopSurvives
<1>1. TypeOK /\ TableInv => LoopSurvives
  BY DEF TableInv
<1> QED
  BY <1>1, TableAlways, PTL

-----------------------------------------------------------------------------
(* Edges. *)

(* Only epoll_wait takes anything out of the ready list. *)
ReadyGrows == \A e \in Watch : In(e, ready) => In(e, ready')

LEMMA AnnouncedGrows ==
  ASSUME TypeOK, NEW x \in Watch, NEW e \in Watch
  PROVE  /\ In(e, ready) => In(e, Announced(x))
         /\ x.fd \in registered => In(x, Announced(x))
<1>1. ready \in Seq(Watch)
  BY DEF TypeOK
<1>2. In(e, Append(ready, x)) <=> In(e, ready) \/ e = x
  BY <1>1, InAppend
<1>3. In(x, Append(ready, x))
  BY <1>1, InAppend
<1> QED
  BY <1>2, <1>3 DEF Announced

LEMMA SignalledGrows ==
  ASSUME TypeOK, TableInv, NEW c \in Conns
  PROVE  /\ \A e \in Watch : In(e, ready) => In(e, Signalled(c))
         /\ \A f \in Fds : socket[f] = c => In([fd |-> f, conn |-> c], Signalled(c))
<1>1. CASE \E f \in Fds : socket[f] = c
  <2>1. PICK f \in Fds : f = (CHOOSE g \in Fds : socket[g] = c) /\ socket[f] = c
    BY <1>1
  <2>2. [fd |-> f, conn |-> c] \in Watch
    BY DEF Watch
  <2>3. Signalled(c) = Announced([fd |-> f, conn |-> c])
    BY <1>1, <2>1 DEF Signalled
  <2>4. c # NoConn
    BY ServerAssumption
  <2>5. f \in registered /\ \A g \in Fds : socket[g] = c => g = f
    BY <2>1, <2>4 DEF TableInv, TableMatchesDescriptors
  <2>6. \A e \in Watch : In(e, ready) => In(e, Signalled(c))
    BY <2>2, <2>3, AnnouncedGrows
  <2>7. In([fd |-> f, conn |-> c], Signalled(c))
    BY <2>2, <2>3, <2>5, AnnouncedGrows
  <2> QED
    BY <2>5, <2>6, <2>7
<1>2. CASE ~\E f \in Fds : socket[f] = c
  BY <1>2 DEF Signalled
<1> QED
  BY <1>1, <1>2

(* The descriptor of an open connection as epoll knows it. *)
LEMMA WatchOf ==
  ASSUME TypeOK, NEW f \in Fds, socket[f] # NoConn
  PROVE  /\ [fd |-> f, conn |-> socket[f]] \in Watch
         /\ [fd |-> f, conn |-> socket[f]] # Arrival
<1>1. socket[f] \in Conns /\ f # ServerFd
  BY ServerAssumption DEF TypeOK
<1> QED
  BY <1>1 DEF Watch, Arrival

AnnounceInv == InputAnnounced /\ BacklogAnnounced

LEMMA AnnounceInit == Init => AnnounceInv
  BY DEF Init, AnnounceInv, InputAnnounced, BacklogAnnounced

LEMMA AnnounceKept ==
  ASSUME TypeOK, AnnounceInv, ReadyGrows, pc = "accept" => pc' = "accept",
         UNCHANGED <<input, ended, backlog, socket, batch, starved>>
  PROVE  AnnounceInv'
<1>1. Arrival \in Watch
  BY DEF Arrival, Watch
<1>2. InputAnnounced'
  BY WatchOf DEF AnnounceInv, InputAnnounced, ReadyGrows, ReturnedIn
<1>3. BacklogAnnounced'
  BY <1>1 DEF AnnounceInv, BacklogAnnounced, ReadyGrows, Returned
<1> QED
  BY <1>2, <1>3 DEF AnnounceInv

LEMMA AnnounceConnect ==
  ASSUME TypeOK, TableInv, AnnounceInv, NEW c \in Conns, Connect(c)
  PROVE  AnnounceInv'
<1>1. Arrival \in Watch /\ Arrival.fd = ServerFd
  BY DEF Arrival, Watch
<1>2. /\ ready' = Announced(Arrival)
      /\ UNCHANGED <<input, ended, socket, batch>>
  BY DEF Connect, serverVars
<1>3. ReadyGrows
  BY <1>1, <1>2, AnnouncedGrows DEF ReadyGrows
<1>4. InputAnnounced'
  BY <1>2, <1>3, WatchOf DEF AnnounceInv, InputAnnounced, ReadyGrows, ReturnedIn
<1>5. ServerFd \in registered
  BY DEF TableInv, TableMatchesDescriptors
<1>6. In(Arrival, ready')
  BY <1>1, <1>2, <1>5, AnnouncedGrows
<1> QED
  BY <1>4, <1>6 DEF AnnounceInv, BacklogAnnounced

LEMMA AnnouncePeer ==
  ASSUME TypeOK, TableInv, AnnounceInv, NEW c \in Conns,
         ready' = Signalled(c),
         input' \cup ended' \subseteq input \cup ended \cup {c},
         UNCHANGED <<backlog, socket, batch, pc, starved>>
  PROVE  AnnounceInv'
<1>1. ReadyGrows
  BY SignalledGrows DEF ReadyGrows
<1>2. ASSUME NEW f \in Fds, socket[f] # NoConn, socket[f] \in input' \cup ended'
      PROVE  LET e == [fd |-> f, conn |-> socket[f]]
             IN  In(e, ready') \/ ReturnedIn(e)
  <2>1. CASE socket[f] = c
    BY <2>1, SignalledGrows
  <2>2. CASE socket[f] # c
    <3>1. socket[f] \in input \cup ended
      BY <1>2, <2>2
    <3> QED
      BY <1>1, <1>2, <3>1, WatchOf DEF AnnounceInv, InputAnnounced, ReadyGrows
  <2> QED
    BY <2>1, <2>2
<1>3. InputAnnounced'
  BY <1>2 DEF InputAnnounced, ReturnedIn
<1>4. Arrival \in Watch
  BY DEF Arrival, Watch
<1>5. BacklogAnnounced'
  BY <1>1, <1>4 DEF AnnounceInv, BacklogAnnounced, ReadyGrows, Returned
<1> QED
  BY <1>3, <1>5 DEF AnnounceInv

LEMMA AnnounceCollect ==
  ASSUME TypeOK, TableInv, AnnounceInv, Collect
  PROVE  AnnounceInv'
<1> DEFINE h == Head(ready)
<1>1. /\ ready # <<>> /\ ready' = Tail(ready) /\ ready \in Seq(Watch)
      /\ batch' = IF Pollable(h) THEN Append(batch, EventOf(h)) ELSE batch
      /\ UNCHANGED <<input, ended, backlog, socket, pc, starved>>
      /\ pc = "wait"
  BY DEF Collect, Collectable, TypeOK, peerVars, kernelVars
<1>2. h \in Watch /\ EventOf(h) \in Event /\ batch \in Seq(Event)
  BY <1>1, HeadTailProperties, EmptySeq DEF TypeOK, EventOf, Event
<1>3. \A e : In(e, ready) => In(e, ready') \/ e = h
  BY <1>1, InTail
<1>4. \A e : In(e, batch') <=> In(e, batch) \/ (Pollable(h) /\ e = EventOf(h))
  BY <1>1, <1>2, InAppend
<1>5. InputAnnounced'
  <2> SUFFICES ASSUME NEW f \in Fds, socket[f] # NoConn, socket[f] \in input \cup ended
               PROVE  \/ In([fd |-> f, conn |-> socket[f]], ready')
                      \/ In([of |-> [fd |-> f, conn |-> socket[f]], in |-> TRUE], batch')
    BY <1>1 DEF InputAnnounced, ReturnedIn
  <2>1. PICK e \in Watch : e = [fd |-> f, conn |-> socket[f]] /\ e # Arrival
    BY WatchOf
  <2>2. In(e, ready) \/ In([of |-> e, in |-> TRUE], batch)
    BY <2>1 DEF AnnounceInv, InputAnnounced, ReturnedIn
  <2>3. CASE e = h
    <3>1. Pollable(h) /\ EventOf(h) = [of |-> e, in |-> TRUE]
      <4>1. e.fd = f /\ e.conn = socket[f] /\ e.conn \in input \cup ended
        BY <2>1
      <4>2. Pollable(e)
        BY <2>1, <4>1 DEF Pollable
      <4>3. (e = Arrival \/ e.conn \in input \cup ended) = TRUE
        BY <4>1
      <4>4. EventOf(e) = [of |-> e, in |-> TRUE]
        BY <4>3 DEF EventOf
      <4> QED
        BY <2>3, <4>2, <4>4
    <3> QED
      BY <1>4, <2>1, <3>1
  <2> QED
    BY <1>3, <1>4, <2>1, <2>2, <2>3
<1>6. BacklogAnnounced'
  <2> SUFFICES ASSUME backlog # <<>>, ~starved
               PROVE  In(Arrival, ready') \/ Returned(Arrival)'
    BY <1>1 DEF BacklogAnnounced
  <2>1. In(Arrival, ready) \/ Returned(Arrival)
    BY <1>1 DEF AnnounceInv, BacklogAnnounced
  <2>2. CASE h = Arrival
    <3>1. In(EventOf(h), batch') /\ EventOf(h).of = Arrival
      BY <1>4, <2>2 DEF Pollable, EventOf
    <3> QED
      BY <3>1 DEF In, Returned
  <2>3. CASE Returned(Arrival)
    <3>1. PICK i \in DOMAIN batch : batch[i].of = Arrival
      BY <2>3 DEF Returned
    <3>2. In(batch[i], batch')
      BY <1>4 DEF In
    <3> QED
      BY <3>1, <3>2 DEF In, Returned
  <2> QED
    BY <1>3, <2>1, <2>2, <2>3
<1> QED
  BY <1>5, <1>6 DEF AnnounceInv

(* Taking the first event of a batch keeps the others. *)
LEMMA BatchKeeps ==
  ASSUME TypeOK, NextEvent
  PROVE  /\ \A e : In(e, batch) => In(e, batch') \/ e = event
         /\ event.of # Arrival => (Returned(Arrival) => Returned(Arrival)')
<1>1. batch \in Seq(Event) /\ batch # <<>> /\ batch' = Tail(batch) /\ event = Head(batch)
  BY DEF TypeOK, NextEvent, event
<1>2. \A e : In(e, batch) => In(e, batch') \/ e = event
  BY <1>1, InTail
<1>3. ASSUME event.of # Arrival, Returned(Arrival) PROVE Returned(Arrival)'
  <2>1. PICK i \in DOMAIN batch : batch[i].of = Arrival
    BY <1>3 DEF Returned
  <2>2. In(batch[i], batch')
    BY <1>2, <1>3, <2>1 DEF In
  <2> QED
    BY <2>1, <2>2 DEF In, Returned
<1> QED
  BY <1>2, <1>3

LEMMA AnnounceStartAccept ==
  ASSUME TypeOK, AnnounceInv, StartAccept
  PROVE  AnnounceInv'
<1>1. /\ NextEvent /\ event.of = Arrival /\ pc' = "accept"
      /\ UNCHANGED <<input, ended, socket, ready>>
  BY DEF StartAccept, peerVars, kernelVars
<1>2. InputAnnounced'
  <2> SUFFICES ASSUME NEW f \in Fds, socket[f] # NoConn, socket[f] \in input \cup ended
               PROVE  \/ In([fd |-> f, conn |-> socket[f]], ready)
                      \/ In([of |-> [fd |-> f, conn |-> socket[f]], in |-> TRUE], batch')
    BY <1>1 DEF InputAnnounced, ReturnedIn
  <2>1. PICK e \in Watch : e = [fd |-> f, conn |-> socket[f]] /\ e # Arrival
    BY WatchOf
  <2>2. In(e, ready) \/ In([of |-> e, in |-> TRUE], batch)
    BY <2>1 DEF AnnounceInv, InputAnnounced, ReturnedIn
  <2>3. [of |-> e, in |-> TRUE] # event
    BY <1>1, <2>1
  <2> QED
    BY <1>1, <2>1, <2>2, <2>3, BatchKeeps
<1> QED
  BY <1>1, <1>2 DEF AnnounceInv, BacklogAnnounced

LEMMA AnnounceAcceptOne ==
  ASSUME TypeOK, TableInv, AnnounceInv, AcceptOne
  PROVE  AnnounceInv'
<1> DEFINE c == Head(backlog)
<1>1. PICK f \in FreeFds :
        /\ socket' = [socket EXCEPT ![f] = c]
        /\ ready' = IF c \in input \cup ended
                    THEN Append(ready, [fd |-> f, conn |-> c]) ELSE ready
  BY DEF AcceptOne
<1>2. pc = "accept" /\ backlog # <<>> /\ UNCHANGED <<input, ended, batch, pc>>
  BY DEF AcceptOne
<1>3. f \in Fds /\ c \in Conns /\ ready \in Seq(Watch)
        /\ socket \in [Fds -> Conns \cup {NoConn}]
  BY <1>2, HeadTailProperties, EmptySeq DEF FreeFds, TypeOK
<1>4. [fd |-> f, conn |-> c] \in Watch
  BY <1>3 DEF Watch
<1>5. /\ \A e : In(e, ready) => In(e, ready')
      /\ c \in input \cup ended => In([fd |-> f, conn |-> c], ready')
  BY <1>1, <1>3, <1>4, InAppend
<1>6. ASSUME NEW g \in Fds, socket'[g] # NoConn, socket'[g] \in input \cup ended
      PROVE  \/ In([fd |-> g, conn |-> socket'[g]], ready')
             \/ ReturnedIn([fd |-> g, conn |-> socket'[g]])
  <2>1. CASE g = f
    BY <1>1, <1>3, <1>5, <1>6, <2>1
  <2>2. CASE g # f
    <3>1. socket'[g] = socket[g]
      BY <1>1, <1>3, <2>2
    <3> QED
      BY <1>5, <1>6, <3>1 DEF AnnounceInv, InputAnnounced
  <2> QED
    BY <2>1, <2>2
<1>7. InputAnnounced'
  BY <1>2, <1>6 DEF InputAnnounced, ReturnedIn
<1> QED
  BY <1>2, <1>7 DEF AnnounceInv, BacklogAnnounced

(* A handler is done with its event: what another connection is owed is    *)
(* still there, and what its own is owed was not in this event.            *)
LEMMA AnnounceHandled ==
  ASSUME TypeOK, TableInv, AnnounceInv, NextEvent, event.of # Arrival, ReadyGrows,
         socket' \in [Fds -> Conns \cup {NoConn}],
         \A g \in Fds : socket'[g] \in {socket[g], NoConn},
         input' \subseteq input, UNCHANGED <<ended, backlog, starved>>,
         event.in => socket'[event.of.fd] \notin input' \cup ended
                       \/ socket'[event.of.fd] = NoConn
  PROVE  AnnounceInv'
<1>1. InputAnnounced'
  <2> SUFFICES ASSUME NEW g \in Fds, socket'[g] # NoConn, socket'[g] \in input' \cup ended
               PROVE  \/ In([fd |-> g, conn |-> socket'[g]], ready')
                      \/ In([of |-> [fd |-> g, conn |-> socket'[g]], in |-> TRUE], batch')
    BY DEF InputAnnounced, ReturnedIn
  <2>1. socket'[g] = socket[g] /\ socket[g] \in input \cup ended
    OBVIOUS
  <2>2. PICK e \in Watch : e = [fd |-> g, conn |-> socket[g]] /\ e # Arrival
    BY <2>1, WatchOf
  <2>3. In(e, ready) \/ In([of |-> e, in |-> TRUE], batch)
    BY <2>1, <2>2 DEF AnnounceInv, InputAnnounced, ReturnedIn
  <2>4. [of |-> e, in |-> TRUE] # event
    <3>1. SUFFICES ASSUME event.in, event.of = e PROVE FALSE
      OBVIOUS
    <3>2. event.of.fd = g
      BY <2>2, <3>1
    <3> QED
      BY <3>1, <3>2
  <2> QED
    BY <2>1, <2>2, <2>3, <2>4, BatchKeeps DEF ReadyGrows
<1>2. Arrival \in Watch
  BY DEF Arrival, Watch
<1>3. pc = "batch"
  BY DEF NextEvent
<1>4. BacklogAnnounced'
  BY <1>2, <1>3, BatchKeeps DEF AnnounceInv, BacklogAnnounced, ReadyGrows
<1> QED
  BY <1>1, <1>4 DEF AnnounceInv

LEMMA KeepGrows ==
  ASSUME TypeOK, NEW f \in Fds, fd_session_ht[f] # NoConn, NEW outs,
         KeepSession(f, outs)
  PROVE  ReadyGrows
<1>1. [fd |-> f, conn |-> fd_session_ht[f]] \in Watch
  BY DEF TypeOK, Watch
<1> QED
  BY <1>1, AnnouncedGrows DEF KeepSession, UpdateEpollEvents, ReadyGrows

LEMMA AnnounceHandle ==
  ASSUME TypeOK, TableInv, AnnounceInv, HandleEvent
  PROVE  AnnounceInv'
<1> DEFINE f == event.of.fd
<1>1. /\ NextEvent /\ event.of # Arrival
      /\ UNCHANGED <<ended, backlog, starved>>
  BY DEF HandleEvent
<1>2. /\ f \in Fds /\ fd_session_ht[f] = event.of.conn /\ event.of.conn # NoConn
      /\ fd_session_ht = socket
  BY <1>1, EventTyped, BatchRest, ServerAssumption DEF TableInv, TableMatchesDescriptors
<1>3. socket \in [Fds -> Conns \cup {NoConn}]
  BY DEF TypeOK
<1>4. CASE CloseSession(f)
  <2>1. socket' = [socket EXCEPT ![f] = NoConn] /\ input' = input /\ ready' = ready
    BY <1>4 DEF CloseSession
  <2> QED
    BY <1>1, <1>2, <1>3, <2>1, AnnounceHandled DEF ReadyGrows
<1>5. CASE /\ event.in /\ fd_session_ht[f] \notin ended
           /\ input' = input \ {fd_session_ht[f]}
           /\ KeepSession(f, InMasks(f))
  <2>1. socket' = socket
    BY <1>5 DEF KeepSession
  <2>2. ReadyGrows
    BY <1>2, <1>5, KeepGrows
  <2> QED
    BY <1>1, <1>2, <1>3, <1>5, <2>1, <2>2, AnnounceHandled
<1>6. CASE ~event.in /\ input' = input /\ KeepSession(f, {FALSE})
  <2>1. socket' = socket
    BY <1>6 DEF KeepSession
  <2>2. ReadyGrows
    BY <1>2, <1>6, KeepGrows
  <2> QED
    BY <1>1, <1>2, <1>3, <1>6, <2>1, <2>2, AnnounceHandled
<1>7. CASE event.in /\ HandlerHangs(f)
  <2>1. /\ socket' = socket /\ input' = input \ {fd_session_ht[f]}
        /\ fd_session_ht[f] \notin ended
    BY <1>7 DEF HandlerHangs
  <2>2. [fd |-> f, conn |-> fd_session_ht[f]] \in Watch
    BY <1>2, <1>3 DEF Watch
  <2>3. ReadyGrows
    BY <1>7, <2>2, AnnouncedGrows DEF HandlerHangs, ReadyGrows
  <2> QED
    BY <1>1, <1>2, <1>3, <1>7, <2>1, <2>3, AnnounceHandled
<1> QED
  BY <1>2, <1>4, <1>5, <1>6, <1>7 DEF HandleEvent, HandleInEvent, HandleOutEvent

LEMMA AnnounceNext ==
  TypeOK /\ TableInv /\ AnnounceInv /\ [Next]_vars => AnnounceInv'
<1> SUFFICES ASSUME TypeOK, TableInv, AnnounceInv, [Next]_vars PROVE AnnounceInv'
  OBVIOUS
<1> USE DEF kernelVars, serverVars, peerVars
<1>1. ASSUME NEW c \in Conns, PeerSend(c) PROVE AnnounceInv'
  BY <1>1, AnnouncePeer DEF PeerSend
<1>2. ASSUME NEW c \in Conns, PeerEnd(c) PROVE AnnounceInv'
  BY <1>2, AnnouncePeer DEF PeerEnd
<1>3. ASSUME NEW c \in Conns, PeerRead(c) PROVE AnnounceInv'
  BY <1>3, AnnouncePeer DEF PeerRead
<1>4. CASE Interrupt
  BY <1>4, AnnounceKept DEF Interrupt, ReadyGrows
<1>5. CASE CheckStop \/ EnterWait \/ WakeUp \/ BatchDone
  BY <1>5, AnnounceKept DEF CheckStop, EnterWait, WakeUp, BatchDone, ReadyGrows
<1>6. CASE AcceptDropped
  BY <1>6 DEF AcceptDropped, AnnounceInv, InputAnnounced, BacklogAnnounced, ReturnedIn
<1>7. CASE AcceptError \/ AcceptAgain
  <2>1. /\ backlog' = <<>> \/ starved'
        /\ UNCHANGED <<input, ended, socket, ready, batch>>
    BY <1>7 DEF AcceptError, AcceptAgain
  <2> QED
    BY <2>1 DEF AnnounceInv, InputAnnounced, BacklogAnnounced, ReturnedIn
<1>8. CASE UNCHANGED vars
  BY <1>8, AnnounceKept DEF vars, ReadyGrows
<1> QED
  BY <1>1, <1>2, <1>3, <1>4, <1>5, <1>6, <1>7, <1>8, AnnounceConnect,
     AnnounceCollect, AnnounceStartAccept, AnnounceAcceptOne, AnnounceHandle
  DEF Next, Environment, Loop, AcceptNewConnections

LEMMA AnnounceAlways == Spec => []AnnounceInv
<1>1. TypeOK /\ TableInv /\ AnnounceInv /\ [Next]_vars
        => (TypeOK /\ TableInv /\ AnnounceInv)'
  BY TypeNext, TableNext, AnnounceNext
<1>2. Init => TypeOK /\ TableInv /\ AnnounceInv
  BY TypeInit, TableInit, AnnounceInit
<1> QED
  BY <1>1, <1>2, PTL DEF Spec

(* What an open connection has to read is announced: no step of the loop   *)
(* consumes its edge without its cause (server.cc:80-130, 232-258).        *)
THEOREM NoInputForgotten == Spec => []InputAnnounced
<1>1. AnnounceInv => InputAnnounced
  BY DEF AnnounceInv
<1> QED
  BY <1>1, AnnounceAlways, PTL

(* A connection is left in the backlog by an error of accept() alone       *)
(* (server.cc:80-98).                                                      *)
THEOREM NoPeerForgotten == Spec => []BacklogAnnounced
<1>1. AnnounceInv => BacklogAnnounced
  BY DEF AnnounceInv
<1> QED
  BY <1>1, AnnounceAlways, PTL

-----------------------------------------------------------------------------
(* The way to the end after SIGINT. *)

(* What lies between SIGINT and the end of Run: the rest of a call of      *)
(* epoll_wait, the batch, in it the accept loop, the test of the flag.  A  *)
(* handler that does not come back leaves the loop no further step.        *)
Ahead ==
  [enter |-> 4, wait |-> 3, batch |-> 2, accept |-> 2, check |-> 1,
   hung |-> 0, stopped |-> 0, failed |-> 0]

NearerInBatch ==
  \/ Len(batch') < Len(batch)
  \/ /\ batch' = batch /\ pc = "accept"
     /\ pc' = "batch" \/ Len(backlog') < Len(backlog)

Nearer ==
  \/ Ahead[pc'] < Ahead[pc]
  \/ pc = "wait" /\ pc' = "wait" /\ Len(ready') < Len(ready)
  \/ {pc, pc'} \subseteq {"batch", "accept"} /\ NearerInBatch

(* After SIGINT each step of the loop brings it nearer to its end: it      *)
(* handles the events it has, accepts those who wait, and begins no other  *)
(* round.  Peers that go on sending or connecting can keep it, and a       *)
(* handler that hangs ends its steps (server.cc:80-142, 232-258).          *)
StopApproaches == [][Loop /\ stop_flag => Nearer]_vars

LEMMA Shortened ==
  ASSUME NEW S, NEW s \in Seq(S), s # <<>>
  PROVE  Len(Tail(s)) < Len(s)
  OBVIOUS

LEMMA AcceptNearer ==
  ASSUME TypeOK, AcceptNewConnections
  PROVE  Nearer
<1>1. backlog \in Seq(Conns) /\ pc = "accept" /\ batch' = batch
  BY DEF TypeOK, AcceptNewConnections, AcceptOne, AcceptDropped, AcceptError,
         AcceptAgain, serverVars
<1>2. CASE AcceptOne \/ AcceptDropped
  <2>1. backlog # <<>> /\ backlog' = Tail(backlog) /\ pc' = pc
    BY <1>2 DEF AcceptOne, AcceptDropped
  <2>2. Len(backlog') < Len(backlog)
    BY <1>1, <2>1, Shortened
  <2> QED
    BY <1>1, <2>1, <2>2 DEF Nearer, NearerInBatch
<1>3. CASE AcceptError \/ AcceptAgain
  <2>1. pc' = "batch"
    BY <1>3 DEF AcceptError, AcceptAgain
  <2> QED
    BY <1>1, <2>1 DEF Nearer, NearerInBatch
<1> QED
  BY <1>2, <1>3 DEF AcceptNewConnections

LEMMA HandleNearer ==
  ASSUME TypeOK, HandleEvent
  PROVE  Nearer
<1>1. pc = "batch" /\ batch # <<>> /\ batch' = Tail(batch) /\ batch \in Seq(Event)
  BY DEF TypeOK, HandleEvent, NextEvent
<1>2. Len(batch') < Len(batch)
  BY <1>1, Shortened
<1>3. pc' \in {"batch", "hung", "failed"}
  BY <1>1 DEF HandleEvent, HandleInEvent, HandleOutEvent, CloseSession,
              KeepSession, UpdateEpollEvents, HandlerHangs
<1> QED
  BY <1>1, <1>2, <1>3 DEF Nearer, NearerInBatch, Ahead

LEMMA LoopNearer ==
  ASSUME TypeOK, Loop, stop_flag
  PROVE  Nearer
<1>1. CASE CheckStop
  BY <1>1 DEF CheckStop, Nearer, Ahead
<1>2. CASE EnterWait
  BY <1>2 DEF EnterWait, Nearer, Ahead
<1>3. CASE Collect
  <2>1. /\ ready \in Seq(Watch) /\ ready # <<>> /\ ready' = Tail(ready)
        /\ pc = "wait" /\ pc' = "wait"
    BY <1>3 DEF TypeOK, Collect, Collectable
  <2>2. Len(ready') < Len(ready)
    BY <2>1, Shortened
  <2> QED
    BY <2>1, <2>2 DEF Nearer
<1>4. CASE WakeUp
  BY <1>4 DEF WakeUp, Nearer, Ahead
<1>5. CASE BatchDone
  BY <1>5 DEF BatchDone, Nearer, Ahead
<1>6. CASE StartAccept
  <2>1. /\ batch \in Seq(Event) /\ batch # <<>> /\ batch' = Tail(batch)
        /\ pc = "batch" /\ pc' = "accept"
    BY <1>6 DEF TypeOK, StartAccept, NextEvent
  <2>2. Len(batch') < Len(batch)
    BY <2>1, Shortened
  <2> QED
    BY <2>1, <2>2 DEF Nearer, NearerInBatch
<1> QED
  BY <1>1, <1>2, <1>3, <1>4, <1>5, <1>6, AcceptNearer, HandleNearer DEF Loop

(* After SIGINT each step the loop still takes brings it nearer to its     *)
(* end, or to the handler in which it hangs (server.cc:80-142, 232-258).   *)
THEOREM LoopApproachesStop == Spec => StopApproaches
<1> DEFINE Step == Loop /\ stop_flag => Nearer
<1>1. TypeOK => Step
  BY LoopNearer
<1> HIDE DEF Step
<1>2. Spec => [][Step]_vars
  BY <1>1, LoopTyped, PTL
<1> QED
  BY <1>2 DEF Step, StopApproaches
=============================================================================
