------------------------------- MODULE Server -------------------------------
(***************************************************************************)
(* The server's event loop over all its connections (server.cc): accepting, *)
(* the session table, the descriptors, edge-triggered epoll and SIGINT.    *)
(* What happens inside one connection is module Session; here a handler    *)
(* reads all the input there is and keeps the session, ends it, or does    *)
(* not come back: Session's ParseEmpty, in the server's only thread.       *)
(***************************************************************************)
EXTENDS Integers, Sequences

CONSTANTS
  Conns,      \* connections peers may make, each once
  NoConn,
  Fds,        \* descriptor numbers the process may still open (its limit)
  ServerFd,   \* _server_fd
  MaxEvents   \* EventLoop's MAX_EVENTS (1024)

ASSUME ServerAssumption ==
  /\ NoConn \notin Conns
  /\ Fds \subseteq Nat
  /\ ServerFd \in Nat \ Fds
  /\ MaxEvents \in Nat \ {0}

VARIABLES
  phase,           \* of each connection: idle, queued, open, done
  input, ended,    \* connections with bytes to read; with an end or a reset
  waiting,         \* connections watched for EPOLLOUT: an answer has to wait
  backlog,         \* kernel: connections not yet accepted
  socket,          \* kernel: the connection behind each open descriptor
  registered,      \* kernel: descriptors epoll watches
  ready,           \* kernel: epoll's ready list, oldest first
  fd_session_ht,   \* _fd_session_ht
  batch,           \* events epoll_wait returned and EventLoop has yet to handle
  stop_flag, pc,
  starved          \* history: an error of accept() left connections queued

peerVars == <<phase, input, ended>>
kernelVars == <<backlog, socket, registered, waiting>>
vars == <<peerVars, kernelVars, ready, fd_session_ht, batch, stop_flag, pc,
          starved>>

(* What epoll watches: a descriptor and the connection it was opened for.  *)
Watch == [fd : Fds, conn : Conns] \cup [fd : {ServerFd}, conn : {NoConn}]

Arrival == [fd |-> ServerFd, conn |-> NoConn]

(* An event as epoll_wait returns it: EPOLLIN (or an error), or EPOLLOUT   *)
(* alone.                                                                  *)
Event == [of : Watch, in : BOOLEAN]

In(e, s) == \E i \in DOMAIN s : s[i] = e

Returned(e) == \E i \in DOMAIN batch : batch[i].of = e

ReturnedIn(e) == In([of |-> e, in |-> TRUE], batch)

TypeOK ==
  /\ phase \in [Conns -> {"idle", "queued", "open", "done"}]
  /\ input \in SUBSET Conns /\ ended \in SUBSET Conns
  /\ waiting \in SUBSET Conns
  /\ backlog \in Seq(Conns)
  /\ socket \in [Fds -> Conns \cup {NoConn}]
  /\ registered \in SUBSET (Fds \cup {ServerFd})
  /\ ready \in Seq(Watch) /\ batch \in Seq(Event)
  /\ fd_session_ht \in [Fds -> Conns \cup {NoConn}]
  /\ stop_flag \in BOOLEAN /\ starved \in BOOLEAN
  /\ pc \in {"check", "enter", "wait", "batch", "accept", "hung", "stopped",
             "failed"}

(* After SetupServerSocket and SetupEpoll. *)
Init ==
  /\ phase = [c \in Conns |-> "idle"] /\ input = {} /\ ended = {} /\ waiting = {}
  /\ backlog = <<>>
  /\ socket = [f \in Fds |-> NoConn]
  /\ registered = {ServerFd}
  /\ ready = <<>> /\ batch = <<>>
  /\ fd_session_ht = [f \in Fds |-> NoConn]
  /\ stop_flag = FALSE /\ pc = "check"
  /\ starved = FALSE

-----------------------------------------------------------------------------
(* Peers, the kernel and the user. *)

(* An edge puts a watched descriptor at the tail of the ready list. *)
Announced(e) ==
  IF e.fd \notin registered \/ In(e, ready) THEN ready ELSE Append(ready, e)

(* The event of connection c, if it has a descriptor. *)
Signalled(c) ==
  IF \E f \in Fds : socket[f] = c
  THEN Announced([fd |-> CHOOSE f \in Fds : socket[f] = c, conn |-> c])
  ELSE ready

serverVars == <<fd_session_ht, batch, starved>>

Connect(c) ==
  /\ phase[c] = "idle"
  /\ phase' = [phase EXCEPT ![c] = "queued"]
  /\ backlog' = Append(backlog, c)
  /\ ready' = Announced(Arrival)
  /\ UNCHANGED <<input, ended, waiting, socket, registered, stop_flag, pc,
                 serverVars>>

PeerSend(c) ==
  /\ phase[c] \in {"queued", "open"} /\ c \notin ended
  /\ input' = input \cup {c}
  /\ ready' = Signalled(c)
  /\ UNCHANGED <<phase, ended, kernelVars, stop_flag, pc, serverVars>>

PeerEnd(c) ==
  /\ phase[c] \in {"queued", "open"}
  /\ ended' = ended \cup {c}
  /\ ready' = Signalled(c)
  /\ UNCHANGED <<phase, input, kernelVars, stop_flag, pc, serverVars>>

(* The peer reads, and its socket has room again. *)
PeerRead(c) ==
  /\ c \in waiting
  /\ ready' = Signalled(c)
  /\ UNCHANGED <<peerVars, kernelVars, stop_flag, pc, serverVars>>

(* signal_handler.  A sleeping epoll_wait returns EINTR and the loop       *)
(* continues; at any other time the handler only sets the flag.            *)
Interrupt ==
  /\ stop_flag' = TRUE
  /\ pc' = IF pc = "wait" /\ ready = <<>> /\ batch = <<>> THEN "check" ELSE pc
  /\ UNCHANGED <<peerVars, kernelVars, ready, serverVars>>

Environment ==
  \/ \E c \in Conns : Connect(c) \/ PeerSend(c) \/ PeerEnd(c) \/ PeerRead(c)
  \/ Interrupt

-----------------------------------------------------------------------------
(* EventLoop. *)

(* Slip: the flag is not read. *)
CheckStopIgnored ==
  /\ pc = "check"
  /\ pc' = "enter"
  /\ UNCHANGED <<peerVars, kernelVars, ready, stop_flag, serverVars>>

CheckStop ==
  /\ pc = "check"
  /\ pc' = IF stop_flag THEN "stopped" ELSE "enter"
  /\ UNCHANGED <<peerVars, kernelVars, ready, stop_flag, serverVars>>

EnterWait ==
  /\ pc = "enter"
  /\ pc' = "wait"
  /\ UNCHANGED <<peerVars, kernelVars, ready, stop_flag, serverVars>>

(* A closed descriptor's entry, and one whose cause is gone, is dropped.   *)
Pollable(e) ==
  IF e = Arrival THEN backlog # <<>>
  ELSE socket[e.fd] = e.conn /\ e.conn \in input \cup ended \cup waiting

EventOf(e) == [of |-> e, in |-> e = Arrival \/ e.conn \in input \cup ended]

(* epoll_wait moves the ready list into the caller's array, entry by entry. *)
(* What is announced again meanwhile waits for the next call.              *)
Collectable ==
  /\ ready # <<>> /\ ~Returned(Head(ready))
  /\ Len(batch) < MaxEvents

Collect ==
  /\ pc = "wait" /\ Collectable
  /\ ready' = Tail(ready)
  /\ batch' = IF Pollable(Head(ready))
              THEN Append(batch, EventOf(Head(ready))) ELSE batch
  /\ UNCHANGED <<peerVars, kernelVars, fd_session_ht, stop_flag, pc, starved>>

WakeUp ==
  /\ pc = "wait" /\ batch # <<>> /\ ~Collectable
  /\ pc' = "batch"
  /\ UNCHANGED <<peerVars, kernelVars, ready, stop_flag, serverVars>>

BatchDone ==
  /\ pc = "batch" /\ batch = <<>>
  /\ pc' = "check"
  /\ UNCHANGED <<peerVars, kernelVars, ready, stop_flag, serverVars>>

event == Head(batch)

(* Slip: the loop does not advance. *)
NextEventAgain == pc = "batch" /\ batch # <<>> /\ batch' \in {batch, Tail(batch)}

NextEvent == pc = "batch" /\ batch # <<>> /\ batch' = Tail(batch)

StartAccept ==
  /\ NextEvent /\ event.of = Arrival
  /\ pc' = "accept"
  /\ UNCHANGED <<peerVars, kernelVars, ready, fd_session_ht, stop_flag, starved>>

-----------------------------------------------------------------------------
(* AcceptNewConnections, one turn of its loop at a time. *)

FreeFds == {f \in Fds : socket[f] = NoConn}

(* _fd_session_ht[session->GetClientFD()] = session.  Slip: the descriptor *)
(* asked of client_fd, which was moved from and holds -1.                  *)
InsertMoved(f, c) ==
  [g \in Fds \cup {-1} |-> IF g = -1 THEN c ELSE fd_session_ht[g]]

Insert(f, c) == [fd_session_ht EXCEPT ![f] = c]

(* accept() takes the lowest free descriptor.  EPOLL_CTL_ADD polls it at   *)
(* once, so what arrived in the backlog is announced.                      *)
AcceptOne ==
  /\ pc = "accept" /\ backlog # <<>> /\ FreeFds # {}
  /\ \E f \in FreeFds :
       LET c == Head(backlog)
           e == [fd |-> f, conn |-> c]
       IN  /\ \A g \in FreeFds : f <= g
           /\ phase' = [phase EXCEPT ![c] = "open"]
           /\ socket' = [socket EXCEPT ![f] = c]
           /\ registered' = registered \cup {f}
           /\ ready' = IF c \in input \cup ended THEN Append(ready, e) ELSE ready
           /\ fd_session_ht' = Insert(f, c)
  /\ backlog' = Tail(backlog)
  /\ UNCHANGED <<input, ended, waiting, batch, stop_flag, pc, starved>>

(* Slips: the descriptor is not owned by anything; the loop ends. *)
AcceptDroppedLeaks ==
  /\ pc = "accept" /\ backlog # <<>> /\ FreeFds # {}
  /\ phase' = [phase EXCEPT ![Head(backlog)] = "done"]
  /\ \E f \in FreeFds : socket' = [socket EXCEPT ![f] = Head(backlog)]
  /\ backlog' = Tail(backlog)
  /\ UNCHANGED <<input, ended, waiting, registered, ready, stop_flag, pc,
                 serverVars>>

AcceptDroppedBreaks ==
  /\ pc = "accept" /\ backlog # <<>> /\ FreeFds # {}
  /\ phase' = [phase EXCEPT ![Head(backlog)] = "done"]
  /\ backlog' = Tail(backlog)
  /\ pc' = "batch"
  /\ UNCHANGED <<input, ended, waiting, socket, registered, ready, stop_flag,
                 serverVars>>

(* EPOLL_CTL_ADD or inet_ntop fails: client_fd goes out of scope, which    *)
(* closes the descriptor and takes it out of epoll.                        *)
AcceptDropped ==
  /\ pc = "accept" /\ backlog # <<>> /\ FreeFds # {}
  /\ phase' = [phase EXCEPT ![Head(backlog)] = "done"]
  /\ backlog' = Tail(backlog)
  /\ UNCHANGED <<input, ended, waiting, socket, registered, ready, stop_flag,
                 pc, serverVars>>

(* Any error but EAGAIN and EINTR ends the loop.  The connection stays in  *)
(* the backlog (EMFILE, ENFILE, ENOBUFS), or the error took it out         *)
(* (ECONNABORTED, which a process without free descriptors does not see).  *)
AcceptError ==
  /\ pc = "accept" /\ backlog # <<>>
  /\ \/ UNCHANGED <<phase, backlog>>
     \/ /\ FreeFds # {}
        /\ phase' = [phase EXCEPT ![Head(backlog)] = "done"]
        /\ backlog' = Tail(backlog)
  /\ starved' = (backlog' # <<>>)
  /\ pc' = "batch"
  /\ UNCHANGED <<input, ended, waiting, socket, registered, ready,
                 fd_session_ht, batch, stop_flag>>

AcceptAgain ==
  /\ pc = "accept" /\ backlog = <<>>
  /\ starved' = FALSE
  /\ pc' = "batch"
  /\ UNCHANGED <<peerVars, kernelVars, ready, fd_session_ht, batch, stop_flag>>

AcceptNewConnections ==
  \/ AcceptOne
  \/ AcceptDropped
  \/ AcceptError
  \/ AcceptAgain

-----------------------------------------------------------------------------
(* HandleEvent. *)

(* Erasing the entry destroys the Session, whose UniqueFD closes the       *)
(* descriptor.                                                             *)
CloseSession(f) ==
  /\ registered' = registered \ {f}
  /\ fd_session_ht' = [fd_session_ht EXCEPT ![f] = NoConn]
  /\ phase' = [phase EXCEPT ![fd_session_ht[f]] = "done"]
  /\ socket' = [socket EXCEPT ![f] = NoConn]
  /\ waiting' = waiting \ {fd_session_ht[f]}
  /\ UNCHANGED <<input, ready, pc>>

(* Slip: EPOLL_CTL_ADD. *)
UpdateEpollEventsAdds(f, out) ==
  /\ pc' = IF f \in registered THEN "failed" ELSE pc
  /\ waiting' = IF out THEN waiting \cup {fd_session_ht[f]}
                       ELSE waiting \ {fd_session_ht[f]}
  /\ UNCHANGED ready

(* EPOLL_CTL_MOD to watch for EPOLLOUT or no longer.  It polls at once:    *)
(* input, or room by now for what has to wait, is announced.  It throws    *)
(* for a descriptor epoll does not watch, and the exception ends Run.      *)
UpdateEpollEvents(f, out) ==
  LET c == fd_session_ht[f]
  IN  /\ pc' = IF f \in registered THEN pc ELSE "failed"
      /\ waiting' = IF out THEN waiting \cup {c} ELSE waiting \ {c}
      /\ \/ c \notin input' \cup ended /\ UNCHANGED ready
         \/ /\ c \in input' \cup ended \/ out
            /\ ready' = Announced([fd |-> f, conn |-> c])

(* The session lives on, and its mask is replaced by one of these or kept. *)
KeepSession(f, outs) ==
  /\ \/ \E out \in outs : UpdateEpollEvents(f, out)
     \/ UNCHANGED <<waiting, ready, pc>>
  /\ UNCHANGED <<phase, socket, registered, fd_session_ht>>

(* ParseMessage meets a length of zero and does not return, after an       *)
(* answer that waited may have left in the same event.                     *)
HandlerHangs(f) ==
  LET c == fd_session_ht[f]
  IN  /\ c \notin ended
      /\ input' = input \ {c}
      /\ pc' = "hung"
      /\ \/ UNCHANGED <<waiting, ready>>
         \/ /\ c \in waiting
            /\ waiting' = waiting \ {c}
            /\ ready' = Announced([fd |-> f, conn |-> c])
      /\ UNCHANGED <<phase, socket, registered, fd_session_ht>>

(* HandleInEvent reads all the input there is, and ends the session if it  *)
(* meets an end or an error.  Otherwise an answer may have to wait; one    *)
(* that waited may have left before, in the same event.                    *)
InMasks(f) == IF fd_session_ht[f] \in waiting THEN BOOLEAN ELSE {TRUE}

(* Slip: the session may leave input unread. *)
HandleInEventReadsOnce(f) ==
  \/ /\ fd_session_ht[f] \in ended
     /\ CloseSession(f)
  \/ /\ fd_session_ht[f] \notin ended
     /\ input' \in {input, input \ {fd_session_ht[f]}}
     /\ KeepSession(f, InMasks(f))
  \/ HandlerHangs(f)

HandleInEvent(f) ==
  \/ /\ fd_session_ht[f] \in ended
     /\ CloseSession(f)
  \/ /\ fd_session_ht[f] \notin ended
     /\ input' = input \ {fd_session_ht[f]}
     /\ KeepSession(f, InMasks(f))
  \/ HandlerHangs(f)

(* HandleOutEvent reads nothing.  Sending may fail on an ended connection; *)
(* EPOLLOUT is dropped once the answer has left.                           *)
HandleOutEvent(f) ==
  \/ /\ fd_session_ht[f] \in ended
     /\ CloseSession(f)
  \/ /\ UNCHANGED input
     /\ KeepSession(f, {FALSE})

HandleEvent ==
  /\ NextEvent /\ event.of # Arrival
  /\ LET f == event.of.fd
     IN  \/ /\ fd_session_ht[f] = NoConn
            /\ UNCHANGED <<phase, input, waiting, socket, registered, ready,
                           fd_session_ht, pc>>
         \/ fd_session_ht[f] # NoConn /\ event.in /\ HandleInEvent(f)
         \/ fd_session_ht[f] # NoConn /\ ~event.in /\ HandleOutEvent(f)
  /\ UNCHANGED <<ended, backlog, stop_flag, starved>>

-----------------------------------------------------------------------------
Loop ==
  \/ CheckStop
  \/ EnterWait
  \/ Collect
  \/ WakeUp
  \/ BatchDone
  \/ StartAccept
  \/ AcceptNewConnections
  \/ HandleEvent

Next == Environment \/ Loop

Spec == Init /\ [][Next]_vars

(* The server's only thread keeps running, but nothing says that a handler *)
(* comes back: no step of the loop is left once one hangs.  Peers and the  *)
(* user promise nothing.                                                   *)
FairSpec == Spec /\ WF_vars(Loop)
-----------------------------------------------------------------------------
(* Correctness. *)

(* The table, epoll and the kernel agree: every open client descriptor has *)
(* one session, of the connection behind it, and is watched; a closed one  *)
(* has none.  No path of AcceptNewConnections or CloseSession leaks a      *)
(* descriptor, and no connection is in the table twice                     *)
(* (server.cc:80-142, unique_resource.h).                                  *)
TableMatchesDescriptors ==
  /\ fd_session_ht = socket
  /\ registered = {ServerFd} \cup {f \in Fds : socket[f] # NoConn}
  /\ \A c \in Conns :
       phase[c] = "open" <=> \E f \in Fds : socket[f] = c
  /\ \A f, g \in Fds : socket[f] = socket[g] /\ socket[f] # NoConn => f = g

(* An event in the hands of EventLoop is about the connection its          *)
(* descriptor still belongs to: closing a session and accepting another    *)
(* under the same number within one batch hands no event to the wrong      *)
(* session (server.cc:198-258).                                            *)
NoStaleEvent ==
  \A i \in DOMAIN batch :
    LET e == batch[i].of
    IN  e # Arrival => fd_session_ht[e.fd] = e.conn

(* Input or an end that an open connection still has is on its way to      *)
(* EventLoop, in the ready list or in the batch: no edge is consumed       *)
(* without its cause (server.cc:80-130 and 232-258).                       *)
InputAnnounced ==
  \A f \in Fds :
    socket[f] # NoConn /\ socket[f] \in input \cup ended =>
      LET e == [fd |-> f, conn |-> socket[f]]
      IN  In(e, ready) \/ ReturnedIn(e)

(* A connection waits in the backlog only while its announcement is on its *)
(* way, the accept loop runs, or that loop last ended with an error        *)
(* (server.cc:80-98).                                                      *)
BacklogAnnounced ==
  backlog # <<>> =>
    In(Arrival, ready) \/ Returned(Arrival) \/ pc = "accept" \/ starved

(* No exception ends the event loop (server.cc:144-152, 261-271).          *)
LoopSurvives == pc # "failed"

(* Every open connection with input is read or closed, unless the server   *)
(* stops or the handler of some connection, its own or another's, does not *)
(* come back (server.h:19; server.cc:175 with session.cc:135).             *)
EveryoneServed ==
  \A c \in Conns :
    (phase[c] = "open" /\ c \in input)
      ~> (c \notin input \/ phase[c] = "done" \/ pc \in {"stopped", "hung"})

(* Every queued connection is taken unless the server stops, a handler     *)
(* does not come back, or an error of accept() leaves connections queued   *)
(* (server.cc:80-130).                                                     *)
EveryoneAccepted ==
  \A c \in Conns :
    phase[c] = "queued"
      ~> (phase[c] # "queued" \/ starved \/ pc \in {"stopped", "hung"})

(* A set stop_flag ends the loop after the batch at hand, unless a handler *)
(* does not come back or the server sleeps with nothing to do              *)
(* (server.cc:238-258).                                                    *)
StopsUnlessStuck ==
  stop_flag ~> \/ pc \in {"stopped", "hung"}
               \/ pc = "wait" /\ ready = <<>> /\ batch = <<>>

(* server.h:59: the server handles SIGINT, handlers that do not come back  *)
(* aside.                                                                  *)
StopsOnSignal == stop_flag ~> pc \in {"stopped", "hung"}
=============================================================================
