------------------------------- MODULE Session -------------------------------
(***************************************************************************)
(* One connection of the server at byte level: Session (session.cc) with   *)
(* the part of Server that drives it (HandleEvent, HandleInEvent,          *)
(* HandleOutEvent, UpdateEpollEvents, CloseSession of server.cc).  The     *)
(* server is one thread, so a handler is a chain of steps fixed by pc; the *)
(* peer and the kernel may move between any two of them.                   *)
(*                                                                         *)
(* Positions in the peer's byte stream stand for the kernel's receive      *)
(* buffer: bytes rcvd+1 .. sent of stream wait in the socket.              *)
(***************************************************************************)
EXTENDS Wire

CONSTANTS
  Streams,         \* what the peer may intend to write, byte by byte
  BufferSize,      \* TryRecv's BUFFER_SIZE (4096)
  MaxMessageSize,  \* Limit::MAX_MESSAGE_SIZE (10 MB)
  MaxPressure      \* bound: how often the send buffer may fill up

ASSUME SessionAssumption ==
  /\ Streams \subseteq Seq(Byte)
  /\ BufferSize \in Nat \ {0}
  /\ MaxMessageSize \in Nat
  /\ MaxPressure \in Nat

Yes == "Y"
No  == "N"

VARIABLES
  stream, sent, fin,          \* the peer: its bytes, how many are written, its end
  rcvd,                       \* bytes recv() has returned
  canSend, pressure, answers, \* send-buffer room; bytes the peer was sent
  ready, wantOut,             \* epoll: in the ready list; EPOLLOUT registered
  request, type_vec, size_vec, messages, response, hostname, username,
  saved,                      \* images written to disk, with their directory
  pc, events,                 \* the server's place and the event in its hands
  start, handled, verdict     \* history: see TypeOK

peerVars    == <<stream, sent, fin>>
roomVars    == <<canSend, pressure>>
epollVars   == <<ready, wantOut>>
parseVars   == <<request, type_vec, size_vec, messages, start>>
authVars    == <<hostname, username, verdict>>
vars == <<peerVars, rcvd, roomVars, answers, epollVars, parseVars, response,
          authVars, saved, pc, events, handled>>

Fins   == {"open", "closed", "reset"}
Events == {"err", "out", "in"}
Places == {"wait", "event", "flush", "recv", "parse", "dispatch", "answer",
           "closed"}

(* A complete message, with the history of where its first byte stood. *)
Message == [at : Nat, type : Byte, body : Seq(Byte)]

TypeOK ==
  /\ stream \in Seq(Byte) /\ sent \in 0 .. Len(stream) /\ rcvd \in 0 .. sent
  /\ fin \in Fins
  /\ canSend \in BOOLEAN /\ pressure \in Nat
  /\ answers \in Seq({Yes, No})
  /\ ready \in BOOLEAN /\ wantOut \in BOOLEAN
  /\ request \in Seq(Byte) /\ type_vec \in Seq(Byte) /\ size_vec \in Seq(Byte)
  /\ messages \in Seq(Message)
  /\ response \in Seq({Yes, No})
  /\ hostname \in Seq(Byte) /\ username \in Seq(Byte)
  /\ saved \in Seq([hostname : Seq(Byte), username : Seq(Byte),
                    body : Seq(Byte)])
  /\ pc \in Places
  /\ events \in SUBSET Events
  /\ start \in Nat                   \* bytes of completed or dropped messages
  /\ handled \in Seq(Message)        \* messages popped from the queue
  /\ verdict \in {Yes, No, "none"}   \* outcome of the last authentication

Init ==
  /\ stream \in Streams /\ sent = 0 /\ rcvd = 0 /\ fin = "open"
  /\ canSend = TRUE /\ pressure = MaxPressure /\ answers = <<>>
  /\ ready = FALSE /\ wantOut = FALSE
  /\ request = <<>> /\ type_vec = <<>> /\ size_vec = <<>> /\ messages = <<>>
  /\ response = <<>> /\ hostname = <<>> /\ username = <<>> /\ saved = <<>>
  /\ pc = "wait" /\ events = {}
  /\ start = 0 /\ handled = <<>> /\ verdict = "none"

-----------------------------------------------------------------------------
(* The peer and the kernel.  epoll is edge triggered: the descriptor joins *)
(* the ready list when something arrives, not while something is there.    *)

serverVars == <<rcvd, answers, wantOut, parseVars, response, authVars, saved,
                pc, events, handled>>

PeerWrite(n) ==
  /\ fin = "open" /\ pc # "closed" /\ sent + n <= Len(stream)
  /\ sent' = sent + n
  /\ ready' = TRUE
  /\ UNCHANGED <<stream, fin, roomVars, serverVars>>

PeerClose ==
  /\ fin = "open" /\ pc # "closed"
  /\ fin' = "closed"
  /\ ready' = TRUE
  /\ UNCHANGED <<stream, sent, roomVars, serverVars>>

PeerReset ==
  /\ fin # "reset" /\ pc # "closed"
  /\ fin' = "reset"
  /\ ready' = TRUE
  /\ UNCHANGED <<stream, sent, roomVars, serverVars>>

RoomTaken ==
  /\ canSend /\ pressure > 0 /\ pc # "closed"
  /\ canSend' = FALSE /\ pressure' = pressure - 1
  /\ UNCHANGED <<peerVars, ready, serverVars>>

RoomFreed ==
  /\ ~canSend /\ pc # "closed"
  /\ canSend' = TRUE
  /\ ready' = (ready \/ wantOut)
  /\ UNCHANGED <<peerVars, pressure, serverVars>>

Environment ==
  \/ \E n \in 1 .. Len(stream) : PeerWrite(n)
  \/ PeerClose
  \/ PeerReset
  \/ RoomTaken
  \/ RoomFreed

-----------------------------------------------------------------------------
(* epoll_wait and the dispatch of one event. *)

Readable == sent > rcvd \/ fin # "open"

Poll(out) ==
  {e \in Events : \/ e = "err" /\ fin = "reset"
                  \/ e = "out" /\ out /\ canSend
                  \/ e = "in"  /\ Readable}

(* An edge whose cause was consumed meanwhile is dropped by the kernel. *)
EpollWait ==
  /\ pc = "wait" /\ ready
  /\ ready' = FALSE
  /\ events' = Poll(wantOut)
  /\ pc' = IF Poll(wantOut) = {} THEN "wait" ELSE "event"
  /\ UNCHANGED <<peerVars, rcvd, roomVars, answers, wantOut, parseVars,
                 response, authVars, saved, handled>>

(* EPOLL_CTL_MOD replaces the mask and polls at once. *)
UpdateEpollEvents(out) ==
  /\ wantOut' = out
  /\ ready' = (ready \/ Poll(out) # {})

(* The descriptor is closed with the Session; its buffers go with it, and  *)
(* are left as they were because nothing reads them any more.              *)
CloseSession ==
  /\ pc' = "closed" /\ events' = {}
  /\ UNCHANGED <<peerVars, rcvd, roomVars, answers, epollVars, parseVars,
                 response, authVars, saved, handled>>

HandleEvent ==
  /\ pc = "event"
  /\ \/ "err" \in events /\ CloseSession
     \/ /\ "err" \notin events
        /\ pc' = IF "out" \in events THEN "flush" ELSE "recv"
        /\ UNCHANGED <<peerVars, rcvd, roomVars, answers, epollVars,
                       parseVars, response, authVars, saved, events, handled>>

(* Slip: the event handled still counts. *)
EventDoneCounts(e) ==
  /\ events' = events \ {e}
  /\ pc' = IF events = {} THEN "wait" ELSE "recv"

(* The end of a handler: HandleIn is tried last. *)
EventDone(e) ==
  /\ events' = events \ {e}
  /\ pc' = IF events \ {e} = {} THEN "wait" ELSE "recv"

-----------------------------------------------------------------------------
(* TrySend.  A response is one byte, so one send() empties it; an empty    *)
(* response is a successful TrySend that sends nothing.                    *)

TrySendFails == response # <<>> /\ fin = "reset"

TrySendAgain == response # <<>> /\ fin # "reset" /\ ~canSend

TrySendDone ==
  /\ response # <<>> => canSend /\ fin # "reset"
  /\ answers' = answers \o response
  /\ response' = <<>>

HandleOutEvent ==
  /\ pc = "flush"
  /\ \/ TrySendFails /\ CloseSession
     \/ /\ TrySendAgain
        /\ EventDone("out")
        /\ UNCHANGED <<answers, response, epollVars, peerVars, rcvd, roomVars,
                       parseVars, authVars, saved, handled>>
     \/ /\ TrySendDone
        /\ UpdateEpollEvents(FALSE)
        /\ EventDone("out")
        /\ UNCHANGED <<peerVars, rcvd, roomVars, parseVars, authVars, saved,
                       handled>>

-----------------------------------------------------------------------------
(* HandleInEvent: TryRecv, ParseMessage, then at most one message. *)

Least(m, n) == IF m < n THEN m ELSE n

(* recv() of TryRecv until it says EAGAIN; end of file and errors end the  *)
(* session at once, whatever was received before them.  After a reset the  *)
(* kernel may still hand out what waits in the socket, or not.             *)
(* Slip: the whole buffer is taken, whatever recv() returned. *)
RecvBytesFullBuffer ==
  /\ sent > rcvd
  /\ request' = request \o SubSeq(stream, rcvd + 1, Least(rcvd + BufferSize, sent))
  /\ rcvd' = rcvd + BufferSize
  /\ UNCHANGED <<peerVars, roomVars, answers, epollVars, type_vec, size_vec,
                 messages, start, response, authVars, saved, pc, events,
                 handled>>

RecvBytes ==
  /\ sent > rcvd
  /\ LET n == Least(BufferSize, sent - rcvd)
     IN  /\ request' = request \o SubSeq(stream, rcvd + 1, rcvd + n)
         /\ rcvd' = rcvd + n
  /\ UNCHANGED <<peerVars, roomVars, answers, epollVars, type_vec, size_vec,
                 messages, start, response, authVars, saved, pc, events,
                 handled>>

RecvAgain ==
  /\ fin = "open" /\ sent = rcvd
  /\ pc' = "parse"
  /\ UNCHANGED <<peerVars, rcvd, roomVars, answers, epollVars, parseVars,
                 response, authVars, saved, events, handled>>

RecvEnds ==
  /\ fin = "reset" \/ (fin = "closed" /\ sent = rcvd)
  /\ CloseSession

(* Slip: one recv() for each event. *)
TryRecvOnce ==
  /\ pc = "recv" /\ sent > rcvd
  /\ rcvd' = rcvd + Least(BufferSize, sent - rcvd)
  /\ request' = request \o SubSeq(stream, rcvd + 1, rcvd')
  /\ pc' = "parse"
  /\ UNCHANGED <<peerVars, roomVars, answers, epollVars, type_vec, size_vec,
                 messages, start, response, authVars, saved, events, handled>>

TryRecv == pc = "recv" /\ (RecvBytes \/ RecvAgain \/ RecvEnds)

(* ParseMessage, one field of the message being assembled at a time.  The  *)
(* body is moved whole or not at all, so bytes_vec is empty at the head of *)
(* every iteration and needs no variable.                                  *)
HeaderRead == type_vec # <<>> /\ size_vec # <<>>

MsgLen == PeekUint32(size_vec)

FieldLen ==
  IF type_vec = <<>> THEN 1 ELSE IF size_vec = <<>> THEN 4 ELSE MsgLen

Taken == SubSeq(request, 1, FieldLen)

(* FromReqToVec for a field the buffer holds. *)
FromReqToVec ==
  /\ Len(request) >= FieldLen
  /\ request' = SubSeq(request, FieldLen + 1, Len(request))

ParseType ==
  /\ type_vec = <<>>
  /\ FromReqToVec
  /\ type_vec' = Taken
  /\ UNCHANGED <<size_vec, messages, start, pc>>

ParseSize ==
  /\ type_vec # <<>> /\ size_vec = <<>>
  /\ FromReqToVec
  /\ size_vec' = Taken
  /\ UNCHANGED <<type_vec, messages, start, pc>>

(* Slip: _message.Clear() forgets the size. *)
ParseBodyKeepsSize ==
  /\ HeaderRead /\ MsgLen \in 1 .. MaxMessageSize
  /\ FromReqToVec
  /\ messages' = Append(messages,
                        [at |-> start, type |-> type_vec[1], body |-> Taken])
  /\ type_vec' = <<>>
  /\ start' = start + 5 + MsgLen
  /\ UNCHANGED <<size_vec, pc>>

(* Slip: the parser returns with the first message. *)
ParseBodyReturns ==
  /\ HeaderRead /\ MsgLen \in 1 .. MaxMessageSize
  /\ FromReqToVec
  /\ messages' = Append(messages,
                        [at |-> start, type |-> type_vec[1], body |-> Taken])
  /\ type_vec' = <<>> /\ size_vec' = <<>>
  /\ start' = start + 5 + MsgLen
  /\ pc' = "dispatch"

ParseBody ==
  /\ HeaderRead /\ MsgLen \in 1 .. MaxMessageSize
  /\ FromReqToVec
  /\ messages' = Append(messages,
                        [at |-> start, type |-> type_vec[1], body |-> Taken])
  /\ type_vec' = <<>> /\ size_vec' = <<>>
  /\ start' = start + 5 + MsgLen
  /\ UNCHANGED pc

(* The header of a message over the limit is dropped; its body stays in    *)
(* _request and is parsed as further messages at the next event.           *)
ParseTooLarge ==
  /\ HeaderRead /\ MsgLen > MaxMessageSize
  /\ type_vec' = <<>> /\ size_vec' = <<>>
  /\ start' = start + 5
  /\ pc' = "dispatch"
  /\ UNCHANGED <<request, messages>>

(* Slips: an incomplete message is given up; it is waited for in the loop. *)
ParseShortForgets ==
  /\ Len(request) < FieldLen
  /\ HeaderRead => MsgLen <= MaxMessageSize
  /\ type_vec' = <<>> /\ size_vec' = <<>>
  /\ pc' = "dispatch"
  /\ UNCHANGED <<request, messages, start>>

ParseShortSpins ==
  /\ Len(request) < FieldLen
  /\ HeaderRead => MsgLen <= MaxMessageSize
  /\ UNCHANGED <<parseVars, pc>>

ParseShort ==
  /\ Len(request) < FieldLen
  /\ HeaderRead => MsgLen <= MaxMessageSize
  /\ pc' = "dispatch"
  /\ UNCHANGED parseVars

(* A zero length already equals bytes_vec.size(): nothing is pushed and    *)
(* nothing cleared, and the loop starts over with the same header.         *)
ParseEmpty ==
  /\ HeaderRead /\ MsgLen = 0
  /\ UNCHANGED <<parseVars, pc>>

ParseMessage ==
  /\ pc = "parse"
  /\ \/ ParseType
     \/ ParseSize
     \/ ParseBody
     \/ ParseTooLarge
     \/ ParseShort
     \/ ParseEmpty
  /\ UNCHANGED <<peerVars, rcvd, roomVars, answers, epollVars, response,
                 authVars, saved, events, handled>>

-----------------------------------------------------------------------------
(* The message at the head of the queue. *)

msg == Head(messages)

(* Slip: the message handled stays at the head. *)
PopMessageForgotten ==
  /\ handled' = Append(handled, msg)
  /\ UNCHANGED parseVars

PopMessage ==
  /\ messages' = Tail(messages)
  /\ handled' = Append(handled, msg)
  /\ UNCHANGED <<request, type_vec, size_vec, start>>

(* Slip: a pending response is kept. *)
HandleAuthKeepsResponse ==
  /\ messages # <<>> /\ msg.type = MsgAuth
  /\ hostname' = IF HostnameStored(msg.body) THEN Name(msg.body) ELSE hostname
  /\ username' = IF UsernameStored(msg.body)
                 THEN Name(AfterName(msg.body)) ELSE username
  /\ verdict' = IF AuthAccepted(msg.body) THEN Yes ELSE No
  /\ response' = IF response # <<>> THEN response ELSE <<verdict'>>
  /\ PopMessage
  /\ pc' = "answer"
  /\ UNCHANGED <<peerVars, rcvd, roomVars, answers, epollVars, saved, events>>

(* HandleAuthRequest and the buffering half of SendAuthResponse: a pending *)
(* response is overwritten.                                                *)
HandleAuth ==
  /\ messages # <<>> /\ msg.type = MsgAuth
  /\ hostname' = IF HostnameStored(msg.body) THEN Name(msg.body) ELSE hostname
  /\ username' = IF UsernameStored(msg.body)
                 THEN Name(AfterName(msg.body)) ELSE username
  /\ verdict' = IF AuthAccepted(msg.body) THEN Yes ELSE No
  /\ response' = IF response # <<>> THEN [response EXCEPT ![1] = verdict']
                                    ELSE <<verdict'>>
  /\ PopMessage
  /\ pc' = "answer"
  /\ UNCHANGED <<peerVars, rcvd, roomVars, answers, epollVars, saved, events>>

(* SaveScreen may fail to create the directory or to open the file; the    *)
(* message is popped all the same.                                         *)
HandleImgMessage(ok) ==
  /\ messages # <<>> /\ msg.type = MsgImg
  /\ saved' = IF ok THEN Append(saved, [hostname |-> hostname,
                                        username |-> username,
                                        body |-> msg.body])
                    ELSE saved
  /\ PopMessage
  /\ EventDone("in")
  /\ UNCHANGED <<peerVars, rcvd, roomVars, answers, epollVars, response,
                 authVars>>

(* No message, or one of another type, which stays at the head. *)
HandleNothing ==
  /\ messages # <<>> => msg.type \notin {MsgAuth, MsgImg}
  /\ EventDone("in")
  /\ UNCHANGED <<peerVars, rcvd, roomVars, answers, epollVars, parseVars,
                 response, authVars, saved, handled>>

Dispatch ==
  /\ pc = "dispatch"
  /\ \/ HandleAuth
     \/ \E ok \in BOOLEAN : HandleImgMessage(ok)
     \/ HandleNothing

(* Slip: EPOLLOUT is not asked for. *)
SendAuthResponseUnwatched ==
  /\ pc = "answer"
  /\ \/ TrySendFails /\ CloseSession
     \/ /\ TrySendAgain \/ TrySendDone
        /\ TrySendAgain => UNCHANGED <<answers, response>>
        /\ EventDone("in")
        /\ UNCHANGED <<epollVars, peerVars, rcvd, roomVars, parseVars,
                       authVars, saved, handled>>

(* TrySend of SendAuthResponse, then EPOLLOUT is asked for if the byte     *)
(* could not leave.                                                        *)
SendAuthResponse ==
  /\ pc = "answer"
  /\ \/ TrySendFails /\ CloseSession
     \/ /\ TrySendAgain
        /\ UpdateEpollEvents(TRUE)
        /\ EventDone("in")
        /\ UNCHANGED <<answers, response, peerVars, rcvd, roomVars, parseVars,
                       authVars, saved, handled>>
     \/ /\ TrySendDone
        /\ EventDone("in")
        /\ UNCHANGED <<epollVars, peerVars, rcvd, roomVars, parseVars,
                       authVars, saved, handled>>

-----------------------------------------------------------------------------
Server ==
  \/ EpollWait
  \/ HandleEvent
  \/ HandleOutEvent
  \/ TryRecv
  \/ ParseMessage
  \/ Dispatch
  \/ SendAuthResponse

Next == Environment \/ Server

Spec == Init /\ [][Next]_vars

(* The server's thread keeps running, and the peer keeps reading what it   *)
(* is sent; nothing else is promised.                                      *)
FairSpec == Spec /\ WF_vars(Server) /\ WF_vars(RoomFreed)
-----------------------------------------------------------------------------
(* Correctness. *)

(* No byte is lost, repeated or moved between the socket and the parser:   *)
(* the header being assembled and the unparsed buffer are, in order, the   *)
(* part of the peer's stream after the last completed message              *)
(* (FromReqToVec, ParseMessage and TryRecv, session.cc:110-190).           *)
StreamIntact ==
  type_vec \o size_vec \o request = SubSeq(stream, start + 1, rcvd)

(* A message is cut out of the stream where its header says, whatever the  *)
(* sizes in which recv() delivered it: its type is the byte where it       *)
(* begins, its body the bytes after the header, as many as the header      *)
(* says, and the next message begins no earlier than it ends               *)
(* (ParseMessage, session.cc:121-160).                                     *)
FrameExact(m) ==
  /\ m.type = stream[m.at + 1]
  /\ Len(m.body) = PeekUint32(SubSeq(stream, m.at + 2, m.at + 5))
  /\ m.body = SubSeq(stream, m.at + 6, m.at + 5 + Len(m.body))

FrameEnd(m) == m.at + 5 + Len(m.body)

Frames == handled \o messages

FramesExact ==
  /\ \A i \in DOMAIN Frames : FrameExact(Frames[i]) /\ FrameEnd(Frames[i]) <= start
  /\ \A i, j \in DOMAIN Frames : i < j => FrameEnd(Frames[i]) <= Frames[j].at

(* The last thing the peer is told, or will be once its byte leaves, is    *)
(* the outcome of its last authentication: an answer still waiting is      *)
(* replaced, never queued behind (SendAuthResponse and TrySend,            *)
(* session.cc:192-232).                                                    *)
LatestVerdictAnswered ==
  /\ Len(response) <= 1
  /\ verdict # "none" =>
       LET told == answers \o response
       IN  told # <<>> /\ told[Len(told)] = verdict

(* Edge-triggered epoll loses nothing: while the server sleeps with the    *)
(* descriptor not in the ready list, nothing waits in the socket, and an   *)
(* unsent answer waits for an EPOLLOUT that is registered and has yet to   *)
(* come (server.cc:154-196 and TryRecv's loop, session.cc:162-190).        *)
NoLostEdge ==
  pc = "wait" /\ ~ready =>
    /\ ~Readable
    /\ response # <<>> => wantOut /\ ~canSend

(* What lies between an event and the next call of epoll_wait. *)
Ahead ==
  [event |-> 6, flush |-> 5, recv |-> 4, parse |-> 3, dispatch |-> 2,
   answer |-> 1, wait |-> 0, closed |-> 0]

Nearer ==
  \/ Ahead[pc'] < Ahead[pc]
  \/ pc = "recv" /\ pc' = "recv" /\ rcvd < rcvd'
  \/ pc = "parse" /\ pc' = "parse" /\ Len(request') < Len(request)

(* Each step of a handler that changes anything brings it nearer to its    *)
(* return: no call is made twice for one event, and the loops consume what *)
(* they loop over.  Only a peer that keeps sending can keep TryRecv, and   *)
(* only a length of zero ParseMessage (session.cc:110-232,                 *)
(* server.cc:144-230).                                                     *)
HandlerApproachesReturn == [][Server /\ pc # "wait" => Nearer]_vars

(* Every handler gives the thread back to epoll_wait. *)
HandlerReturns == pc # "wait" ~> pc \in {"wait", "closed"}

(* An answer that could not be sent at once leaves when there is room.     *)
AnswerLeaves == response # <<>> ~> (response = <<>> \/ pc = "closed")
=============================================================================
