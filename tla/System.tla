------------------------------- MODULE System -------------------------------
(***************************************************************************)
(* Clients and server together, message by message, down to the files the  *)
(* server leaves.  What modules Client, Session and Server establish is    *)
(* taken as steps here: a message counts once it is written whole, and one *)
(* event of one connection is handled in one step, or hangs the server.  A *)
(* connection stands for one run of the client program.                    *)
(***************************************************************************)
EXTENDS Integers, Sequences

CONSTANTS
  Conns,
  Casts,        \* who the clients may be, see IsCast
  NoDir,        \* where a session without names would save
  MaxWritten,   \* bound: messages a client sends
  MaxClock,     \* bound: seconds
  MaxChanges    \* bound: starts of the server, and clocks set back

(* dir: the directory of the names a client sends, which the server        *)
(* accepts or not.  peer: its address without the dots, and its port;      *)
(* 1.11.1.1 and 11.1.1.1 are the same (GetStringFromHostPort).             *)
IsCast(w) ==
  /\ w \in [Conns -> {w[c] : c \in Conns}]
  /\ \A c \in Conns : w[c].dir # NoDir /\ w[c].accepted \in BOOLEAN

ASSUME SystemAssumption ==
  /\ \A w \in Casts : IsCast(w)
  /\ {MaxWritten, MaxClock, MaxChanges} \subseteq Nat

VARIABLES
  who, at,          \* the clients: their identities and where they are
  written,          \* messages each has sent: the request is 0, then images
  wire, fin,        \* what the server has not read; the end it can see
  session, edge,    \* of each connection; an event of it is due
  messages,         \* _messages of each session
  dir, answer,      \* _client_hostname and _client_username; what was sent
  up, clock, disk,  \* the server exists; local time; the files it has saved
  arrival, hung,    \* an event of the listening socket is due; a handler of
                    \* the server does not come back
  handled, filed,   \* history: messages handled, images reported as saved
  changes, setBack  \* history: for the bounds, and for FilesOrdered

clientVars == <<who, at, written>>
netVars    == <<wire, fin, edge>>
nameVars   == <<dir, answer>>
fileVars   == <<disk, filed>>
worldVars  == <<up, clock, changes, setBack>>
loopVars   == <<arrival, hung>>
vars == <<clientVars, netVars, session, messages, nameVars, fileVars,
          worldVars, loopVars, handled>>

Image == [of : Conns, no : Nat, time : 0 .. MaxClock, whole : BOOLEAN]

TypeOK ==
  /\ who \in Casts
  /\ at \in [Conns -> {"idle", "asking", "asked", "sending", "ended"}]
  /\ written \in [Conns -> Nat]
  /\ wire \in [Conns -> Seq(Nat)] /\ fin \in [Conns -> BOOLEAN]
  /\ session \in [Conns -> {"none", "queued", "open", "closed"}]
  /\ \A c \in Conns : session[c] = "none" <=> at[c] = "idle"
  /\ edge \in [Conns -> BOOLEAN]
  /\ messages \in [Conns -> Seq(Nat)] /\ handled \in [Conns -> Seq(Nat)]
  /\ dir \in [Conns -> {NoDir} \cup {who[c].dir : c \in Conns}]
  /\ answer \in [Conns -> {"none", "Y", "N"}]
  /\ {up, arrival, hung, setBack} \subseteq BOOLEAN
  /\ clock \in 0 .. MaxClock /\ changes \in Nat
  /\ filed \subseteq Image
  /\ \A f \in disk : f.image \in filed

Init ==
  /\ who \in Casts
  /\ at = [c \in Conns |-> "idle"] /\ written = [c \in Conns |-> 0]
  /\ wire = [c \in Conns |-> <<>>] /\ fin = [c \in Conns |-> FALSE]
  /\ session = [c \in Conns |-> "none"] /\ edge = [c \in Conns |-> FALSE]
  /\ messages = [c \in Conns |-> <<>>] /\ handled = [c \in Conns |-> <<>>]
  /\ dir = [c \in Conns |-> NoDir] /\ answer = [c \in Conns |-> "none"]
  /\ up = TRUE /\ arrival = FALSE /\ hung = FALSE
  /\ setBack = FALSE /\ clock = 0 /\ changes = 0
  /\ disk = {} /\ filed = {}

-----------------------------------------------------------------------------
(* A client.                                                               *)

serverVars == <<session, messages, nameVars, fileVars, worldVars, loopVars,
                handled>>

Connect(c) ==
  /\ at[c] = "idle" /\ up
  /\ at' = [at EXCEPT ![c] = "asking"]
  /\ session' = [session EXCEPT ![c] = "queued"]
  /\ arrival' = TRUE
  /\ UNCHANGED <<who, written, netVars, messages, nameVars, fileVars,
                 worldVars, hung, handled>>

SendAll(c) ==
  /\ written' = [written EXCEPT ![c] = @ + 1]
  /\ wire' = [wire EXCEPT ![c] = Append(@, written[c])]
  /\ edge' = [edge EXCEPT ![c] = TRUE]
  /\ UNCHANGED <<who, fin, serverVars>>

Ask(c) ==
  /\ at[c] = "asking"
  /\ at' = [at EXCEPT ![c] = "asked"]
  /\ SendAll(c)

SendImage(c) ==
  /\ at[c] = "sending" /\ written[c] < MaxWritten
  /\ SendAll(c)
  /\ UNCHANGED at

(* The end of a client is seen by the server, or its machine is lost. *)
Leave(c, seen) ==
  /\ at' = [at EXCEPT ![c] = "ended"]
  /\ fin' = [fin EXCEPT ![c] = seen]
  /\ edge' = [edge EXCEPT ![c] = @ \/ seen]
  /\ UNCHANGED <<who, written, wire, serverVars>>

(* Slip: any answer will do. *)
TryAuthenticateAny(c) ==
  /\ at[c] = "asked" /\ answer[c] # "none"
  /\ at' = [at EXCEPT ![c] = "sending"]
  /\ UNCHANGED <<who, written, netVars, serverVars>>

(* The answer, or the end of the session without one. *)
TryAuthenticate(c) ==
  /\ at[c] = "asked"
  /\ \/ /\ answer[c] = "Y"
        /\ at' = [at EXCEPT ![c] = "sending"]
        /\ UNCHANGED <<who, written, netVars, serverVars>>
     \/ /\ answer[c] = "N" \/ (answer[c] = "none" /\ session[c] = "closed")
        /\ Leave(c, TRUE)

(* SIGINT, an error of send(), or the loss of the machine. *)
ClientEnds(c) ==
  /\ at[c] \in {"asking", "asked", "sending"}
  /\ \E seen \in BOOLEAN : Leave(c, seen)

-----------------------------------------------------------------------------
(* The server, one event of one connection at a time.                      *)

(* Slip: what arrived before the descriptor was registered is not polled.  *)
AcceptUnpolled(c) ==
  /\ up /\ ~hung /\ arrival /\ session[c] = "queued"
  /\ session' = [session EXCEPT ![c] = "open"]
  /\ edge' = [edge EXCEPT ![c] = FALSE]
  /\ UNCHANGED <<clientVars, wire, fin, messages, nameVars, fileVars,
                 worldVars, loopVars, handled>>

(* One turn of the accept loop; a connection that cannot be registered is  *)
(* dropped.                                                                *)
Accept(c) ==
  /\ up /\ ~hung /\ arrival /\ session[c] = "queued"
  /\ \E s \in {"open", "closed"} : session' = [session EXCEPT ![c] = s]
  /\ edge' = [edge EXCEPT ![c] = wire[c] # <<>> \/ fin[c]]
  /\ UNCHANGED <<clientVars, wire, fin, messages, nameVars, fileVars,
                 worldVars, loopVars, handled>>

(* An error of accept() ends the loop: those still queued wait for the next *)
(* connection to announce them.                                            *)
AcceptFails ==
  /\ up /\ ~hung /\ arrival
  /\ \E c \in Conns : session[c] = "queued"
  /\ arrival' = FALSE
  /\ UNCHANGED <<clientVars, netVars, session, messages, nameVars, fileVars,
                 worldVars, hung, handled>>

Event(c) ==
  /\ up /\ ~hung /\ session[c] = "open" /\ edge[c]
  /\ edge' = [edge EXCEPT ![c] = FALSE]
  /\ UNCHANGED <<clientVars, fin, worldVars>>

(* Slip: the entry is erased, and the peer is a new one. *)
CloseSessionForgets(c) ==
  /\ Event(c) /\ fin[c]
  /\ session' = [session EXCEPT ![c] = "none"]
  /\ UNCHANGED <<wire, messages, nameVars, fileVars, loopVars, handled>>

(* TryRecv meets the end: nothing of what it read or had queued is handled. *)
CloseSession(c) ==
  /\ Event(c) /\ fin[c]
  /\ session' = [session EXCEPT ![c] = "closed"]
  /\ UNCHANGED <<wire, messages, nameVars, fileVars, loopVars, handled>>

(* TryRecv and ParseMessage read all there is, behind what is queued.      *)
Queue(c) == messages[c] \o wire[c]

(* Slip: the message that came last. *)
Newest(c) == Queue(c)[Len(Queue(c))]

Oldest(c) == Head(Queue(c))

(* Slip: the queue is emptied with the message handled.                    *)
PopMessageEmpties(c) ==
  /\ messages' = [messages EXCEPT ![c] = <<>>]
  /\ wire' = [wire EXCEPT ![c] = <<>>]
  /\ handled' = [handled EXCEPT ![c] = Append(@, Oldest(c))]

(* One message for each event; the others wait for the next one.           *)
PopMessage(c) ==
  /\ messages' = [messages EXCEPT ![c] = Tail(Queue(c))]
  /\ wire' = [wire EXCEPT ![c] = <<>>]
  /\ handled' = [handled EXCEPT ![c] = Append(@, Oldest(c))]

(* The names are stored whether they are accepted or not.                  *)
HandleAuthRequest(c) ==
  /\ Event(c) /\ ~fin[c]
  /\ Queue(c) # <<>> /\ Oldest(c) = 0
  /\ dir' = [dir EXCEPT ![c] = who[c].dir]
  /\ answer' = [answer EXCEPT ![c] = IF who[c].accepted THEN "Y" ELSE "N"]
  /\ PopMessage(c)
  /\ UNCHANGED <<session, fileVars, loopVars>>

(* The name of a file is its time to the second, its directory, its peer.  *)
(* Slip: the peer is left out, one user's machines being one. *)
PathWithoutPeer(c, time) == [dir |-> dir[c], time |-> time]

Path(c, time) == [dir |-> dir[c], time |-> time, peer |-> who[c].peer]

(* A write that fails half-way is reported as saved all the same.          *)
SaveScreen(c, whole) ==
  LET image == [of |-> c, no |-> Oldest(c), time |-> clock,
                whole |-> whole]
      path  == Path(c, clock)
  IN  /\ disk' = {f \in disk : f.path # path}
                   \cup {[path |-> path, image |-> image]}
      /\ filed' = filed \cup {image}

(* Slip: an image that was saved stays in the queue. *)
HandleImgMessageUnpopped(c) ==
  /\ Event(c) /\ ~fin[c]
  /\ Queue(c) # <<>> /\ Oldest(c) # 0
  /\ \E whole \in BOOLEAN : SaveScreen(c, whole)
  /\ messages' = [messages EXCEPT ![c] = Queue(c)]
  /\ wire' = [wire EXCEPT ![c] = <<>>]
  /\ handled' = [handled EXCEPT ![c] = Append(@, Oldest(c))]
  /\ UNCHANGED <<session, nameVars, loopVars>>

(* A directory or a file that cannot be made is reported, and the image    *)
(* popped all the same.                                                    *)
HandleImgMessage(c) ==
  /\ Event(c) /\ ~fin[c]
  /\ Queue(c) # <<>> /\ Oldest(c) # 0
  /\ \/ \E whole \in BOOLEAN : SaveScreen(c, whole)
     \/ UNCHANGED fileVars
  /\ PopMessage(c)
  /\ UNCHANGED <<session, nameVars, loopVars>>

(* ParseMessage meets an image without bytes, which is what the client     *)
(* sends when its encoder fails, and does not return (Session!ParseEmpty). *)
HangOn(c) ==
  /\ Event(c) /\ ~fin[c]
  /\ \E i \in DOMAIN wire[c] : wire[c][i] # 0
  /\ hung' = TRUE
  /\ UNCHANGED <<wire, session, messages, nameVars, fileVars, arrival, handled>>

Serve(c) ==
  \/ Accept(c)
  \/ CloseSession(c)
  \/ HandleAuthRequest(c)
  \/ HandleImgMessage(c)

-----------------------------------------------------------------------------
(* The server stops at SIGINT, or is killed, every Session going with it,  *)
(* and is started anew; time passes, and is set back (local time in        *)
(* autumn, or by hand).                                                    *)

StopServer ==
  /\ up
  /\ up' = FALSE /\ arrival' = FALSE /\ hung' = FALSE
  /\ session' = [c \in Conns |-> IF session[c] = "none" THEN "none"
                                                        ELSE "closed"]
  /\ UNCHANGED <<clientVars, netVars, messages, nameVars, fileVars, clock,
                 changes, setBack, handled>>

StartServer ==
  /\ ~up /\ changes < MaxChanges
  /\ up' = TRUE /\ changes' = changes + 1
  /\ UNCHANGED <<clientVars, netVars, session, messages, nameVars, fileVars,
                 clock, setBack, loopVars, handled>>

Tick ==
  /\ clock < MaxClock
  /\ clock' = clock + 1
  /\ UNCHANGED <<clientVars, netVars, session, messages, nameVars, fileVars,
                 up, changes, setBack, loopVars, handled>>

SetBack ==
  /\ changes < MaxChanges
  /\ clock' \in 0 .. clock - 1
  /\ changes' = changes + 1 /\ setBack' = TRUE
  /\ UNCHANGED <<clientVars, netVars, session, messages, nameVars, fileVars,
                 up, loopVars, handled>>

Next ==
  \/ \E c \in Conns :
       Connect(c) \/ Ask(c) \/ SendImage(c) \/ TryAuthenticate(c)
         \/ ClientEnds(c) \/ Serve(c) \/ HangOn(c)
  \/ AcceptFails
  \/ StopServer
  \/ StartServer
  \/ Tick
  \/ SetBack

Spec == Init /\ [][Next]_vars

(* A client that waits for its answer reads it.  The server gets round to  *)
(* every connection that has something for it, as long as no handler hangs *)
(* it (Server!EveryoneServed), and to those queued as long as no error of  *)
(* accept() keeps it from them (Server!EveryoneAccepted): Serve(c) is      *)
(* disabled otherwise.  Neither HangOn nor AcceptFails need ever happen.   *)
FairSpec ==
  Spec /\ \A c \in Conns : WF_vars(TryAuthenticate(c)) /\ WF_vars(Serve(c))
-----------------------------------------------------------------------------
(* Correctness.                                                            *)

(* As long as its session lives, everything a client has sent is in one of *)
(* three places, in order: handled, queued, or not yet read                *)
(* (HandleInEvent, server.cc:168-196).                                     *)
Everything(c) == handled[c] \o messages[c] \o wire[c]

NothingLostWhileOpen ==
  \A c \in Conns :
    session[c] # "closed" =>
      Everything(c) = [i \in 1 .. written[c] |-> i - 1]

(* Every file lies in the directory of a client whose names the server has *)
(* accepted, and is an image that client sent.  The server saves whatever  *)
(* image it gets, under names stored before they are validated             *)
(* (session.cc:250-285, 308); only the client's side of the protocol keeps *)
(* the images of a refused one away (client.cc:189, 236).                  *)
FilesAuthentic ==
  \A f \in disk :
    LET c == f.image.of
    IN  /\ f.path.dir = who[c].dir
        /\ who[c].accepted
        /\ f.image.no \in 1 .. written[c] - 1

(* Sorted by the time in their names, the files of a client are its images *)
(* in the order it took them, unless the local time was set back           *)
(* (SaveScreen, session.cc:251; HandleImgMessage, 281-285).                *)
FilesOrdered ==
  ~setBack =>
    \A f, g \in disk :
      f.image.of = g.image.of /\ f.image.time < g.image.time =>
        f.image.no < g.image.no

(* An image reported as saved is on disk, or has been replaced by one that *)
(* was reported with the same names, address and second: nothing else      *)
(* destroys an image, neither other clients nor a restart                  *)
(* (session.cc:242-266).                                                   *)
SameName(i, j) ==
  /\ i.time = j.time
  /\ who[i.of].dir = who[j.of].dir /\ who[i.of].peer = who[j.of].peer

KeptUnlessSameName ==
  \A i \in filed :
    \E f \in disk : SameName(i, f.image)

(* A client that has asked is answered, or learns that it will not be,     *)
(* whenever the server stops and starts, unless a handler of the server,   *)
(* its own or another client's, hangs, or an error of accept() leaves it   *)
(* in the backlog (client.cc:180-199; server.cc:93-97, session.cc:135).    *)
EveryoneAnswered ==
  \A c \in Conns :
    at[c] = "asked"
      ~> at[c] # "asked" \/ hung \/ (session[c] = "queued" /\ ~arrival)

Made == [c \in Conns |-> IF written[c] = 0 THEN 0 ELSE written[c] - 1]

Handled == [c \in Conns |-> IF handled[c] = <<>> THEN 0 ELSE Len(handled[c]) - 1]

Unharmed == {[of |-> f.image.of, no |-> f.image.no] :
               f \in {g \in disk : g.image.whole}}

Promise ==
  INSTANCE Archive WITH made <- Made, handled <- Handled, archive <- Unharmed

(* Images are handled in the order they were made, none twice, and saving  *)
(* one costs at most one other.                                            *)
KeepsPromise == Promise!Spec
=============================================================================
