------------------------------- MODULE Client -------------------------------
(***************************************************************************)
(* The client program: main (client/src/main.cc) and Client::Run           *)
(* (client.cc), with the parser, the grabber and the handles they own.     *)
(* The server's program shares the first half of main and goes on in       *)
(* module Server.  Messages are counted in pieces, a header being one.     *)
(***************************************************************************)
EXTENDS InputParser, ScreenGrabber

CONSTANTS
  Sockets,    \* handles of socket()
  AuthPieces  \* length of the authentication request

ASSUME ClientAssumption ==
  /\ {"temporary", "_server_fd"} \subseteq Owners
  /\ Sockets \subseteq Resources \ (Displays \cup XImages)
  /\ AuthPieces \in Nat \ {0}

VARIABLES
  pc, stop_flag,
  unsent,        \* pieces SendAll has still to send
  waited,        \* seconds WaitLoop has slept
  peer, room,    \* the connection, and room in its send buffer
  answer,        \* what the server sent
  due            \* history: see TypeOK

connVars == <<peer, room, answer>>
sendVars == <<unsent, due>>
vars == <<parserVars, resourceVars, grabberVars, connVars, sendVars, pc,
          stop_flag, waited>>

Connected == {"send_auth", "recv", "loop", "grab", "send_img", "wait"}

Places == Connected \cup {"parse", "socket", "assign", "connect", "leave",
                          "exit", "abort", "server"}

TypeOK ==
  /\ ResourceTypeOK
  /\ outcome \in Outcomes /\ grab \in GrabPlaces /\ png \in {0, 1}
  /\ pc \in Places
  /\ stop_flag \in BOOLEAN /\ room \in BOOLEAN
  /\ unsent \in Nat /\ waited \in Nat
  /\ peer \in {"none", "open", "closed", "reset"}
  /\ answer \in {"none", "Y", "N"}
  /\ due \in Nat        \* pieces the server misses of the message begun

Init ==
  /\ InitStructs /\ ResourceInit /\ GrabberInit
  /\ pc = "parse" /\ stop_flag = FALSE
  /\ unsent = 0 /\ waited = 0
  /\ peer = "none" /\ room = TRUE /\ answer = "none"
  /\ due = 0

-----------------------------------------------------------------------------
(* main *)

ParseStep ==
  /\ pc = "parse" /\ Parse
  /\ UNCHANGED <<resourceVars, grabberVars, connVars, sendVars, pc, stop_flag,
                 waited>>

(* Only invalid_argument is caught. *)
MainCatches ==
  /\ pc = "parse" /\ outcome \notin {"parsing", "parsed"}
  /\ pc' = IF outcome = "invalid_argument" THEN "exit" ELSE "abort"
  /\ UNCHANGED <<parserVars, resourceVars, grabberVars, connVars, sendVars,
                 stop_flag, waited>>

(* Client's constructor and the first lines of Run; the words are no more  *)
(* looked at.  The other program constructs its Server.                    *)
Run ==
  /\ pc = "parse" /\ outcome = "parsed"
  /\ \/ /\ prog_type = "client"
        /\ Construct("_server_fd", Invalid)
        /\ pc' = "socket"
     \/ /\ prog_type = "server"
        /\ pc' = "server"
        /\ UNCHANGED resourceVars
  /\ argv' = <<>> /\ optind' = 1
  /\ UNCHANGED <<prog_type, option_enabled_ht, host, port, period, outcome,
                 grabberVars, connVars, sendVars, stop_flag, waited>>

-----------------------------------------------------------------------------
(* SetupSocket *)

MakeSocket(r) ==
  /\ pc = "socket"
  /\ r \in Sockets \cup {Invalid}
  /\ Construct("temporary", r)
  /\ pc' = "assign"
  /\ UNCHANGED <<parserVars, grabberVars, connVars, sendVars, stop_flag, waited>>

AssignSocket ==
  /\ pc = "assign"
  /\ MoveAssign("_server_fd", "temporary")
  /\ pc' = "connect"
  /\ UNCHANGED <<parserVars, grabberVars, connVars, sendVars, stop_flag, waited>>

(* The temporary dies; socket() or connect() failed, or the server is there. *)
(* inet_pton cannot fail: ParseHost has accepted the same string.            *)
Connect ==
  /\ pc = "connect"
  /\ LeaveScope({"temporary"})
  /\ \/ /\ pc' = "leave"
        /\ UNCHANGED <<peer, unsent>>
     \/ /\ Valid("_server_fd")
        /\ peer' = "open"
        /\ unsent' = AuthPieces
        /\ pc' = "send_auth"
  /\ UNCHANGED <<parserVars, grabberVars, room, answer, due, stop_flag, waited>>

-----------------------------------------------------------------------------
(* SendAll, one send() that accepts n pieces; then RecvAll or WaitLoop.    *)

(* The server's view: a header tells it how much the message has. *)
Deliver(n) == due' = IF due = 0 THEN unsent - n ELSE due - n

AfterSendAll == pc' = IF pc = "send_auth" THEN "recv" ELSE "wait"

(* Slip: a send() that takes less than all is good enough. *)
SendAllOnce(n) ==
  /\ pc \in {"send_auth", "send_img"} /\ n \in 1 .. unsent
  /\ peer # "reset" /\ room
  /\ Deliver(n)
  /\ unsent' = 0
  /\ AfterSendAll
  /\ UNCHANGED <<parserVars, resourceVars, grabberVars, connVars, stop_flag,
                 waited>>

SendAll(n) ==
  /\ pc \in {"send_auth", "send_img"} /\ n \in 1 .. unsent
  /\ peer # "reset" /\ room
  /\ Deliver(n)
  /\ unsent' = unsent - n
  /\ IF n = unsent THEN AfterSendAll ELSE UNCHANGED pc
  /\ UNCHANGED <<parserVars, resourceVars, grabberVars, connVars, stop_flag,
                 waited>>

(* Slip: the loop survives every error, not only the grabber's. *)
SendFailsSkipsImage ==
  /\ pc \in {"send_auth", "send_img"} /\ peer # "open"
  /\ pc' = IF pc = "send_auth" THEN "leave" ELSE "wait"
  /\ unsent' = 0
  /\ UNCHANGED <<parserVars, resourceVars, grabberVars, connVars, due, stop_flag,
                 waited>>

(* The runtime_error ends in TryAuthenticate or in Run. *)
SendFails ==
  /\ pc \in {"send_auth", "send_img"} /\ peer # "open"
  /\ pc' = "leave"
  /\ UNCHANGED <<parserVars, resourceVars, grabberVars, connVars, sendVars,
                 stop_flag, waited>>

(* Slip: any answer will do. *)
RecvAnswerAny ==
  /\ pc = "recv" /\ answer # "none"
  /\ pc' = "loop"
  /\ UNCHANGED <<parserVars, resourceVars, grabberVars, connVars, sendVars,
                 stop_flag, waited>>

(* RecvAll of the answer, one byte; it blocks whatever stop_flag says. *)
RecvAnswer ==
  /\ pc = "recv" /\ answer # "none"
  /\ pc' = IF answer = "Y" THEN "loop" ELSE "leave"
  /\ UNCHANGED <<parserVars, resourceVars, grabberVars, connVars, sendVars,
                 stop_flag, waited>>

RecvFails ==
  /\ pc = "recv"
  /\ peer = "reset" \/ (peer = "closed" /\ answer = "none")
  /\ pc' = "leave"
  /\ UNCHANGED <<parserVars, resourceVars, grabberVars, connVars, sendVars,
                 stop_flag, waited>>

-----------------------------------------------------------------------------
(* SendLoop and WaitLoop *)

(* Slip: while (true), with the flag left to WaitLoop. *)
SendLoopForever ==
  /\ pc = "loop"
  /\ pc' = "grab" /\ grab' = "open"
  /\ UNCHANGED <<parserVars, resourceVars, screen, png, connVars, sendVars,
                 stop_flag, waited>>

SendLoop ==
  /\ pc = "loop"
  /\ pc' = IF stop_flag THEN "leave" ELSE "grab"
  /\ grab' = IF stop_flag THEN "idle" ELSE "open"
  /\ UNCHANGED <<parserVars, resourceVars, screen, png, connVars, sendVars,
                 stop_flag, waited>>

Grab ==
  /\ pc = "grab" /\ GrabAsPNG
  /\ UNCHANGED <<parserVars, connVars, sendVars, pc, stop_flag, waited>>

(* Slip: the exception is looked for among the runtime errors. *)
GrabReturnsUncaught ==
  /\ pc = "grab" /\ LeaveGrabAsPNG
  /\ pc' = IF grab = "throw" THEN "leave" ELSE "send_img"
  /\ unsent' = IF grab = "throw" THEN 0 ELSE 1 + png
  /\ UNCHANGED <<parserVars, connVars, due, stop_flag, waited>>

(* The rest of CreateImgMessage, or the handler of grabber_error. *)
GrabReturns ==
  /\ pc = "grab" /\ LeaveGrabAsPNG
  /\ pc' = IF grab = "throw" THEN "wait" ELSE "send_img"
  /\ unsent' = IF grab = "throw" THEN 0 ELSE 1 + png
  /\ UNCHANGED <<parserVars, connVars, due, stop_flag, waited>>

(* Slip: the flag is left to SendLoop. *)
WaitLoopSleepsOut ==
  /\ pc = "wait"
  /\ LET over == waited >= period
     IN  /\ pc' = IF over THEN "loop" ELSE "wait"
         /\ waited' = IF over THEN 0 ELSE waited + 1
  /\ UNCHANGED <<parserVars, resourceVars, grabberVars, connVars, sendVars,
                 stop_flag>>

(* A second's sleep at a time; SIGINT does not cut it short. *)
WaitLoop ==
  /\ pc = "wait"
  /\ LET over == waited >= period \/ stop_flag
     IN  /\ pc' = IF over THEN "loop" ELSE "wait"
         /\ waited' = IF over THEN 0 ELSE waited + 1
  /\ UNCHANGED <<parserVars, resourceVars, grabberVars, connVars, sendVars,
                 stop_flag>>

(* Run returns and main's block ends: ~Client closes the socket. *)
Leave ==
  /\ pc = "leave"
  /\ LeaveScope({"_server_fd"})
  /\ pc' = "exit"
  /\ UNCHANGED <<parserVars, grabberVars, connVars, sendVars, stop_flag, waited>>

-----------------------------------------------------------------------------
(* The user, the server and the network. *)

progVars == <<parserVars, resourceVars, grabberVars, sendVars, pc, waited>>

(* signal_handler, from the first line of Run on. *)
Interrupt ==
  /\ pc \in Connected \cup {"socket", "assign", "connect"}
  /\ stop_flag' = TRUE
  /\ UNCHANGED <<progVars, connVars>>

ServerAnswers ==
  /\ pc = "recv" /\ peer = "open" /\ answer = "none"
  /\ answer' \in {"Y", "N"}
  /\ UNCHANGED <<progVars, stop_flag, peer, room>>

ServerEnds(how) ==
  /\ pc \in Connected /\ peer \in {"open", "closed"} \ {how}
  /\ peer' = how
  /\ UNCHANGED <<progVars, stop_flag, room, answer>>

RoomChanges ==
  /\ pc \in Connected
  /\ room' = ~room
  /\ UNCHANGED <<progVars, stop_flag, peer, answer>>

Environment ==
  \/ Interrupt
  \/ ServerAnswers
  \/ \E how \in {"closed", "reset"} : ServerEnds(how)
  \/ RoomChanges

Program ==
  \/ ParseStep
  \/ MainCatches
  \/ Run
  \/ \E r \in Sockets \cup {Invalid} : MakeSocket(r)
  \/ AssignSocket
  \/ Connect
  \/ \E n \in 1 .. unsent : SendAll(n)
  \/ SendFails
  \/ RecvAnswer
  \/ RecvFails
  \/ SendLoop
  \/ Grab
  \/ GrabReturns
  \/ WaitLoop
  \/ Leave

Next == Environment \/ Program

Spec == Init /\ [][Next]_vars

(* The program runs whenever it is not blocked; the user, the server and   *)
(* the network promise nothing.                                            *)
FairSpec == Spec /\ WF_vars(Program)
-----------------------------------------------------------------------------
(* Correctness. *)

(* Display and image are open during a grab only, however it ends, and a   *)
(* program that has ended has everything closed (screen_grabber.cc:113-134,*)
(* client.cc:51-56).                                                       *)
HeldOnlyInUse ==
  /\ pc # "grab" => open \subseteq Sockets
  /\ pc \in Connected => open \cap Sockets = {resource["_server_fd"]}
  /\ pc \in {"exit", "abort", "server"} => open = {}

(* The server never finds the header of one message inside another: a      *)
(* message that send() cut short is completed, or nothing follows it       *)
(* (SendAll and SendLoop, client.cc:133-156 and 211-225).                  *)
FramesWhole ==
  /\ pc \in Connected \ {"send_auth", "send_img"} => due = 0
  /\ pc \in {"send_auth", "send_img"} => due \in {0, unsent}

(* Run ends because of the user, a refusal, or a connection that was not   *)
(* made or is there no more, never because the screen could not be         *)
(* grabbed, and no exception of Run ends the program (client.cc:219, 239). *)
EndExplained ==
  outcome = "parsed" =>
    /\ pc = "exit" => stop_flag \/ answer = "N" \/ peer # "open"
    /\ pc # "abort"

(* What the command line says is what the program starts with; one that    *)
(* says nothing, or a period over the code's own limit, starts nothing;    *)
(* and Parse says why it throws.                                           *)
CommandLineObeyed == pc = "parse" => ParsedExactly /\ ThrownExplained

(* A client is stopped by SIGINT unless it hangs in recv() or in send(),   *)
(* which look at no flag (client.cc:138, 162).                             *)
Blocked ==
  \/ pc = "recv" /\ answer = "none" /\ peer = "open"
  \/ pc \in {"send_auth", "send_img"} /\ ~room /\ peer = "open"

StopsUnlessBlocked == (stop_flag ~> pc = "exit") \/ []<>Blocked

(* What lies between SIGINT and the end: the places still ahead, and what  *)
(* is left to do at the one the program is at.                             *)
Ahead ==
  [socket |-> 9, assign |-> 8, connect |-> 7, send_auth |-> 6, recv |-> 5,
   grab |-> 5, send_img |-> 4, wait |-> 3, loop |-> 2, leave |-> 1, exit |-> 0]

GrabAhead ==
  [open |-> 9, return_disp |-> IF "disp" \in live THEN 7 ELSE 8,
   attributes |-> 6, capture |-> 5, return_img |-> IF "img" \in live THEN 3 ELSE 4,
   convert |-> 2, encode |-> 1, grabbed |-> 0, throw |-> 0]

Left ==
  CASE pc \in {"send_auth", "send_img"} -> unsent
    [] pc = "grab"                      -> GrabAhead[grab]
    [] OTHER                            -> 0

Nearer ==
  /\ {pc, pc'} \subseteq DOMAIN Ahead
  /\ \/ Ahead[pc'] < Ahead[pc]
     \/ pc' = pc /\ Left' < Left

(* After SIGINT the program is on its way out: each of its steps brings it *)
(* nearer to the end, so that nothing is begun anew, no grab, no image but *)
(* the one under way, not even a second of sleep, and its steps are        *)
(* numbered, however the calls it still makes end (client.cc:133-225;      *)
(* screen_grabber.cc:113-134).                                             *)
StopsInBoundedSteps ==
  [][stop_flag => Nearer \/ UNCHANGED progVars]_vars

Phase ==
  IF pc \in {"leave", "exit", "abort", "server"} THEN "ended"
  ELSE IF answer = "Y" THEN "accepted"
  ELSE IF pc \in Connected \ {"send_auth"} THEN "asked"
  ELSE "silent"

Begun == due > 0

Protocol == INSTANCE ClientProtocol WITH phase <- Phase, begun <- Begun

(* Whatever goes wrong, the server sees a request, then, if it says yes,   *)
(* images, each complete before the next begins.                           *)
KeepsProtocol == Protocol!Spec
=============================================================================
