---------------------------- MODULE ClientProofs ----------------------------
(***************************************************************************)
(* Theorems about the client program, for any set of command lines,        *)
(* screens, handles and lengths.                                           *)
(***************************************************************************)
EXTENDS Client, UniqueResourceProofs, InputParserProofs

-----------------------------------------------------------------------------
(* The program touches its handles through UniqueResource only.            *)

GrabberOwners == {"u_disp", "disp", "u_ximg", "img"}

LEMMA GrabManaged == GrabAsPNG => ResourceNext \/ UNCHANGED resourceVars
<1>1. ASSUME NEW r \in Displays \cup {Invalid}, OpenDisplay(r) PROVE ResourceNext
  BY <1>1, GrabberAssumption DEF OpenDisplay, ResourceNext
<1>2. ASSUME NEW r \in XImages \cup {Invalid}, CaptureImage(r) PROVE ResourceNext
  BY <1>2, GrabberAssumption DEF CaptureImage, ResourceNext
<1>3. ReturnDisplay => ResourceNext
  <2>1. ReturnDisplay => \/ MoveConstruct("disp", "u_disp")
                         \/ LeaveScope({"u_disp"}) /\ {"u_disp"} \in SUBSET live
    BY DEF ReturnDisplay, LeaveScope
  <2> QED
    BY <2>1, GrabberAssumption DEF ResourceNext
<1>4. ReturnImage => ResourceNext
  <2>1. ReturnImage => \/ MoveConstruct("img", "u_ximg")
                       \/ LeaveScope({"u_ximg"}) /\ {"u_ximg"} \in SUBSET live
    BY DEF ReturnImage, LeaveScope
  <2> QED
    BY <2>1, GrabberAssumption DEF ResourceNext
<1>5. GetScreenAttributes \/ Convert \/ EncodePNG => UNCHANGED resourceVars
  BY DEF GetScreenAttributes, Convert, EncodePNG, GrabGoes
<1> QED
  BY <1>1, <1>2, <1>3, <1>4, <1>5 DEF GrabAsPNG

LEMMA EnvironmentKeepsHandles == Environment => UNCHANGED resourceVars
BY DEF Environment, Interrupt, ServerAnswers, ServerEnds, RoomChanges, progVars

LEMMA ProgramManaged == Program => ResourceNext \/ UNCHANGED resourceVars
<1>1. ParseStep \/ MainCatches => UNCHANGED resourceVars
  BY DEF ParseStep, MainCatches
<1>2. Run => ResourceNext \/ UNCHANGED resourceVars
  <2>1. Construct("_server_fd", Invalid) => ResourceNext
    BY ClientAssumption DEF ResourceNext
  <2> QED
    BY <2>1 DEF Run
<1>3. ASSUME NEW r \in Sockets \cup {Invalid}, MakeSocket(r) PROVE ResourceNext
  BY <1>3, ClientAssumption DEF MakeSocket, ResourceNext
<1>4. AssignSocket => ResourceNext
  BY ClientAssumption DEF AssignSocket, ResourceNext
<1>5. Connect => ResourceNext
  <2>1. Connect => LeaveScope({"temporary"}) /\ {"temporary"} \in SUBSET live
    BY DEF Connect, LeaveScope
  <2> QED
    BY <2>1 DEF ResourceNext
<1>6. ASSUME NEW n \in 1 .. unsent, SendAll(n) PROVE UNCHANGED resourceVars
  BY <1>6 DEF SendAll
<1>7. SendFails \/ RecvAnswer \/ RecvFails \/ SendLoop \/ WaitLoop
        => UNCHANGED resourceVars
  BY DEF SendFails, RecvAnswer, RecvFails, SendLoop, WaitLoop
<1>8. Grab => ResourceNext \/ UNCHANGED resourceVars
  BY GrabManaged DEF Grab
<1>9. GrabReturns => ResourceNext
  <2>1. GrabReturns => LeaveScope(Locals) /\ Locals \in SUBSET live
    BY DEF GrabReturns, LeaveGrabAsPNG, Locals
  <2> QED
    BY <2>1 DEF ResourceNext
<1>10. Leave => ResourceNext
  <2>1. Leave => LeaveScope({"_server_fd"}) /\ {"_server_fd"} \in SUBSET live
    BY DEF Leave, LeaveScope
  <2> QED
    BY <2>1 DEF ResourceNext
<1> QED
  BY <1>1, <1>2, <1>3, <1>4, <1>5, <1>6, <1>7, <1>8, <1>9, <1>10 DEF Program

(* The client is a program of the kind UniqueResource is about: it         *)
(* implements ResourceSpec.                                                *)
THEOREM HandlesManaged == Spec => ResourceSpec
<1>1. Init => ResourceInit
  BY DEF Init
<1>2. [Next]_vars => [ResourceNext]_resourceVars
  <2>1. UNCHANGED vars => UNCHANGED resourceVars
    BY DEF vars
  <2> QED
    BY <2>1, EnvironmentKeepsHandles, ProgramManaged DEF Next
<1> QED
  BY <1>1, <1>2, PTL DEF Spec, ResourceSpec

(* Every display, image and socket of the client has exactly one owner. *)
THEOREM ClientHandlesOwnedOnce == Spec => []OwnedOnce
BY HandlesManaged, EveryHandleOwnedOnce

(* The client closes nothing twice and nothing that is not open. *)
THEOREM ClientMisusesNothing == Spec => []NeverMisused
BY HandlesManaged, NoHandleMisused

-----------------------------------------------------------------------------
(* Type correctness. *)

ControlTypeOK ==
  /\ outcome \in Outcomes /\ grab \in GrabPlaces /\ png \in {0, 1}
  /\ pc \in Places
  /\ stop_flag \in BOOLEAN /\ room \in BOOLEAN
  /\ unsent \in Nat /\ waited \in Nat
  /\ peer \in {"none", "open", "closed", "reset"}
  /\ answer \in {"none", "Y", "N"}
  /\ due \in Nat

(* A message begun is what remains to be sent, and nothing is begun        *)
(* outside SendAll: FramesWhole, also before the connection is up.         *)
FrameInv ==
  /\ FramesWhole
  /\ pc \in {"parse", "socket", "assign", "connect"} => due = 0

LEMMA ParserTyped ==
  ASSUME outcome \in Outcomes, Parse PROVE outcome' \in Outcomes
<1>1. SkipWord => outcome' \in Outcomes
  BY DEF SkipWord
<1>2. InvalidOption \/ DuplicateOption \/ MissingArgument \/ OptionsEnd
        => outcome' \in Outcomes
  BY DEF InvalidOption, DuplicateOption, MissingArgument, OptionsEnd, Throw,
         MissingOptions, Outcomes
<1>3. HandleOption => outcome' \in Outcomes
  <2>1. \A n : ParseNum(n) \in {"", "invalid_argument", "out_of_range"}
    BY DEF ParseNum
  <2>2. \A n, lo, hi :
          InRange(n, lo, hi) \in {"", "invalid_argument", "out_of_range"}
    BY <2>1 DEF InRange
  <2>3. \A w : /\ ParseSrv(w) \in Outcomes \cup {""}
              /\ ParsePeriod(w.number) \in Outcomes \cup {""}
              /\ ParsePort(w.number) \in Outcomes \cup {""}
    BY <2>2 DEF ParseSrv, ParsePeriod, ParsePort, Outcomes
  <2> QED
    BY <2>3 DEF HandleOption, Options
<1> QED
  BY <1>1, <1>2, <1>3 DEF Parse

LEMMA GrabTyped ==
  ASSUME ControlTypeOK, GrabAsPNG PROVE grab' \in GrabPlaces /\ png' \in {0, 1}
BY DEF ControlTypeOK, GrabAsPNG, OpenDisplay, ReturnDisplay, GetScreenAttributes,
       CaptureImage, ReturnImage, Convert, EncodePNG, GrabGoes, GrabPlaces

ControlInv == ControlTypeOK /\ FrameInv

LEMMA ControlInitially == Init => ControlInv
<1>1. Init => /\ outcome = "parsing" /\ grab = "idle" /\ png = 0 /\ pc = "parse"
              /\ stop_flag = FALSE /\ room = TRUE /\ unsent = 0 /\ waited = 0
              /\ peer = "none" /\ answer = "none" /\ due = 0
  BY DEF Init, InitStructs, GrabberInit
<1>2. Init => stop_flag \in BOOLEAN /\ room \in BOOLEAN
  BY <1>1, Zenon
<1>3. Init => /\ outcome \in Outcomes /\ grab \in GrabPlaces /\ pc \in Places
              /\ unsent \in Nat /\ waited \in Nat /\ due \in Nat
              /\ png \in {0, 1}
  BY <1>1 DEF Outcomes, GrabPlaces, Places
<1>4. Init => ControlTypeOK
  BY <1>1, <1>2, <1>3 DEF ControlTypeOK
<1>5. Init => FrameInv
  BY <1>1 DEF FrameInv, FramesWhole, Connected
<1> QED
  BY <1>4, <1>5 DEF ControlInv

LEMMA ParseAndRunTyped ==
  ASSUME ControlInv, ParseStep \/ MainCatches \/ Run
  PROVE  ControlInv'
<1> USE DEF ControlInv, ControlTypeOK, FrameInv, FramesWhole, Places, Connected,
            connVars, sendVars, grabberVars, parserVars
<1>1. ParseStep => ControlInv'
  BY ParserTyped DEF ParseStep
<1>2. MainCatches => ControlInv'
  BY DEF MainCatches
<1>3. Run => ControlInv'
  BY DEF Run
<1> QED
  BY <1>1, <1>2, <1>3

LEMMA SetupTyped ==
  ASSUME ControlInv,
         \/ \E r \in Sockets \cup {Invalid} : MakeSocket(r)
         \/ AssignSocket \/ Connect \/ Leave
  PROVE  ControlInv'
<1> USE DEF ControlInv, ControlTypeOK, FrameInv, FramesWhole, Places, Connected,
            connVars, sendVars, grabberVars, parserVars
<1>1. ASSUME NEW r \in Sockets \cup {Invalid}, MakeSocket(r) PROVE ControlInv'
  BY <1>1 DEF MakeSocket
<1>2. AssignSocket => ControlInv'
  BY DEF AssignSocket
<1>3. Connect => ControlInv'
  BY ClientAssumption DEF Connect
<1>4. Leave => ControlInv'
  BY DEF Leave
<1> QED
  BY <1>1, <1>2, <1>3, <1>4

LEMMA SendAllTyped ==
  ASSUME ControlInv, NEW n \in 1 .. unsent, SendAll(n)
  PROVE  ControlInv'
<1> USE DEF ControlInv, ControlTypeOK, FrameInv, FramesWhole, Places, Connected,
            connVars, sendVars, grabberVars, parserVars
<1>1. /\ pc \in {"send_auth", "send_img"} /\ unsent' = unsent - n
      /\ due' = unsent - n
  BY DEF SendAll, Deliver
<1>2. CASE n = unsent
  BY <1>1, <1>2 DEF SendAll, AfterSendAll
<1>3. CASE n # unsent
  BY <1>1, <1>3 DEF SendAll
<1> QED
  BY <1>2, <1>3

LEMMA SendLoopTyped ==
  ASSUME ControlInv,
         SendFails \/ RecvAnswer \/ RecvFails \/ SendLoop \/ WaitLoop
  PROVE  ControlInv'
<1> USE DEF ControlInv, ControlTypeOK, FrameInv, FramesWhole, Places, Connected,
            connVars, sendVars, grabberVars, parserVars
<1>1. SendFails => ControlInv'
  BY DEF SendFails
<1>2. RecvAnswer => ControlInv'
  BY DEF RecvAnswer
<1>3. RecvFails => ControlInv'
  BY DEF RecvFails
<1>4. SendLoop => ControlInv'
  BY DEF SendLoop, GrabPlaces
<1>5. WaitLoop => ControlInv'
  BY DEF WaitLoop
<1> QED
  BY <1>1, <1>2, <1>3, <1>4, <1>5

LEMMA GrabbingTyped ==
  ASSUME ControlInv, Grab \/ GrabReturns
  PROVE  ControlInv'
<1> USE DEF ControlInv, ControlTypeOK, FrameInv, FramesWhole, Places, Connected,
            connVars, sendVars, parserVars
<1>1. Grab => ControlInv'
  BY GrabTyped DEF Grab
<1>2. GrabReturns => ControlInv'
  BY DEF GrabReturns, LeaveGrabAsPNG, GrabPlaces
<1> QED
  BY <1>1, <1>2

LEMMA EnvironmentTyped ==
  ASSUME ControlInv, Environment
  PROVE  ControlInv'
<1> USE DEF ControlInv, ControlTypeOK, FrameInv, FramesWhole, progVars,
            connVars, sendVars, grabberVars, parserVars
<1>1. Interrupt => ControlInv'
  BY DEF Interrupt
<1>2. ServerAnswers => ControlInv'
  BY DEF ServerAnswers
<1>3. ASSUME NEW how \in {"closed", "reset"}, ServerEnds(how)
      PROVE  ControlInv'
  BY <1>3 DEF ServerEnds
<1>4. RoomChanges => ControlInv'
  BY DEF RoomChanges
<1> QED
  BY <1>1, <1>2, <1>3, <1>4 DEF Environment

LEMMA ControlKept == ControlInv /\ [Next]_vars => ControlInv'
<1> SUFFICES ASSUME ControlInv, [Next]_vars PROVE ControlInv'
  OBVIOUS
<1>1. CASE UNCHANGED vars
  BY <1>1 DEF ControlInv, ControlTypeOK, FrameInv, FramesWhole, vars, connVars,
              sendVars, grabberVars, parserVars
<1>2. CASE Program
  BY <1>2, ParseAndRunTyped, SetupTyped, SendAllTyped, SendLoopTyped,
     GrabbingTyped DEF Program
<1> QED
  BY <1>1, <1>2, EnvironmentTyped DEF Next

LEMMA ControlAlways == Spec => []ControlInv
BY ControlInitially, ControlKept, PTL DEF Spec

LEMMA HandlesAlways == Spec => []ResourceInv
BY HandlesManaged, ResourceInitially, ResourceKept, PTL DEF ResourceSpec

(* Every reachable state of the client program is well typed. *)
THEOREM ClientTyped == Spec => []TypeOK
<1>1. ControlInv /\ ResourceInv => TypeOK
  BY DEF ControlInv, ControlTypeOK, ResourceInv, TypeOK
<1> QED
  BY <1>1, ControlAlways, HandlesAlways, PTL

(* The server never finds a header inside a message: what send() cut short *)
(* is completed before anything else is sent.                              *)
THEOREM NothingSentInside == Spec => []FramesWhole
<1>1. ControlInv => FramesWhole
  BY DEF ControlInv, FrameInv
<1> QED
  BY <1>1, ControlAlways, PTL

-----------------------------------------------------------------------------
(* How the program ends and what it does after SIGINT.                     *)

EndInv ==
  /\ EndExplained
  /\ pc \in {"parse", "socket", "assign", "connect"} => peer = "none"
  /\ pc \in Connected => peer # "none"
  /\ pc = "leave" => stop_flag \/ answer = "N" \/ peer # "open"
  /\ pc \in {"parse", "socket", "assign", "connect", "send_auth"} => answer = "none"
  /\ pc \in {"loop", "grab", "send_img", "wait"} => answer = "Y"

EndingInv == ControlInv /\ EndInv

LEMMA EndingInitially == Init => EndingInv
<1>1. Init => pc = "parse" /\ answer = "none" /\ peer = "none"
  BY DEF Init
<1>2. Init => EndInv
  BY <1>1 DEF EndInv, EndExplained, Connected
<1> QED
  BY <1>2, ControlInitially DEF EndingInv

LEMMA EndingKept == EndingInv /\ [Next]_vars => EndingInv'
<1> SUFFICES ASSUME EndingInv, [Next]_vars PROVE EndInv'
  BY ControlKept DEF EndingInv
<1> USE DEF EndingInv, EndInv, EndExplained, Connected, connVars,
            sendVars, parserVars
<1>0. ControlTypeOK
  BY DEF ControlInv
<1>1. ParseStep => EndInv'
  BY DEF ParseStep
<1>2. MainCatches => EndInv'
  BY <1>0 DEF MainCatches, ControlTypeOK, Outcomes
<1>3. Run => EndInv'
  BY <1>0 DEF Run, ControlTypeOK
<1>4. ASSUME NEW r \in Sockets \cup {Invalid}, MakeSocket(r)
      PROVE  EndInv'
  BY <1>4 DEF MakeSocket
<1>5. AssignSocket => EndInv'
  BY DEF AssignSocket
<1>6. Connect => EndInv'
  BY DEF Connect
<1>7. ASSUME NEW n \in 1 .. unsent, SendAll(n)
      PROVE  EndInv'
  BY <1>0, <1>7 DEF SendAll, AfterSendAll, ControlTypeOK
<1>8. SendFails => EndInv'
  BY DEF SendFails
<1>9. RecvAnswer => EndInv'
  BY <1>0 DEF RecvAnswer, ControlTypeOK
<1>10. RecvFails => EndInv'
  BY DEF RecvFails
<1>11. SendLoop => EndInv'
  BY DEF SendLoop
<1>12. Grab => EndInv'
  BY DEF Grab
<1>13. GrabReturns => EndInv'
  BY DEF GrabReturns
<1>14. WaitLoop => EndInv'
  BY DEF WaitLoop
<1>15. Leave => EndInv'
  BY DEF Leave
<1>16. Environment => EndInv'
  BY DEF Environment, Interrupt, ServerAnswers, ServerEnds, RoomChanges, progVars
<1>17. UNCHANGED vars => EndInv'
  BY DEF vars
<1> QED
  BY <1>1, <1>2, <1>3, <1>4, <1>5, <1>6, <1>7, <1>8, <1>9, <1>10, <1>11, <1>12,
     <1>13, <1>14, <1>15, <1>16, <1>17 DEF Next, Program

LEMMA EndingAlways == Spec => []EndingInv
BY EndingInitially, EndingKept, PTL DEF Spec

(* Once its options are read, the program ends because of the user, a      *)
(* refusal or the connection, never because a grab failed, and with no     *)
(* exception that nobody catches (client.cc:219, 239).                     *)
THEOREM EndsForAReason == Spec => []EndExplained
<1>1. EndingInv => EndExplained
  BY DEF EndingInv, EndInv
<1> QED
  BY <1>1, EndingAlways, PTL

(* SIGINT is caught from the first line of Run on, and nothing leads back  *)
(* before it.                                                              *)
CaughtInv == stop_flag => pc \in DOMAIN Ahead

LEMMA AheadNumbers ==
  /\ DOMAIN Ahead = {"socket", "assign", "connect", "send_auth", "recv", "grab",
                     "send_img", "wait", "loop", "leave", "exit"}
  /\ Ahead["socket"] = 9 /\ Ahead["assign"] = 8 /\ Ahead["connect"] = 7
  /\ Ahead["send_auth"] = 6 /\ Ahead["recv"] = 5 /\ Ahead["grab"] = 5
  /\ Ahead["send_img"] = 4 /\ Ahead["wait"] = 3 /\ Ahead["loop"] = 2
  /\ Ahead["leave"] = 1 /\ Ahead["exit"] = 0
  BY DEF Ahead

(* Within a grab. *)
LEMMA GrabNearer ==
  ASSUME pc = "grab", pc' = "grab", GrabAsPNG
  PROVE  Nearer
<1> USE DEF GrabGoes, GrabAhead
<1>1. GrabAhead[grab]' < GrabAhead[grab]
  <2>1. ASSUME NEW r \in Displays \cup {Invalid}, OpenDisplay(r)
        PROVE  GrabAhead[grab]' < GrabAhead[grab]
    BY <2>1 DEF OpenDisplay
  <2>2. CASE ReturnDisplay
    <3>1. CASE "disp" \notin live /\ MoveConstruct("disp", "u_disp")
                 /\ grab = "return_disp" /\ grab' = grab
      BY <3>1 DEF MoveConstruct
    <3>2. CASE "disp" \in live /\ grab = "return_disp" /\ grab' = "attributes"
      BY <3>2
    <3> QED
      BY <2>2, <3>1, <3>2 DEF ReturnDisplay
  <2>3. CASE GetScreenAttributes
    BY <2>3 DEF GetScreenAttributes
  <2>4. ASSUME NEW r \in XImages \cup {Invalid}, CaptureImage(r)
        PROVE  GrabAhead[grab]' < GrabAhead[grab]
    BY <2>4 DEF CaptureImage
  <2>5. CASE ReturnImage
    <3>1. CASE "img" \notin live /\ MoveConstruct("img", "u_ximg")
                 /\ grab = "return_img" /\ grab' = grab
      BY <3>1 DEF MoveConstruct
    <3>2. CASE "img" \in live /\ grab = "return_img" /\ grab' = "convert"
      BY <3>2
    <3> QED
      BY <2>5, <3>1, <3>2 DEF ReturnImage
  <2>6. CASE Convert
    BY <2>6 DEF Convert
  <2>7. CASE EncodePNG
    BY <2>7 DEF EncodePNG
  <2> QED
    BY <2>1, <2>2, <2>3, <2>4, <2>5, <2>6, <2>7 DEF GrabAsPNG
<1> HIDE DEF GrabAhead
<1>2. Left = GrabAhead[grab] /\ Left' = GrabAhead[grab]'
  BY DEF Left
<1> QED
  BY <1>1, <1>2, AheadNumbers DEF Nearer

LEMMA SendNearer ==
  ASSUME ControlTypeOK, NEW n \in 1 .. unsent, SendAll(n)
  PROVE  Nearer
<1>1. unsent \in Nat /\ pc \in {"send_auth", "send_img"} /\ unsent' = unsent - n
  BY DEF ControlTypeOK, SendAll
<1>2. CASE n = unsent
  <2>1. pc' = IF pc = "send_auth" THEN "recv" ELSE "wait"
    BY <1>2 DEF SendAll, AfterSendAll
  <2> QED
    BY <1>1, <2>1, AheadNumbers DEF Nearer
<1>3. CASE n # unsent
  <2>1. pc' = pc
    BY <1>3 DEF SendAll
  <2>2. Left = unsent /\ Left' = unsent'
    BY <1>1, <2>1 DEF Left
  <2>3. Left' < Left
    BY <1>1, <2>2
  <2> QED
    BY <1>1, <2>1, <2>3, AheadNumbers DEF Nearer
<1> QED
  BY <1>2, <1>3

LEMMA StoppingStep ==
  ASSUME EndingInv, CaughtInv, Program, stop_flag
  PROVE  Nearer /\ stop_flag'
<1>0. ControlTypeOK /\ stop_flag /\ pc \in DOMAIN Ahead
  BY DEF EndingInv, ControlInv, CaughtInv
<1> USE AheadNumbers
<1>1. ASSUME ParseStep \/ MainCatches \/ Run PROVE FALSE
  BY <1>0, <1>1 DEF ParseStep, MainCatches, Run
<1>2. CASE \E r \in Sockets \cup {Invalid} : MakeSocket(r)
  BY <1>0, <1>2 DEF MakeSocket, Nearer
<1>3. CASE AssignSocket
  BY <1>0, <1>3 DEF AssignSocket, Nearer
<1>4. CASE Connect
  BY <1>0, <1>4 DEF Connect, Nearer
<1>5. ASSUME NEW n \in 1 .. unsent, SendAll(n) PROVE Nearer /\ stop_flag'
  BY <1>0, <1>5, SendNearer DEF SendAll
<1>6. CASE SendFails
  BY <1>0, <1>6 DEF SendFails, Nearer
<1>7. CASE RecvAnswer \/ RecvFails
  <2>1. pc = "recv" /\ pc' \in {"loop", "leave"} /\ stop_flag'
    BY <1>0, <1>7 DEF RecvAnswer, RecvFails
  <2>2. Ahead[pc'] < Ahead[pc] /\ pc' \in DOMAIN Ahead
    BY <2>1
  <2> QED
    BY <1>0, <2>1, <2>2 DEF Nearer
<1>8. CASE SendLoop
  BY <1>0, <1>8 DEF SendLoop, Nearer
<1>9. CASE Grab
  BY <1>0, <1>9, GrabNearer DEF Grab
<1>10. CASE GrabReturns
  BY <1>0, <1>10 DEF GrabReturns, Nearer
<1>11. CASE WaitLoop
  BY <1>0, <1>11 DEF WaitLoop, Nearer
<1>12. CASE Leave
  BY <1>0, <1>12 DEF Leave, Nearer
<1> QED
  BY <1>1, <1>2, <1>3, <1>4, <1>5, <1>6, <1>7, <1>8, <1>9, <1>10, <1>11, <1>12
  DEF Program

LEMMA EnvironmentStands ==
  ASSUME EndingInv, CaughtInv, Environment \/ UNCHANGED vars
  PROVE  UNCHANGED progVars /\ CaughtInv'
<1>1. CASE Interrupt
  BY <1>1, AheadNumbers DEF Interrupt, CaughtInv, Connected, progVars
<1>2. CASE ServerAnswers \/ \E how \in {"closed", "reset"} : ServerEnds(how)
  BY <1>2 DEF ServerAnswers, ServerEnds, CaughtInv, progVars
<1>3. CASE RoomChanges \/ UNCHANGED vars
  BY <1>3 DEF RoomChanges, vars, CaughtInv, progVars, sendVars
<1> QED
  BY <1>1, <1>2, <1>3 DEF Environment

LEMMA SignalMadeByUser ==
  ASSUME Program, ~stop_flag
  PROVE  ~stop_flag'
  BY DEF Program, ParseStep, MainCatches, Run, MakeSocket, AssignSocket, Connect,
         SendAll, SendFails, RecvAnswer, RecvFails, SendLoop, Grab, GrabReturns,
         WaitLoop, Leave

(* After SIGINT every step of the program brings it nearer to its end, so  *)
(* that a bounded number of them is left (client.cc:133-225;               *)
(* screen_grabber.cc:113-134).                                             *)
THEOREM StopsStepByStep == Spec => StopsInBoundedSteps
<1> DEFINE Step == stop_flag => Nearer \/ UNCHANGED progVars
<1>1. Init => CaughtInv
  BY DEF Init, CaughtInv
<1>2. ASSUME EndingInv, CaughtInv, [Next]_vars
      PROVE  Step /\ CaughtInv'
  <2>1. CASE Program /\ stop_flag
    BY <1>2, <2>1, StoppingStep DEF Nearer, CaughtInv
  <2>2. CASE Program /\ ~stop_flag
    BY <2>2, SignalMadeByUser DEF CaughtInv
  <2>3. CASE Environment \/ UNCHANGED vars
    BY <1>2, <2>3, EnvironmentStands
  <2> QED
    BY <1>2, <2>1, <2>2, <2>3 DEF Next
<1> HIDE DEF Step
<1>3. Spec => [][Step]_vars
  BY <1>1, <1>2, EndingAlways, PTL DEF Spec
<1> QED
  BY <1>3 DEF Step, StopsInBoundedSteps

(* The program implements ClientProtocol: whatever fails, the server sees  *)
(* a request, and images only after a positive answer.                     *)
THEOREM ProtocolKept == Spec => KeepsProtocol
<1> DEFINE Kept == Protocol!Next \/ UNCHANGED <<Phase, Begun>>
<1>1. Init => Protocol!Init
  BY DEF Init, Protocol!Init, Phase, Begun, Connected
<1>2. ASSUME EndingInv, [Next]_vars PROVE Kept
  <2> USE DEF Phase, Begun, Connected, connVars, sendVars, Protocol!Next,
              Protocol!Begin, Protocol!Complete, Protocol!Accepted, Protocol!End
  <2>0. ControlTypeOK /\ FrameInv /\ EndInv
    BY <1>2 DEF EndingInv, ControlInv
  <2>1. ParseStep \/ AssignSocket \/ SendLoop \/ WaitLoop \/ Grab \/ GrabReturns
          => Kept
    BY DEF ParseStep, AssignSocket, SendLoop, WaitLoop, Grab, GrabReturns
  <2>2. MainCatches \/ Run => Kept
    BY <2>0 DEF MainCatches, Run, EndInv
  <2>3. ASSUME NEW r \in Sockets \cup {Invalid}, MakeSocket(r) PROVE Kept
    BY <2>3 DEF MakeSocket
  <2>4. Connect => Kept
    BY DEF Connect
  <2>5. ASSUME NEW n \in 1 .. unsent, SendAll(n) PROVE Kept
    <3>1. /\ due' = unsent - n /\ due \in Nat /\ unsent \in Nat /\ n \in 1 .. unsent
          /\ answer' = answer /\ Begun = (due > 0) /\ Begun' = (due' > 0)
      BY <2>0, <2>5 DEF SendAll, Deliver, ControlTypeOK, FrameInv, FramesWhole
    <3>2. CASE n = unsent
      <4>1. Begun' = FALSE
        BY <3>1, <3>2
      <4>2. \/ Phase = "silent" /\ Phase' = "asked"
            \/ Phase = "accepted" /\ Phase' = "accepted"
        BY <2>0, <2>5, <3>2 DEF SendAll, AfterSendAll, EndInv
      <4> QED
        BY <4>1, <4>2
    <3>3. CASE n # unsent
      <4>1. Begun' = TRUE
        BY <3>1, <3>3
      <4>2. Phase' = Phase /\ Phase \in {"silent", "accepted"}
        BY <2>0, <2>5, <3>3 DEF SendAll, EndInv
      <4>3. Begun = TRUE \/ Begun = FALSE
        <5>1. CASE due > 0
          BY <5>1, <3>1
        <5>2. CASE ~(due > 0)
          BY <5>2, <3>1
        <5> QED
          BY <5>1, <5>2
      <4> QED
        BY <4>1, <4>2, <4>3
    <3> QED
      BY <3>2, <3>3
  <2>6. SendFails \/ RecvFails \/ Leave => Kept
    BY DEF SendFails, RecvFails, Leave
  <2>7. RecvAnswer => Kept
    BY <2>0 DEF RecvAnswer
  <2>8. Environment => Kept
    BY <2>0 DEF Environment, Interrupt, ServerAnswers, ServerEnds, RoomChanges,
                progVars, FrameInv, FramesWhole
  <2>9. UNCHANGED vars => Kept
    BY DEF vars
  <2> QED
    BY <1>2, <2>1, <2>2, <2>3, <2>4, <2>5, <2>6, <2>7, <2>8, <2>9
       DEF Next, Program
<1> QED
  BY <1>1, <1>2, EndingAlways, PTL DEF Spec, KeepsProtocol, Protocol!Spec

-----------------------------------------------------------------------------
(* Who is alive where, and what each owner can hold.                       *)

Alive ==
  IF pc \in {"parse", "exit", "abort", "server"} THEN {}
  ELSE IF pc \in {"assign", "connect"} THEN {"_server_fd", "temporary"}
  ELSE {"_server_fd"}

HeldInv ==
  /\ live \ GrabberOwners = Alive
  /\ pc # "grab" => live \cap GrabberOwners = {}
  /\ \A o \in live \cap GrabberOwners : resource[o] \in Displays \cup XImages \cup {Invalid}
  /\ \A o \in live \ GrabberOwners : resource[o] \in Sockets \cup {Invalid}
  /\ pc \in Connected => Valid("_server_fd")

HoldingInv == ControlTypeOK /\ ResourceInv /\ HeldInv

LEMMA GrabHolds ==
  ASSUME HoldingInv, pc = "grab", pc' = pc, GrabAsPNG PROVE HeldInv'
<1> USE DEF HoldingInv, HeldInv, Alive, Valid, GrabberOwners, Connected
<1>1. ASSUME NEW r \in Displays \cup {Invalid}, OpenDisplay(r) PROVE HeldInv'
  BY <1>1, GrabberAssumption
     DEF OpenDisplay, Construct, ResourceInv, ResourceTypeOK
<1>2. ASSUME NEW r \in XImages \cup {Invalid}, CaptureImage(r) PROVE HeldInv'
  BY <1>2, GrabberAssumption
     DEF CaptureImage, Construct, ResourceInv, ResourceTypeOK
<1>3. ReturnDisplay => HeldInv'
  BY GrabberAssumption, ClientAssumption
     DEF ReturnDisplay, MoveConstruct, LeaveScope, ResourceInv, ResourceTypeOK
<1>4. ReturnImage => HeldInv'
  BY GrabberAssumption, ClientAssumption
     DEF ReturnImage, MoveConstruct, LeaveScope, ResourceInv, ResourceTypeOK
<1>5. GetScreenAttributes \/ Convert \/ EncodePNG => HeldInv'
  BY DEF GetScreenAttributes, Convert, EncodePNG, GrabGoes, resourceVars
<1> QED
  BY <1>1, <1>2, <1>3, <1>4, <1>5 DEF GrabAsPNG

LEMMA HeldKept == HoldingInv /\ [Next]_vars => HeldInv'
<1> SUFFICES ASSUME HoldingInv, [Next]_vars PROVE HeldInv'
  OBVIOUS
<1> USE DEF HoldingInv, HeldInv, Alive, Valid, GrabberOwners, Connected
<1>0. resource \in [Owners -> Resources \cup {Invalid}] /\ live \subseteq Owners
  BY DEF ResourceInv, ResourceTypeOK
<1>1. ParseStep \/ MainCatches \/ SendFails \/ RecvAnswer \/ RecvFails \/ SendLoop
        \/ WaitLoop => HeldInv'
  BY DEF ParseStep, MainCatches, SendFails, RecvAnswer, RecvFails, SendLoop,
         WaitLoop, resourceVars
<1>2. Run => HeldInv'
  BY <1>0, ClientAssumption DEF Run, Construct, resourceVars
<1>3. ASSUME NEW r \in Sockets \cup {Invalid}, MakeSocket(r) PROVE HeldInv'
  BY <1>0, <1>3, ClientAssumption DEF MakeSocket, Construct
<1>4. AssignSocket => HeldInv'
  BY <1>0, ClientAssumption DEF AssignSocket, MoveAssign
<1>5. Connect => HeldInv'
  BY <1>0, ClientAssumption DEF Connect, LeaveScope
<1>6. ASSUME NEW n \in 1 .. unsent, SendAll(n) PROVE HeldInv'
  BY <1>6 DEF SendAll, AfterSendAll, resourceVars
<1>7. Grab => HeldInv'
  BY GrabHolds DEF Grab
<1>8. GrabReturns => HeldInv'
  BY <1>0, ClientAssumption DEF GrabReturns, LeaveGrabAsPNG, LeaveScope, Locals
<1>9. Leave => HeldInv'
  BY <1>0, ClientAssumption DEF Leave, LeaveScope
<1>10. Environment => HeldInv'
  BY DEF Environment, Interrupt, ServerAnswers, ServerEnds, RoomChanges, progVars,
         resourceVars
<1>11. UNCHANGED vars => HeldInv'
  BY DEF vars, resourceVars
<1> QED
  BY <1>1, <1>2, <1>3, <1>4, <1>5, <1>6, <1>7, <1>8, <1>9, <1>10, <1>11
     DEF Next, Program

LEMMA HeldAlways == Spec => []HeldInv
<1>1. Init => HeldInv
  BY DEF Init, ResourceInit, HeldInv, Alive, Connected, GrabberOwners
<1>2. ControlInv /\ ResourceInv /\ HeldInv => HoldingInv
  BY DEF ControlInv, HoldingInv
<1> QED
  BY <1>1, <1>2, HeldKept, ControlAlways, HandlesAlways, PTL DEF Spec

(* No display and no image is open outside a grab, however it ended, and   *)
(* nothing at all once the program has ended.                              *)
THEOREM ScreenReleased == Spec => []HeldOnlyInUse
<1>1. ResourceInv /\ HeldInv => HeldOnlyInUse
  <2> SUFFICES ASSUME ResourceInv, HeldInv PROVE HeldOnlyInUse
    OBVIOUS
  <2>1. open = {resource[o] : o \in live} \ {Invalid}
    BY DEF ResourceInv, OwnedOnce
  <2>2. pc # "grab" => open \subseteq Sockets
    BY <2>1 DEF HeldInv
  <2>3. pc \in Connected => live \ GrabberOwners = {"_server_fd"}
    BY DEF HeldInv, Alive, Connected
  <2>4. pc \in Connected => open \cap Sockets = {resource["_server_fd"]}
    BY <2>1, <2>3, ClientAssumption, GrabberAssumption DEF HeldInv, Valid
  <2>5. pc \in {"exit", "abort", "server"} => live = {}
    BY DEF HeldInv, Alive
  <2>6. pc \in {"exit", "abort", "server"} => open = {}
    BY <2>1, <2>5
  <2> QED
    BY <2>2, <2>4, <2>6 DEF HeldOnlyInUse
<1> QED
  BY <1>1, HeldAlways, HandlesAlways, PTL

-----------------------------------------------------------------------------
(* The pixels of a screen. *)

LEMMA QuotientAndRest ==
  ASSUME NEW b \in Nat \ {0}, NEW q \in Nat, NEW r \in 0 .. b - 1
  PROVE  (q * b + r) \div b = q /\ (q * b + r) % b = r
OBVIOUS

(* An element of a table of h rows of b columns.                           *)
LEMMA RowAndColumn ==
  ASSUME NEW b \in Nat \ {0}, NEW h \in Nat, NEW y \in 0 .. h - 1,
         NEW r \in 0 .. b - 1
  PROVE  y * b + r \in 0 .. h * b - 1
<1>1. PICK k \in Nat : h = y + 1 + k
  <2>1. h - (y + 1) \in Nat /\ h = y + 1 + (h - (y + 1))
    OBVIOUS
  <2> QED
    BY <2>1
<1>2. h * b = y * b + b + k * b /\ k * b \in Nat /\ y * b \in Nat
  BY <1>1
<1> QED
  BY <1>2

(* A screen that reaches EncodePNG, and where its bytes stand.             *)
Convertible(s) ==
  s \in Screen /\ s.width > 0 /\ s.height > 0 /\ Supported(s.format)

LEMMA OffsetInPixel ==
  ASSUME NEW s, Convertible(s), NEW c \in 1 .. 3
  PROVE  LET n == PixelBytes(s.format)
             off == Offset(s.format)[Colours[c]]
             Names == IF s.format.lsb_first
                      THEN <<"blue", "green", "red", "unused">>
                      ELSE IF n = 3 THEN <<"red", "green", "blue">>
                      ELSE <<"unused", "red", "green", "blue">>
         IN  n \in {3, 4} /\ off \in 0 .. n - 1 /\ Names[off + 1] = Colours[c]
<1>1. s.format.lsb_first \in BOOLEAN /\ s.format.bits_per_pixel \in {24, 32}
  BY DEF Convertible, Screen, Format, Supported
<1>2. 24 \div 8 = 3 /\ 32 \div 8 = 4
  OBVIOUS
<1>3. c = 1 \/ c = 2 \/ c = 3
  OBVIOUS
<1>4. Colours[1] = "red" /\ Colours[2] = "green" /\ Colours[3] = "blue"
  BY DEF Colours
<1>5. CASE s.format.lsb_first
  <2>1. Offset(s.format) = [red |-> 2, green |-> 1, blue |-> 0]
    BY <1>5 DEF Offset
  <2> QED
    BY <1>1, <1>2, <1>3, <1>4, <1>5, <2>1 DEF PixelBytes
<1>6. CASE ~s.format.lsb_first /\ s.format.bits_per_pixel = 24
  <2>1. Offset(s.format) = [red |-> 0, green |-> 1, blue |-> 2]
    BY <1>6 DEF Offset
  <2> QED
    BY <1>2, <1>3, <1>4, <1>6, <2>1 DEF PixelBytes
<1>7. CASE ~s.format.lsb_first /\ s.format.bits_per_pixel = 32
  <2>1. Offset(s.format) = [red |-> 1, green |-> 2, blue |-> 3]
    BY <1>7 DEF Offset
  <2> QED
    BY <1>2, <1>3, <1>4, <1>7, <2>1 DEF PixelBytes
<1> QED
  BY <1>1, <1>5, <1>6, <1>7

(* The place in the vector that ConvertToRGB writes a colour to.           *)
LEMMA PixelFrom ==
  ASSUME NEW s, Convertible(s), NEW x \in 0 .. s.width - 1,
         NEW y \in 0 .. s.height - 1, NEW c \in 1 .. 3
  PROVE  ConvertToRGB(s)[(y * s.width + x) * 3 + c]
           = SourceIndex(s, x, y, Colours[c])
<1>1. PICK w \in Nat \ {0}, h \in Nat \ {0} :
        /\ w = s.width /\ h = s.height
        /\ x \in 0 .. w - 1 /\ y \in 0 .. h - 1 /\ x \in Nat /\ y \in Nat
  BY DEF Convertible, Screen
<1>2. PICK pixel \in Nat : pixel = y * w + x /\ pixel \in 0 .. h * w - 1
  <2>1. y * w + x \in 0 .. h * w - 1
    BY <1>1, RowAndColumn
  <2> QED
    BY <2>1
<1>3. pixel % w = x /\ pixel \div w = y
  <2>1. (y * w + x) \div w = y /\ (y * w + x) % w = x
    <3>1. x \in 0 .. w - 1 /\ y \in Nat
      BY <1>1
    <3> QED
      BY <3>1, QuotientAndRest, Zenon
  <2> QED
    BY <1>2, <2>1
<1>4. PICK i \in Nat : i = pixel * 3 + c
  OBVIOUS
<1>5. i \in 1 .. w * h * 3
  <2>1. PICK m \in Nat : m = h * w /\ m = w * h /\ pixel <= m - 1
    BY <1>1, <1>2
  <2>2. i >= 1 /\ i <= m * 3
    BY <1>2, <1>4, <2>1
  <2> QED
    BY <2>1, <2>2
<1>6. (i - 1) \div 3 = pixel /\ (i - 1) % 3 = c - 1
  <2>1. i - 1 = pixel * 3 + (c - 1) /\ c - 1 \in 0 .. 3 - 1
    BY <1>4
  <2> QED
    BY <1>2, <2>1, QuotientAndRest
<1>7. ((i - 1) % 3) + 1 = c
  BY <1>6
<1>8. ConvertToRGB(s)[i] = SourceIndex(s, x, y, Colours[c])
  BY <1>1, <1>3, <1>5, <1>6, <1>7, Zenon DEF ConvertToRGB
<1> QED
  BY <1>1, <1>2, <1>4, <1>8

LEMMA PixelCopied ==
  ASSUME NEW s, Convertible(s), NEW x \in 0 .. s.width - 1,
         NEW y \in 0 .. s.height - 1, NEW c \in 1 .. 3
  PROVE  /\ SourceIndex(s, x, y, Colours[c]) \in DOMAIN XImageData(s)
         /\ XImageData(s)[SourceIndex(s, x, y, Colours[c])]
              = <<x, y, Colours[c]>>
<1>1. PICK w \in Nat \ {0}, h \in Nat \ {0}, p \in Nat :
        /\ w = s.width /\ h = s.height /\ p = s.format.padding
        /\ x \in 0 .. w - 1 /\ y \in 0 .. h - 1 /\ x \in Nat /\ y \in Nat
  BY DEF Convertible, Screen, Format
<1>0. PICK Names :
        Names = IF s.format.lsb_first THEN <<"blue", "green", "red", "unused">>
                ELSE IF PixelBytes(s.format) = 3 THEN <<"red", "green", "blue">>
                ELSE <<"unused", "red", "green", "blue">>
  OBVIOUS
<1>2. PICK n \in {3, 4}, off \in Nat :
        /\ n = PixelBytes(s.format) /\ off = Offset(s.format)[Colours[c]]
        /\ off \in 0 .. n - 1
        /\ Names = IF s.format.lsb_first
                   THEN <<"blue", "green", "red", "unused">>
                   ELSE IF n = 3 THEN <<"red", "green", "blue">>
                   ELSE <<"unused", "red", "green", "blue">>
        /\ Names[off + 1] = Colours[c]
  BY <1>0, OffsetInPixel
<1>3. PICK column \in Nat : column = x * n + off /\ column \in 0 .. w * n - 1
  <2>1. x * n + off \in 0 .. w * n - 1
    BY <1>1, <1>2, RowAndColumn
  <2> QED
    BY <2>1
<1>4. column \div n = x /\ column % n = off
  <2>1. (x * n + off) \div n = x /\ (x * n + off) % n = off
    <3>1. n \in Nat \ {0}
      BY <1>2
    <3> QED
      BY <1>1, <1>2, <3>1, QuotientAndRest, Zenon
  <2> QED
    BY <1>3, <2>1
<1>5. PICK b \in Nat \ {0} : b = w * n + p /\ column \in 0 .. b - 1
  BY <1>1, <1>3
<1>6. b = BytesPerLine(s)
  BY <1>1, <1>2, <1>5 DEF BytesPerLine
<1>7. PICK from \in Nat : from = y * b + column /\ from \in 0 .. h * b - 1
  <2>1. y * b + column \in 0 .. h * b - 1
    BY <1>1, <1>5, RowAndColumn
  <2> QED
    BY <2>1
<1>8. from \div b = y /\ from % b = column
  <2>1. (y * b + column) \div b = y /\ (y * b + column) % b = column
    <3>1. column \in 0 .. b - 1 /\ y \in Nat
      BY <1>1, <1>5
    <3> QED
      BY <3>1, QuotientAndRest, Zenon
  <2> QED
    BY <1>7, <2>1
<1>9. SourceIndex(s, x, y, Colours[c]) = from
  BY <1>2, <1>3, <1>6, <1>7 DEF SourceIndex
<1>10. ~(column >= w * n)
  BY <1>1, <1>3
<1>11. XImageData(s) =
         [i \in 0 .. h * b - 1 |->
            IF i % b >= w * n THEN <<"padding">>
            ELSE <<(i % b) \div n, i \div b, Names[((i % b) % n) + 1]>>]
  BY <1>1, <1>2, <1>6, Zenon DEF XImageData
<1>12. XImageData(s)[from] = <<x, y, Names[off + 1]>>
  BY <1>4, <1>7, <1>8, <1>10, <1>11, Zenon
<1> QED
  BY <1>2, <1>7, <1>9, <1>11, <1>12, Zenon

(* What is known of the screen once GrabAsPNG has come so far.             *)
ScreenInv ==
  /\ grab \in {"return_disp", "attributes", "capture", "return_img", "convert",
               "encode"} => screen \in Screens
  /\ grab \in {"capture", "return_img", "convert", "encode"} =>
       screen.width > 0 /\ screen.height > 0
  /\ grab = "encode" => Supported(screen.format)

LEMMA GrabKeepsScreen == ASSUME ScreenInv, GrabAsPNG PROVE ScreenInv'
<1> USE DEF ScreenInv, GrabGoes
<1>1. ASSUME NEW r \in Displays \cup {Invalid}, OpenDisplay(r) PROVE ScreenInv'
  BY <1>1 DEF OpenDisplay
<1>2. ASSUME NEW r \in XImages \cup {Invalid}, CaptureImage(r) PROVE ScreenInv'
  BY <1>2 DEF CaptureImage
<1>3. ReturnDisplay => ScreenInv'
  BY DEF ReturnDisplay
<1>4. ReturnImage => ScreenInv'
  BY DEF ReturnImage
<1>5. GetScreenAttributes => ScreenInv'
  BY DEF GetScreenAttributes
<1>6. Convert => ScreenInv'
  BY DEF Convert
<1>7. EncodePNG => ScreenInv'
  BY DEF EncodePNG
<1> QED
  BY <1>1, <1>2, <1>3, <1>4, <1>5, <1>6, <1>7 DEF GrabAsPNG

LEMMA ScreenKept == ScreenInv /\ [Next]_vars => ScreenInv'
<1> SUFFICES ASSUME ScreenInv, [Next]_vars PROVE ScreenInv'
  OBVIOUS
<1>1. CASE UNCHANGED grabberVars
  BY <1>1 DEF grabberVars, ScreenInv
<1>2. Grab => ScreenInv'
  BY GrabKeepsScreen DEF Grab
<1>3. GrabReturns \/ SendLoop => ScreenInv'
  BY DEF GrabReturns, LeaveGrabAsPNG, SendLoop, ScreenInv
<1>4. ASSUME NEW r \in Sockets \cup {Invalid}, MakeSocket(r) PROVE ScreenInv'
  BY <1>1, <1>4 DEF MakeSocket
<1>5. ASSUME NEW n \in 1 .. unsent, SendAll(n) PROVE ScreenInv'
  BY <1>1, <1>5 DEF SendAll
<1>6. ParseStep \/ MainCatches \/ Run \/ AssignSocket \/ Connect \/ SendFails
        \/ RecvAnswer \/ RecvFails \/ WaitLoop \/ Leave => ScreenInv'
  BY <1>1 DEF ParseStep, MainCatches, Run, AssignSocket, Connect, SendFails,
              RecvAnswer, RecvFails, WaitLoop, Leave
<1>7. Environment => ScreenInv'
  BY <1>1 DEF Environment, Interrupt, ServerAnswers, ServerEnds, RoomChanges,
              progVars
<1>8. UNCHANGED vars => ScreenInv'
  BY <1>1 DEF vars
<1> QED
  BY <1>2, <1>3, <1>4, <1>5, <1>6, <1>7, <1>8 DEF Next, Program

(* Whatever the screen's size, padding and pixel format, every byte that   *)
(* ConvertToRGB writes is the colour it stands for of the pixel it stands  *)
(* for, and is read within the image (screen_grabber.cc:41-96).            *)
THEOREM PixelsConverted == Spec => []PixelsExact
<1>1. Init => ScreenInv
  BY DEF Init, GrabberInit, ScreenInv
<1>2. ScreenInv => PixelsExact
  <2> SUFFICES ASSUME ScreenInv, grab = "encode",
                      NEW x \in 0 .. screen.width - 1,
                      NEW y \in 0 .. screen.height - 1, NEW c \in 1 .. 3
               PROVE  LET from == ConvertToRGB(screen)[(y * screen.width + x) * 3 + c]
                      IN  /\ from \in DOMAIN XImageData(screen)
                          /\ XImageData(screen)[from] = <<x, y, Colours[c]>>
    BY Zenon DEF PixelsExact
  <2>1. Convertible(screen)
    BY GrabberAssumption DEF ScreenInv, Convertible
  <2>2. ConvertToRGB(screen)[(y * screen.width + x) * 3 + c]
          = SourceIndex(screen, x, y, Colours[c])
    BY <2>1, PixelFrom, Zenon
  <2>3. /\ SourceIndex(screen, x, y, Colours[c]) \in DOMAIN XImageData(screen)
        /\ XImageData(screen)[SourceIndex(screen, x, y, Colours[c])]
             = <<x, y, Colours[c]>>
    BY <2>1, PixelCopied, Zenon
  <2> QED
    BY <2>2, <2>3, Zenon
<1> QED
  BY <1>1, <1>2, ScreenKept, PTL DEF Spec

-----------------------------------------------------------------------------
(* The command line, which is looked at until Parse has returned.          *)

ReadInv == pc = "parse" => ParserInv /\ ThrownExplained

LEMMA ReadKept == ReadInv /\ [Next]_vars => ReadInv'
<1> SUFFICES ASSUME ReadInv, [Next]_vars PROVE ReadInv'
  OBVIOUS
<1>1. CASE UNCHANGED <<parserVars, pc>>
  BY <1>1, ParserLeft, ThrownLeft DEF ReadInv
<1>2. ParseStep => ReadInv'
  BY ParserKept, ThrownKept DEF ParseStep, ReadInv
<1>3. pc' # "parse" => ReadInv'
  BY DEF ReadInv
<1>4. MainCatches \/ Run \/ AssignSocket \/ Connect \/ SendFails \/ RecvAnswer
        \/ RecvFails \/ SendLoop \/ GrabReturns \/ WaitLoop \/ Leave => ReadInv'
  BY <1>3 DEF MainCatches, Run, AssignSocket, Connect, SendFails, RecvAnswer,
              RecvFails, SendLoop, GrabReturns, WaitLoop, Leave
<1>5. ASSUME NEW r \in Sockets \cup {Invalid}, MakeSocket(r) PROVE ReadInv'
  BY <1>3, <1>5 DEF MakeSocket
<1>6. ASSUME NEW n \in 1 .. unsent, SendAll(n) PROVE ReadInv'
  BY <1>3, <1>6 DEF SendAll, AfterSendAll
<1>7. Grab => ReadInv'
  BY <1>3 DEF Grab
<1>8. Environment => ReadInv'
  BY <1>1 DEF Environment, Interrupt, ServerAnswers, ServerEnds, RoomChanges,
              progVars
<1>9. UNCHANGED vars => ReadInv'
  BY <1>1 DEF vars
<1> QED
  BY <1>2, <1>4, <1>5, <1>6, <1>7, <1>8, <1>9 DEF Next, Program

(* Parse returns exactly on the command lines its documentation describes  *)
(* (input_parser.h:58-60) whose period the code's own limit allows         *)
(* (input_parser.cc:112), with the values that stand in them, whatever     *)
(* the words, their order and the program (input_parser.cc:142-177).  What *)
(* it refuses it refuses with invalid_argument, but for a number that no   *)
(* int holds and an option at the very end (input_parser.h:56).            *)
THEOREM CommandLineRead == Spec => []CommandLineObeyed
<1>1. Init => ReadInv
  <2>1. InitStructs => ThrownExplained
    BY DEF InitStructs, ThrownExplained
  <2> QED
    BY <2>1, ParserInitially DEF Init, ReadInv
<1>2. ReadInv => CommandLineObeyed
  BY ExactlyRead DEF ReadInv, ParserInv, CommandLineObeyed
<1> QED
  BY <1>1, <1>2, ReadKept, PTL DEF Spec
=============================================================================
