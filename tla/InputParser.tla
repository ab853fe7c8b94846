----------------------------- MODULE InputParser -----------------------------
(***************************************************************************)
(* InputParser (input_parser.cc): the options of either program, one turn  *)
(* of Parse's loop at a time, and what leaves Parse.  A word of the        *)
(* command line is a record of what the code asks of it.                   *)
(***************************************************************************)
EXTENDS Integers, Sequences

CONSTANTS
  CommandLines,  \* the command lines to try
  IntMax,        \* largest int (2147483647)
  MaxPort,       \* 65535
  MaxPeriod      \* 86400

(* What std::stoi sees: the digits at the front, if any, and whether more  *)
(* follows them.                                                           *)
Number == [digits : BOOLEAN, value : Int, rest : BOOLEAN]

(* A word as an option: none of its words ("word"), an exact name, "--",   *)
(* or anything else that begins with a dash ("other": unknown, abbreviated *)
(* or short options, and --name=value).  A word as an argument: a number,  *)
(* or an address, a colon and a number.                                    *)
Word == [option : {"word", "--srv", "--period", "--port", "--", "other"},
         number : Number, colon : BOOLEAN, address : BOOLEAN, port : Number]

ProgramType == {"client", "server"}

Outcomes == {"parsing", "parsed", "invalid_argument", "out_of_range",
             "logic_error"}

ASSUME ParserAssumption ==
  /\ CommandLines \subseteq Seq(Word)
  /\ IntMax \in Nat
  /\ MaxPort \in 1 .. IntMax /\ MaxPeriod \in 1 .. IntMax

VARIABLES
  prog_type,
  argv, optind,             \* the words, and the first not yet looked at
  option_enabled_ht,        \* options seen
  host, port, period,       \* results; "" and 0 before they are set
  outcome                   \* what Parse returned with or threw

parserVars == <<prog_type, argv, optind, option_enabled_ht, host, port, period,
                outcome>>

Options == IF prog_type = "client" THEN {"--srv", "--period"} ELSE {"--port"}

InitStructs ==
  /\ prog_type \in ProgramType
  /\ argv \in CommandLines
  /\ optind = 1
  /\ option_enabled_ht = {}
  /\ host = "" /\ port = 0 /\ period = 0
  /\ outcome = "parsing"

-----------------------------------------------------------------------------
(* The argument parsers.  Each names what it throws, "" if nothing.        *)

(* Slip: what follows the digits is not looked at. *)
ParseNumPrefix(n) ==
  CASE ~n.digits -> "invalid_argument"
    [] n.digits /\ n.value \notin -IntMax - 1 .. IntMax -> "out_of_range"
    [] OTHER -> ""

ParseNum(n) ==
  CASE ~n.digits -> "invalid_argument"
    [] n.digits /\ n.value \notin -IntMax - 1 .. IntMax -> "out_of_range"
    [] OTHER -> IF n.rest THEN "invalid_argument" ELSE ""

InRange(n, lo, hi) ==
  IF ParseNum(n) # "" THEN ParseNum(n)
  ELSE IF n.value \in lo .. hi THEN "" ELSE "invalid_argument"

ParsePort(n) == InRange(n, 1, MaxPort)

ParsePeriod(n) == InRange(n, 0, MaxPeriod)

ParseSrv(w) ==
  IF ~w.colon \/ ~w.address THEN "invalid_argument" ELSE ParsePort(w.port)

-----------------------------------------------------------------------------
(* getopt_long with the options of the program, all with an argument and   *)
(* no short ones.  Words that are no options are moved behind them, hence  *)
(* skipped; "--" ends the options.                                         *)

word == argv[optind]

AtEnd == optind \in DOMAIN argv => word.option = "--"

SkipWord ==
  /\ outcome = "parsing" /\ ~AtEnd /\ word.option = "word"
  /\ optind' = optind + 1
  /\ UNCHANGED <<prog_type, argv, option_enabled_ht, host, port, period,
                 outcome>>

Throw(e) ==
  /\ outcome' = e
  /\ UNCHANGED <<prog_type, argv, optind, option_enabled_ht, host, port, period>>

(* Parse looks the word before optind, or before the argument, up in its   *)
(* table.  An option it has no such entry for ends there: abbreviations    *)
(* and --name=value, which getopt_long accepts, and options it refuses.    *)
InvalidOption ==
  /\ outcome = "parsing" /\ ~AtEnd
  /\ word.option \notin Options \cup {"word"}
  /\ Throw("invalid_argument")

DuplicateOption ==
  /\ outcome = "parsing" /\ ~AtEnd
  /\ word.option \in option_enabled_ht
  /\ Throw("invalid_argument")

(* getopt_long reports '?' with a null optarg and leaves option_index as   *)
(* it was.  Parse handles the option of that index, whichever it is, and   *)
(* every handler builds a std::string from the null pointer first.         *)
MissingArgument ==
  /\ outcome = "parsing" /\ ~AtEnd
  /\ word.option \in Options \ option_enabled_ht
  /\ optind = Len(argv)
  /\ Throw("logic_error")

(* HandleClientOption or HandleServerOption with the next word.            *)
HandleOption ==
  /\ outcome = "parsing" /\ ~AtEnd
  /\ word.option \in Options \ option_enabled_ht
  /\ optind < Len(argv)
  /\ optind' = optind + 2
  /\ LET arg    == argv[optind + 1]
         thrown == CASE word.option = "--srv"    -> ParseSrv(arg)
                     [] word.option = "--period" -> ParsePeriod(arg.number)
                     [] word.option = "--port"   -> ParsePort(arg.number)
     IN  \/ /\ thrown # ""
            /\ outcome' = thrown
            /\ UNCHANGED <<option_enabled_ht, host, port, period>>
         \/ /\ thrown = ""
            /\ host'   = IF word.option = "--srv" THEN "address" ELSE host
            /\ port'   = CASE word.option = "--srv"  -> arg.port.value
                           [] word.option = "--port" -> arg.number.value
                           [] OTHER -> port
            /\ period' = IF word.option = "--period" THEN arg.number.value
                                                     ELSE period
            /\ option_enabled_ht' = option_enabled_ht \cup {word.option}
            /\ UNCHANGED outcome
  /\ UNCHANGED <<prog_type, argv>>

MissingOptions ==
  IF option_enabled_ht = Options THEN "parsed" ELSE "invalid_argument"

OptionsEnd ==
  /\ outcome = "parsing" /\ AtEnd
  /\ Throw(MissingOptions)

Parse ==
  \/ SkipWord
  \/ InvalidOption
  \/ DuplicateOption
  \/ MissingArgument
  \/ HandleOption
  \/ OptionsEnd

-----------------------------------------------------------------------------
(* What the documentation of Parse asks of a command line                  *)
(* (input_parser.h:58-60): every option of the program once, followed by   *)
(* its argument, and no other option before the end or "--".               *)

Plain(n) == n.digits /\ ~n.rest

(* The arguments: "ip:port", a port of 1-65535, and a period of >= 0       *)
(* seconds (input_parser.h:77, 98, 105; GetPeriod's comment at 48 says     *)
(* milliseconds, but WaitLoop sleeps seconds).                             *)
Fits(o, w) ==
  CASE o = "--srv"    -> /\ w.colon /\ w.address
                         /\ Plain(w.port) /\ w.port.value \in 1 .. MaxPort
    [] o = "--period" -> Plain(w.number) /\ w.number.value >= 0
    [] o = "--port"   -> Plain(w.number) /\ w.number.value \in 1 .. MaxPort

(* at says where each option stands, and the options end before end. *)
WellFormed(at, end) ==
  /\ end \in DOMAIN argv => argv[end].option = "--"
  /\ \A o \in Options :
       /\ at[o] + 1 < end
       /\ argv[at[o]].option = o
       /\ Fits(o, argv[at[o] + 1])
  /\ \A o, p \in Options : at[o] # at[p] + 1
  /\ \A i \in 1 .. end - 1 :
       \/ argv[i].option = "word"
       \/ \E o \in Options : i \in {at[o], at[o] + 1}

Readings ==
  {r \in [at : [Options -> DOMAIN argv], end : 1 .. Len(argv) + 1] :
     WellFormed(r.at, r.end)}

(* A limit of the code's own, which no documentation mentions              *)
(* (input_parser.cc:112).                                                  *)
PeriodTaken(at) ==
  "--period" \in Options => argv[at["--period"] + 1].number.value <= MaxPeriod

(* Parse returns exactly on the command lines its documentation describes, *)
(* those with a period over a day apart, and with the values that stand in *)
(* them; no order of the options, repeated option or stray word makes it   *)
(* return with a value unset (Parse, input_parser.cc:142-177).             *)
ParsedExactly ==
  LET Within == {r \in Readings : PeriodTaken(r.at)}
  IN  /\ outcome # "parsing" => (outcome = "parsed" <=> Within # {})
      /\ outcome = "parsed" =>
           \A r \in Within :
             LET Arg(o) == argv[r.at[o] + 1]
             IN  IF prog_type = "client"
                 THEN /\ host = "address"
                      /\ port = Arg("--srv").port.value
                      /\ period = Arg("--period").number.value
                 ELSE port = Arg("--port").number.value

TooLong(n) == n.digits /\ n.value \notin -IntMax - 1 .. IntMax

(* input_parser.h:56 promises std::invalid_argument for whatever Parse     *)
(* refuses.  That is kept but for the number of an option that no int      *)
(* holds, and for a last word that is an option: main catches neither      *)
(* exception (input_parser.cc:86, 145-161; main.cc:17).                    *)
ThrownExplained ==
  /\ outcome = "out_of_range" =>
       \E i \in 2 .. Len(argv) :
         /\ argv[i - 1].option \in Options
         /\ TooLong(IF argv[i - 1].option = "--srv" THEN argv[i].port
                                                   ELSE argv[i].number)
  /\ outcome = "logic_error" => argv # <<>> /\ argv[Len(argv)].option \in Options
=============================================================================
