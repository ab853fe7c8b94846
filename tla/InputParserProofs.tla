-------------------------- MODULE InputParserProofs --------------------------
(***************************************************************************)
(* Parse returns on the command lines its documentation describes, periods *)
(* over its own limit apart, and on no others, whatever the words, for     *)
(* either program.                                                         *)
(***************************************************************************)
EXTENDS InputParser, TLAPS

-----------------------------------------------------------------------------
(* What the argument parsers accept. *)

Thrown(o, w) ==
  CASE o = "--srv"    -> ParseSrv(w)
    [] o = "--period" -> ParsePeriod(w.number)
    [] o = "--port"   -> ParsePort(w.number)

(* What is documented and within the limits of the code. *)
Accepted(o, w) == Fits(o, w) /\ (o = "--period" => w.number.value <= MaxPeriod)

LEMMA RangeAccepted ==
  ASSUME NEW n \in Number, NEW lo \in {0, 1}, NEW hi \in {MaxPort, MaxPeriod}
  PROVE  /\ InRange(n, lo, hi) \in {"", "invalid_argument", "out_of_range"}
         /\ InRange(n, lo, hi) = "" <=> Plain(n) /\ n.value \in lo .. hi
<1>1. /\ n.digits \in BOOLEAN /\ n.value \in Int /\ n.rest \in BOOLEAN
      /\ IntMax \in Nat /\ hi \in Nat /\ hi <= IntMax
  BY ParserAssumption DEF Number
<1>2. n.value \in lo .. hi => n.value \in -IntMax - 1 .. IntMax
  BY <1>1
<1>3. ParseNum(n) \in {"", "invalid_argument", "out_of_range"}
  BY <1>1 DEF ParseNum
<1>4. ParseNum(n) = ""
        <=> n.digits /\ n.value \in -IntMax - 1 .. IntMax /\ ~n.rest
  BY <1>1 DEF ParseNum
<1> QED
  BY <1>1, <1>2, <1>3, <1>4 DEF InRange, Plain

LEMMA ArgumentAccepted ==
  ASSUME NEW w \in Word, NEW o \in {"--srv", "--period", "--port"}
  PROVE  /\ Thrown(o, w) \in {"", "invalid_argument", "out_of_range"}
         /\ Thrown(o, w) = "" <=> Accepted(o, w)
<1>1. /\ w.number \in Number /\ w.port \in Number
      /\ w.colon \in BOOLEAN /\ w.address \in BOOLEAN
  BY DEF Word
<1>2. CASE o = "--srv"
  BY <1>1, <1>2, RangeAccepted DEF Thrown, ParseSrv, ParsePort, Accepted, Fits
<1>3. CASE o = "--period"
  <2>1. w.number.value \in Int /\ MaxPeriod \in Nat
    BY <1>1, ParserAssumption DEF Number
  <2>2. InRange(w.number, 0, MaxPeriod) = Thrown(o, w)
    BY <1>3 DEF Thrown, ParsePeriod
  <2>3. Accepted(o, w) <=> Plain(w.number) /\ w.number.value \in 0 .. MaxPeriod
    BY <1>3, <2>1 DEF Accepted, Fits
  <2> QED
    BY <1>1, <2>2, <2>3, RangeAccepted
<1>4. CASE o = "--port"
  BY <1>1, <1>4, RangeAccepted DEF Thrown, ParsePort, Accepted, Fits
<1> QED
  BY <1>2, <1>3, <1>4

-----------------------------------------------------------------------------
(* How far a command line has been read. *)

ParserTypeOK ==
  /\ prog_type \in ProgramType /\ argv \in Seq(Word)
  /\ optind \in 1 .. Len(argv) + 1
  /\ option_enabled_ht \in SUBSET Options

(* at says where the options of S stand before end, and nothing but words  *)
(* stands between them.                                                    *)
Stands(at, S, end) ==
  /\ \A o \in S : /\ at[o] + 1 < end
                  /\ argv[at[o]].option = o
                  /\ Accepted(o, argv[at[o] + 1])
  /\ \A o, p \in S : at[o] # at[p] + 1
  /\ \A i \in 1 .. end - 1 :
       argv[i].option = "word" \/ \E o \in S : i \in {at[o], at[o] + 1}

Reading(at, end) ==
  /\ at \in [Options -> DOMAIN argv] /\ end \in 1 .. Len(argv) + 1
  /\ WellFormed(at, end) /\ PeriodTaken(at)

(* What the argument w of option o leaves in the results. *)
Taken(o, w) ==
  CASE o = "--srv"    -> host = "address" /\ port = w.port.value
    [] o = "--period" -> period = w.number.value
    [] o = "--port"   -> port = w.number.value

(* The words before optind are read as the documentation reads them.       *)
Found ==
  \E at \in [option_enabled_ht -> DOMAIN argv] :
    Stands(at, option_enabled_ht, optind)

(* Every reading of the whole command line agrees with what is read so     *)
(* far: optind stands at no argument, the options seen are those before    *)
(* it, and their arguments are in the results.                             *)
Agrees(at, end) ==
  /\ optind <= end
  /\ \A o \in Options :
       /\ at[o] + 1 # optind
       /\ o \in option_enabled_ht <=> at[o] < optind
       /\ o \in option_enabled_ht => Taken(o, argv[at[o] + 1])

Coherent == \A at, end : Reading(at, end) => Agrees(at, end)

(* ParsedExactly without the set of readings. *)
ReadExactly ==
  /\ outcome # "parsing" =>
       (outcome = "parsed" <=> \E at, end : Reading(at, end))
  /\ outcome = "parsed" =>
       \A at, end : Reading(at, end) =>
         \A o \in Options : Taken(o, argv[at[o] + 1])

ParserInv ==
  /\ ParserTypeOK
  /\ outcome = "parsing" => Found /\ Coherent
  /\ ReadExactly

LEMMA OptionNames ==
  ASSUME ParserTypeOK
  PROVE  /\ Options \subseteq {"--srv", "--period", "--port"}
         /\ prog_type = "client" => Options = {"--srv", "--period"}
         /\ prog_type # "client" => Options = {"--port"}
BY DEF ParserTypeOK, ProgramType, Options

LEMMA ReadingStands ==
  ASSUME NEW at, NEW end
  PROVE  WellFormed(at, end) /\ PeriodTaken(at) <=>
           /\ end \in DOMAIN argv => argv[end].option = "--"
           /\ Stands(at, Options, end)
<1>1. PeriodTaken(at) <=>
        \A o \in Options : o = "--period" => argv[at[o] + 1].number.value <= MaxPeriod
  BY Zenon DEF PeriodTaken
<1> QED
  BY <1>1, Zenon DEF WellFormed, Stands, Accepted

LEMMA ExactlyRead == ParserTypeOK /\ ReadExactly => ParsedExactly
<1> SUFFICES ASSUME ParserTypeOK, ReadExactly PROVE ParsedExactly
  OBVIOUS
<1> DEFINE Within == {r \in Readings : PeriodTaken(r.at)}
<1>1. \A r \in Within : Reading(r.at, r.end)
  BY DEF Reading, Readings
<1>2. ASSUME NEW at, NEW end, Reading(at, end)
      PROVE  [at |-> at, end |-> end] \in Within
  BY <1>2 DEF Reading, Readings
<1>3. Within # {} <=> \E at, end : Reading(at, end)
  <2> HIDE DEF Within
  <2> QED
    BY <1>1, <1>2
<1>4. ASSUME outcome = "parsed", NEW r \in Within
      PROVE  IF prog_type = "client"
             THEN /\ host = "address"
                  /\ port = argv[r.at["--srv"] + 1].port.value
                  /\ period = argv[r.at["--period"] + 1].number.value
             ELSE port = argv[r.at["--port"] + 1].number.value
  <2>1. \A o \in Options : Taken(o, argv[r.at[o] + 1])
    BY <1>1, <1>4 DEF ReadExactly
  <2>2. CASE prog_type = "client"
    <3>1. Taken("--srv", argv[r.at["--srv"] + 1])
            /\ Taken("--period", argv[r.at["--period"] + 1])
      BY <2>1, <2>2 DEF Options
    <3> QED
      BY <2>2, <3>1 DEF Taken
  <2>3. CASE prog_type # "client"
    <3>1. Taken("--port", argv[r.at["--port"] + 1])
      BY <2>1, <2>3 DEF Options
    <3> QED
      BY <2>3, <3>1 DEF Taken
  <2> QED
    BY <2>2, <2>3
<1> QED
  BY <1>3, <1>4, Zenon DEF ParsedExactly, ReadExactly

LEMMA ParserInitially == InitStructs => ParserInv
<1> SUFFICES ASSUME InitStructs PROVE ParserInv
  OBVIOUS
<1>0. optind = 1 /\ option_enabled_ht = {} /\ argv \in Seq(Word)
        /\ Len(argv) \in Nat /\ DOMAIN argv = 1 .. Len(argv)
  <2>1. optind = 1 /\ option_enabled_ht = {} /\ argv \in Seq(Word)
    BY ParserAssumption DEF InitStructs
  <2>2. Len(argv) \in Nat /\ DOMAIN argv = 1 .. Len(argv)
    BY <2>1
  <2> QED
    BY <2>1, <2>2
<1>1. ParserTypeOK
  <2>1. optind \in 1 .. Len(argv) + 1
    BY <1>0
  <2> QED
    BY <1>0, <2>1 DEF InitStructs, ParserTypeOK
<1>2. Found
  <2>1. PICK at : at = [o \in {} |-> 1]
    OBVIOUS
  <2>2. at \in [option_enabled_ht -> DOMAIN argv]
    BY <1>0, <2>1
  <2>3. Stands(at, option_enabled_ht, optind)
    <3>1. 1 .. optind - 1 = {}
      BY <1>0
    <3> QED
      BY <1>0, <3>1, Zenon DEF Stands
  <2> QED
    BY <2>2, <2>3 DEF Found
<1>3. ASSUME NEW at, NEW end, Reading(at, end) PROVE Agrees(at, end)
  <2>1. \A o \in Options : at[o] \in 1 .. Len(argv)
    BY <1>0, <1>3 DEF Reading
  <2>2. optind <= end
    BY <1>0, <1>3 DEF Reading
  <2>3. ASSUME NEW o \in Options
        PROVE  at[o] + 1 # optind /\ ~(at[o] < optind) /\ o \notin option_enabled_ht
    BY <1>0, <2>1
  <2> QED
    BY <2>2, <2>3, Zenon DEF Agrees
<1>4. ReadExactly
  BY DEF InitStructs, ReadExactly
<1> QED
  BY <1>1, <1>2, <1>3, <1>4 DEF ParserInv, Coherent, InitStructs

-----------------------------------------------------------------------------
(* What a reading says of the word at optind.                              *)
LEMMA ReadingHere ==
  ASSUME ParserTypeOK, Coherent, NEW at, NEW end, Reading(at, end)
  PROVE  /\ AtEnd <=> optind = end
         /\ ~AtEnd => /\ optind < end
                      /\ \/ word.option = "word"
                         \/ \E o \in Options : optind = at[o] /\ word.option = o
<1>1. Agrees(at, end) /\ Stands(at, Options, end)
      /\ (end \in DOMAIN argv => argv[end].option = "--")
  BY ReadingStands DEF Coherent, Reading
<1>2. /\ end \in 1 .. Len(argv) + 1 /\ optind \in 1 .. Len(argv) + 1
      /\ Len(argv) \in Nat /\ DOMAIN argv = 1 .. Len(argv) /\ optind <= end
      /\ \A o \in Options : at[o] \in Nat
  BY <1>1 DEF Reading, ParserTypeOK, Agrees
<1>3. CASE optind = end
  BY <1>1, <1>3 DEF AtEnd, word
<1>4. CASE optind < end
  <2>1. optind \in 1 .. end - 1 /\ optind \in DOMAIN argv
    BY <1>2, <1>4
  <2>2. word.option = "word" \/ \E o \in Options : optind \in {at[o], at[o] + 1}
    BY <1>1, <2>1 DEF Stands, word
  <2>3. word.option = "word"
          \/ \E o \in Options : optind = at[o] /\ word.option = o
    BY <1>1, <2>2 DEF Agrees, Stands, word
  <2>4. ~AtEnd
    <3>1. word.option # "--"
      BY <2>3, OptionNames
    <3> QED
      BY <2>1, <3>1 DEF AtEnd
  <2> QED
    BY <1>4, <2>3, <2>4, <1>2
<1> QED
  BY <1>2, <1>3, <1>4

(* A turn of the loop that ends it, when the words cannot be read.         *)
LEMMA Refused ==
  ASSUME ParserInv, outcome' \in Outcomes \ {"parsing", "parsed"},
         optind' \in 1 .. Len(argv) + 1,
         UNCHANGED <<prog_type, argv, option_enabled_ht>>,
         ~ \E at, end : Reading(at, end)
  PROVE  ParserInv'
<1>1. ParserTypeOK'
  BY DEF ParserInv, ParserTypeOK, Options
<1>2. \A at, end : Reading(at, end)' <=> Reading(at, end)
  BY DEF Reading, WellFormed, PeriodTaken, Options
<1>3. outcome' \notin {"parsing", "parsed"}
  OBVIOUS
<1>4. ReadExactly'
  <2>1. ~ \E at, end : Reading(at, end)'
    BY <1>2
  <2> QED
    BY <1>3, <2>1 DEF ReadExactly
<1> QED
  BY <1>1, <1>3, <1>4 DEF ParserInv

(* The words to come, in numbers. *)
LEMMA WordHere ==
  ASSUME ParserTypeOK
  PROVE  /\ optind \in Nat \ {0} /\ Len(argv) \in Nat /\ argv \in Seq(Word)
         /\ DOMAIN argv = 1 .. Len(argv)
         /\ ~AtEnd => optind \in 1 .. Len(argv) /\ word \in Word
<1>1. optind \in 1 .. Len(argv) + 1 /\ argv \in Seq(Word)
  BY DEF ParserTypeOK
<1>2. Len(argv) \in Nat /\ DOMAIN argv = 1 .. Len(argv)
  BY <1>1
<1>3. ~AtEnd => optind \in 1 .. Len(argv)
  BY <1>2 DEF AtEnd
<1>4. \A i \in 1 .. Len(argv) : argv[i] \in Word
  BY <1>1
<1> QED
  BY <1>1, <1>2, <1>3, <1>4 DEF word

LEMMA SkipReads == ASSUME ParserInv, SkipWord PROVE ParserInv'
<1>1. /\ ParserTypeOK /\ Found /\ Coherent
      /\ ~AtEnd /\ word.option = "word" /\ optind' = optind + 1
      /\ UNCHANGED <<prog_type, argv, option_enabled_ht, host, port, period,
                     outcome>> /\ outcome = "parsing"
  BY DEF ParserInv, SkipWord
<1>2. /\ optind \in Nat \ {0} /\ Len(argv) \in Nat
      /\ DOMAIN argv = 1 .. Len(argv) /\ optind \in 1 .. Len(argv)
  BY <1>1, WordHere
<1>3. ParserTypeOK'
  BY <1>1, <1>2 DEF ParserTypeOK, Options
<1>4. Found'
  <2>1. PICK at \in [option_enabled_ht -> DOMAIN argv] :
          Stands(at, option_enabled_ht, optind)
    BY <1>1 DEF Found
  <2>2. \A o \in option_enabled_ht : at[o] \in Nat
    BY <1>2, <2>1
  <2>3. \A i \in 1 .. (optind + 1) - 1 : i \in 1 .. optind - 1 \/ i = optind
    BY <1>2
  <2>4. \A i \in 1 .. (optind + 1) - 1 :
          argv[i].option = "word"
            \/ \E o \in option_enabled_ht : i \in {at[o], at[o] + 1}
    BY <1>1, <2>1, <2>3, Zenon DEF Stands, word
  <2>5. \A o \in option_enabled_ht : at[o] + 1 < optind + 1
    BY <1>2, <2>1, <2>2 DEF Stands
  <2>6. Stands(at, option_enabled_ht, optind + 1)
    <3>1. /\ \A o \in option_enabled_ht :
               argv[at[o]].option = o /\ Accepted(o, argv[at[o] + 1])
          /\ \A o, p \in option_enabled_ht : at[o] # at[p] + 1
      BY <2>1, Zenon DEF Stands
    <3> QED
      BY <2>4, <2>5, <3>1, Zenon DEF Stands
  <2> QED
    BY <1>1, <2>1, <2>6 DEF Found, Stands
<1>5. ASSUME NEW at, NEW end, Reading(at, end) PROVE Agrees(at, end)'
  <2>1. optind < end /\ Agrees(at, end)
    BY <1>1, <1>5, ReadingHere DEF Coherent
  <2>2. /\ end \in Nat /\ \A o \in Options : at[o] \in Nat
        /\ Stands(at, Options, end)
    BY <1>2, <1>5, ReadingStands DEF Reading
  <2>3. ASSUME NEW o \in Options
        PROVE  /\ at[o] + 1 # optind + 1
               /\ at[o] < optind + 1 <=> at[o] < optind
    <3>1. at[o] # optind
      BY <1>1, <2>2, OptionNames DEF Stands, word
    <3> QED
      BY <1>2, <2>2, <3>1
  <2>4. optind + 1 <= end
    BY <1>2, <2>1, <2>2
  <2> QED
    BY <1>1, <2>1, <2>3, <2>4 DEF Agrees, Taken, Options
<1>6. Coherent'
  BY <1>1, <1>5 DEF Coherent, Reading, WellFormed, PeriodTaken, Options
<1> QED
  BY <1>1, <1>3, <1>4, <1>6 DEF ParserInv, ReadExactly

(* The step of HandleOption, with the option and the argument it reads.    *)
Reads(q, w) ==
  /\ q \in Options \ option_enabled_ht /\ Accepted(q, w)
  /\ q = "--srv" =>
       host' = "address" /\ port' = w.port.value /\ period' = period
  /\ q = "--period" =>
       period' = w.number.value /\ host' = host /\ port' = port
  /\ q = "--port" => port' = w.number.value
  /\ optind' = optind + 2
  /\ option_enabled_ht' = option_enabled_ht \cup {q}
  /\ UNCHANGED <<prog_type, argv, outcome>>

LEMMA OptionStep ==
  ASSUME ParserTypeOK, HandleOption
  PROVE  LET w == argv[optind + 1] IN
         /\ ~AtEnd /\ word.option \in Options \ option_enabled_ht
         /\ optind \in Nat \ {0} /\ optind + 1 \in 1 .. Len(argv) /\ w \in Word
         /\ \/ /\ ~Accepted(word.option, w)
               /\ outcome' \in {"invalid_argument", "out_of_range"}
               /\ UNCHANGED <<prog_type, argv, option_enabled_ht, host, port, period>>
               /\ optind' = optind + 2
            \/ Reads(word.option, w)
<1>1. ~AtEnd /\ word.option \in Options \ option_enabled_ht
        /\ optind < Len(argv) /\ optind' = optind + 2
        /\ UNCHANGED <<prog_type, argv>>
  BY DEF HandleOption
<1>2. PICK q \in {"--srv", "--period", "--port"} : q = word.option
  BY <1>1, OptionNames
<1>3. optind \in Nat \ {0} /\ optind + 1 \in 1 .. Len(argv)
  BY <1>1, WordHere
<1>4. PICK w \in Word : w = argv[optind + 1]
  BY <1>3, WordHere
<1>5. /\ Thrown(q, w) \in {"", "invalid_argument", "out_of_range"}
      /\ Thrown(q, w) = "" <=> Accepted(q, w)
  BY ArgumentAccepted
<1>6. \/ /\ Thrown(q, w) # ""
         /\ outcome' = Thrown(q, w)
         /\ UNCHANGED <<option_enabled_ht, host, port, period>>
      \/ /\ Thrown(q, w) = ""
         /\ host'   = IF q = "--srv" THEN "address" ELSE host
         /\ port'   = CASE q = "--srv"  -> w.port.value
                        [] q = "--port" -> w.number.value
                        [] OTHER -> port
         /\ period' = IF q = "--period" THEN w.number.value ELSE period
         /\ option_enabled_ht' = option_enabled_ht \cup {q}
         /\ UNCHANGED outcome
  BY <1>2, <1>4, Zenon DEF HandleOption, Thrown
<1>7. CASE Thrown(q, w) # ""
  BY <1>1, <1>2, <1>3, <1>4, <1>5, <1>6, <1>7
<1>8. CASE Thrown(q, w) = ""
  <2>1. Reads(q, w)
    BY <1>1, <1>2, <1>5, <1>6, <1>8 DEF Reads
  <2> QED
    BY <1>1, <1>2, <1>3, <1>4, <2>1, Zenon
<1> QED
  BY <1>7, <1>8

LEMMA HandleReads == ASSUME ParserInv, HandleOption PROVE ParserInv'
<1>0. ParserTypeOK /\ Found /\ Coherent /\ outcome = "parsing"
  BY DEF ParserInv, HandleOption
<1> DEFINE q == word.option
           w == argv[optind + 1]
<1>1. /\ ~AtEnd /\ q \in Options \ option_enabled_ht
      /\ optind \in Nat \ {0} /\ optind + 1 \in 1 .. Len(argv) /\ w \in Word
      /\ \/ /\ ~Accepted(q, w)
            /\ outcome' \in {"invalid_argument", "out_of_range"}
            /\ UNCHANGED <<prog_type, argv, option_enabled_ht, host, port, period>>
            /\ optind' = optind + 2
         \/ Reads(q, w)
  BY <1>0, OptionStep, Zenon
<1>2. Len(argv) \in Nat /\ DOMAIN argv = 1 .. Len(argv)
        /\ optind + 2 \in 1 .. Len(argv) + 1
  BY <1>0, <1>1, WordHere
<1>3. ASSUME NEW at, NEW end, Reading(at, end)
      PROVE  /\ at[q] = optind /\ Accepted(q, w) /\ optind + 2 <= end /\ end \in Nat
             /\ Agrees(at, end) /\ Stands(at, Options, end)
             /\ \A o \in Options : at[o] \in Nat
  <2>1. /\ Agrees(at, end) /\ Stands(at, Options, end)
        /\ end \in Nat /\ \A o \in Options : at[o] \in Nat
    BY <1>0, <1>2, <1>3, ReadingStands DEF Coherent, Reading
  <2>2. at[q] = optind
    <3>1. q # "word"
      BY <1>0, <1>1, OptionNames
    <3> QED
      BY <1>0, <1>1, <1>3, <3>1, ReadingHere
  <2>3. at[q] + 1 < end /\ Accepted(q, argv[at[q] + 1])
    BY <1>1, <2>1 DEF Stands
  <2> QED
    BY <1>1, <2>1, <2>2, <2>3
<1>4. CASE ~Accepted(q, w)
  <2>1. /\ outcome' \in {"invalid_argument", "out_of_range"}
        /\ UNCHANGED <<prog_type, argv, option_enabled_ht>>
        /\ optind' = optind + 2
    BY <1>1, <1>4 DEF Reads
  <2>2. ~ \E at, end : Reading(at, end)
    BY <1>3, <1>4
  <2>3. outcome' \in Outcomes \ {"parsing", "parsed"}
    BY <2>1 DEF Outcomes
  <2> QED
    BY <1>2, <2>1, <2>2, <2>3, Refused
<1>5. CASE Reads(q, w)
  <2>1. ParserTypeOK'
    BY <1>0, <1>1, <1>2, <1>5 DEF ParserTypeOK, Reads, Options
  <2>2. Found'
    <3>1. PICK at \in [option_enabled_ht -> DOMAIN argv] :
            Stands(at, option_enabled_ht, optind)
      BY <1>0 DEF Found
    <3> DEFINE S  == option_enabled_ht \cup {q}
               to == [o \in S |-> IF o = q THEN optind ELSE at[o]]
    <3>2. /\ to \in [S -> DOMAIN argv] /\ to[q] = optind
          /\ \A o \in option_enabled_ht : to[o] = at[o] /\ at[o] \in Nat
      BY <1>1, <1>2, <3>1
    <3> HIDE DEF to
    <3>3. ASSUME NEW o \in S
          PROVE  /\ to[o] + 1 < optind + 2 /\ argv[to[o]].option = o
                 /\ Accepted(o, argv[to[o] + 1])
      <4>1. CASE o = q
        BY <1>1, <1>5, <3>2, <4>1 DEF Reads, word
      <4>2. CASE o \in option_enabled_ht
        BY <1>1, <3>1, <3>2, <4>2 DEF Stands
      <4> QED
        BY <4>1, <4>2
    <3>4. ASSUME NEW o \in S, NEW p \in S PROVE to[o] # to[p] + 1
      <4>1. CASE o \in option_enabled_ht /\ p \in option_enabled_ht
        BY <3>1, <3>2, <4>1 DEF Stands
      <4>2. CASE o = q /\ p \in option_enabled_ht
        BY <1>1, <3>1, <3>2, <4>2 DEF Stands
      <4>3. CASE p = q /\ o \in option_enabled_ht
        BY <1>1, <3>1, <3>2, <4>3 DEF Stands
      <4>4. CASE p = q /\ o = q
        BY <1>1, <3>2, <4>4
      <4> QED
        BY <4>1, <4>2, <4>3, <4>4
    <3>5. ASSUME NEW i \in 1 .. (optind + 2) - 1
          PROVE  argv[i].option = "word" \/ \E o \in S : i \in {to[o], to[o] + 1}
      <4>1. CASE i \in 1 .. optind - 1
        BY <3>1, <3>2, <4>1 DEF Stands
      <4>2. CASE i \in {optind, optind + 1}
        BY <3>2, <4>2
      <4> QED
        BY <1>1, <4>1, <4>2
    <3>6. Stands(to, S, optind + 2)
      <4> HIDE DEF S
      <4> QED
        BY <3>3, <3>4, <3>5, Zenon DEF Stands
    <3> QED
      BY <1>5, <3>2, <3>6 DEF Found, Stands, Reads
  <2>3. ASSUME NEW at, NEW end, Reading(at, end) PROVE Agrees(at, end)'
    <3>1. /\ at[q] = optind /\ optind + 2 <= end /\ end \in Nat
          /\ Agrees(at, end) /\ Stands(at, Options, end)
          /\ \A o \in Options : at[o] \in Nat
      BY <1>3, <2>3
    <3>2. ASSUME NEW o \in Options
          PROVE  /\ at[o] + 1 # optind + 2
                 /\ at[o] < optind + 2 <=> o \in option_enabled_ht \cup {q}
      <4>1. at[o] # optind + 1 /\ at[q] + 1 # optind + 2
        BY <1>1, <3>1 DEF Stands
      <4>2. at[o] = optind => o = q
        BY <1>1, <3>1 DEF Stands, word
      <4>3. o \in option_enabled_ht <=> at[o] < optind
        BY <3>1 DEF Agrees
      <4> QED
        BY <1>1, <3>1, <4>1, <4>2, <4>3
    <3>3. ASSUME NEW o \in option_enabled_ht \cup {q}
          PROVE  Taken(o, argv[at[o] + 1])'
      <4>1. CASE o = q
        <5>1. q \in {"--srv", "--period", "--port"}
          BY <1>0, <1>1, OptionNames
        <5> QED
          BY <1>5, <3>1, <4>1, <5>1 DEF Reads, Taken
      <4>2. CASE o \in option_enabled_ht
        <5>1. Taken(o, argv[at[o] + 1]) /\ o \in Options /\ o # q
          BY <1>0, <1>1, <3>1, <4>2 DEF Agrees, ParserTypeOK
        <5> QED
          BY <1>0, <1>1, <1>5, <5>1, OptionNames DEF Reads, Taken
      <4> QED
        BY <4>1, <4>2
    <3> QED
      BY <1>5, <3>1, <3>2, <3>3 DEF Agrees, Reads, Options
  <2>4. Coherent'
    BY <1>5, <2>3 DEF Coherent, Reading, WellFormed, PeriodTaken, Options, Reads
  <2>5. outcome' = "parsing"
    BY <1>0, <1>5 DEF Reads
  <2> QED
    BY <2>1, <2>2, <2>4, <2>5 DEF ParserInv, ReadExactly
<1> QED
  BY <1>1, <1>4, <1>5

LEMMA RefusedReads ==
  ASSUME ParserInv, InvalidOption \/ DuplicateOption \/ MissingArgument
  PROVE  ParserInv'
<1>1. /\ ParserTypeOK /\ Coherent /\ ~AtEnd
      /\ outcome' \in Outcomes \ {"parsing", "parsed"}
      /\ UNCHANGED <<prog_type, argv, optind, option_enabled_ht>>
  BY DEF ParserInv, InvalidOption, DuplicateOption, MissingArgument, Throw,
         Outcomes
<1>2. ASSUME NEW at, NEW end, Reading(at, end) PROVE FALSE
  <2>1. /\ Agrees(at, end) /\ Stands(at, Options, end)
        /\ end \in 1 .. Len(argv) + 1 /\ Len(argv) \in Nat
        /\ \A o \in Options : at[o] \in Nat
    BY <1>1, <1>2, WordHere, ReadingStands DEF Coherent, Reading
  <2>2. word.option \in {"word"} \cup Options
    BY <1>1, <1>2, ReadingHere
  <2>3. ASSUME NEW o \in Options, word.option = o PROVE at[o] = optind
    <3>1. o # "word"
      BY <1>1, OptionNames
    <3> QED
      BY <1>1, <1>2, <2>3, <3>1, ReadingHere
  <2>4. CASE InvalidOption
    BY <2>2, <2>4 DEF InvalidOption
  <2>5. CASE DuplicateOption
    <3>1. word.option \in option_enabled_ht /\ word.option \in Options
      BY <1>1, <2>5 DEF DuplicateOption, ParserTypeOK
    <3>2. at[word.option] < optind
      BY <2>1, <3>1 DEF Agrees
    <3> QED
      BY <1>1, <2>3, <3>1, <3>2, WordHere
  <2>6. CASE MissingArgument
    <3>1. word.option \in Options /\ optind = Len(argv)
      BY <2>6 DEF MissingArgument
    <3>2. at[word.option] + 1 < end
      BY <2>1, <3>1 DEF Stands
    <3> QED
      BY <2>1, <2>3, <3>1, <3>2
  <2> QED
    BY <2>4, <2>5, <2>6
<1>3. optind' \in 1 .. Len(argv) + 1
  BY <1>1 DEF ParserTypeOK
<1> QED
  BY <1>1, <1>2, <1>3, Refused

LEMMA EndReads == ASSUME ParserInv, OptionsEnd PROVE ParserInv'
<1>1. /\ ParserTypeOK /\ Found /\ Coherent /\ AtEnd /\ outcome' = MissingOptions
      /\ UNCHANGED <<prog_type, argv, optind, option_enabled_ht, host, port, period>>
  BY DEF ParserInv, OptionsEnd, Throw
<1>2. /\ optind \in 1 .. Len(argv) + 1 /\ Len(argv) \in Nat
      /\ DOMAIN argv = 1 .. Len(argv)
  BY <1>1, WordHere DEF ParserTypeOK
<1>3. CASE option_enabled_ht = Options
  <2>1. PICK at \in [Options -> DOMAIN argv] : Stands(at, Options, optind)
    BY <1>1, <1>3 DEF Found
  <2>2. optind \in DOMAIN argv => argv[optind].option = "--"
    BY <1>1 DEF AtEnd, word
  <2>3. Reading(at, optind)
    BY <1>2, <2>1, <2>2, ReadingStands DEF Reading
  <2>4. outcome' = "parsed"
    BY <1>1, <1>3 DEF MissingOptions
  <2>5. \A bt, end : Reading(bt, end) =>
          \A o \in Options : Taken(o, argv[bt[o] + 1])
    BY <1>1, <1>3 DEF Coherent, Agrees
  <2>6. /\ \A bt, end : Reading(bt, end)' <=> Reading(bt, end)
        /\ \A o, w : Taken(o, w)' <=> Taken(o, w)
    BY <1>1 DEF Reading, WellFormed, PeriodTaken, Options, Taken
  <2>7. ReadExactly'
    BY <1>1, <2>3, <2>4, <2>5, <2>6 DEF ReadExactly, Options
  <2> QED
    BY <1>1, <2>4, <2>7 DEF ParserInv, ParserTypeOK, Options
<1>4. CASE option_enabled_ht # Options
  <2>1. outcome' \in Outcomes \ {"parsing", "parsed"}
    BY <1>1, <1>4 DEF MissingOptions, Outcomes
  <2>2. ASSUME NEW at, NEW end, Reading(at, end) PROVE FALSE
    <3>1. Agrees(at, end) /\ Stands(at, Options, end) /\ optind = end
      BY <1>1, <2>2, ReadingHere, ReadingStands DEF Coherent, Reading
    <3>2. ASSUME NEW o \in Options PROVE o \in option_enabled_ht
      <4>1. at[o] \in Nat /\ at[o] + 1 < optind
        BY <1>2, <2>2, <3>1 DEF Reading, Stands
      <4> QED
        BY <1>2, <3>1, <4>1 DEF Agrees
    <3> QED
      BY <1>1, <1>4, <3>2 DEF ParserTypeOK
  <2> QED
    BY <1>1, <1>2, <2>1, <2>2, Refused
<1> QED
  BY <1>3, <1>4

LEMMA ParserKept == ASSUME ParserInv, Parse PROVE ParserInv'
BY SkipReads, HandleReads, RefusedReads, EndReads DEF Parse

(* Nothing but Parse touches the parser's state. *)
LEMMA ParserLeft == ASSUME ParserInv, UNCHANGED parserVars PROVE ParserInv'
<1> USE DEF parserVars, Options
<1>1. ParserTypeOK'
  BY DEF ParserInv, ParserTypeOK
<1>2. /\ \A at, S, end : Stands(at, S, end)' <=> Stands(at, S, end)
      /\ \A at, end : Reading(at, end)' <=> Reading(at, end)
      /\ \A o, w : Taken(o, w)' <=> Taken(o, w)
  BY DEF Stands, Reading, WellFormed, PeriodTaken, Taken
<1>3. Found => Found'
  BY DEF Found, Stands
<1>4. \A at, end : Agrees(at, end) => Agrees(at, end)'
  BY DEF Agrees, Taken
<1>5. Coherent => Coherent'
  BY <1>2, <1>4, Zenon DEF Coherent
<1>6. ReadExactly => ReadExactly'
  BY <1>2 DEF ReadExactly
<1> QED
  BY <1>1, <1>3, <1>5, <1>6 DEF ParserInv

-----------------------------------------------------------------------------
(* What Parse throws but invalid_argument. *)

LEMMA ArgumentThrows ==
  ASSUME NEW w \in Word, NEW o \in {"--srv", "--period", "--port"}
  PROVE  /\ Thrown(o, w) # "logic_error"
         /\ Thrown(o, w) = "out_of_range"
              => TooLong(IF o = "--srv" THEN w.port ELSE w.number)
<1>1. \A n, lo, hi : InRange(n, lo, hi) = "out_of_range" => TooLong(n)
  BY DEF InRange, ParseNum, TooLong
<1>2. Thrown(o, w) # "logic_error"
  BY ArgumentAccepted
<1>3. CASE o = "--srv"
  BY <1>1, <1>2, <1>3 DEF Thrown, ParseSrv, ParsePort
<1>4. CASE o \in {"--period", "--port"}
  BY <1>1, <1>2, <1>4 DEF Thrown, ParsePort, ParsePeriod
<1> QED
  BY <1>3, <1>4

LEMMA ThrownKept ==
  ASSUME ParserInv, ThrownExplained, Parse PROVE ThrownExplained'
<1>1. ParserTypeOK
  BY DEF ParserInv
<1>2. UNCHANGED <<prog_type, argv>> /\ Options' = Options
  BY DEF Parse, SkipWord, InvalidOption, DuplicateOption, MissingArgument,
         HandleOption, OptionsEnd, Throw, Options
<1>3. CASE outcome' \in {"parsing", "parsed", "invalid_argument"}
  BY <1>3 DEF ThrownExplained
<1>4. CASE MissingArgument
  <2>1. outcome' = "logic_error" /\ optind = Len(argv) /\ word.option \in Options
    BY <1>4 DEF MissingArgument, Throw
  <2>2. argv # <<>>
    BY <1>1, <2>1 DEF ParserTypeOK
  <2> QED
    BY <1>2, <2>1, <2>2 DEF ThrownExplained, word
<1>5. CASE HandleOption
  <2>1. /\ word.option \in Options /\ optind \in 1 .. Len(argv) - 1
        /\ Len(argv) \in Nat /\ argv[optind + 1] \in Word
    <3>1. word.option \in Options /\ optind < Len(argv)
      BY <1>5 DEF HandleOption
    <3>2. optind \in 1 .. Len(argv) + 1 /\ Len(argv) \in Nat /\ argv \in Seq(Word)
      BY <1>1 DEF ParserTypeOK
    <3>3. optind \in 1 .. Len(argv) - 1 /\ optind + 1 \in 1 .. Len(argv)
      BY <3>1, <3>2
    <3> QED
      BY <3>1, <3>2, <3>3
  <2>2. outcome' = Thrown(word.option, argv[optind + 1]) \/ outcome' = outcome
    BY <1>5 DEF HandleOption, Thrown
  <2>3. CASE outcome' = outcome
    BY <1>3, <1>5, <2>3 DEF HandleOption
  <2>4. CASE outcome' = Thrown(word.option, argv[optind + 1])
    <3>1. word.option \in {"--srv", "--period", "--port"}
      BY <1>1, <2>1, OptionNames
    <3>2. outcome' # "logic_error"
      BY <2>1, <2>4, <3>1, ArgumentThrows
    <3>3. outcome' = "out_of_range"
            => TooLong(IF word.option = "--srv" THEN argv[optind + 1].port
                                                ELSE argv[optind + 1].number)
      BY <2>1, <2>4, <3>1, ArgumentThrows, Zenon
    <3>4. optind + 1 \in 2 .. Len(argv) /\ (optind + 1) - 1 = optind
      BY <2>1
    <3>5. PICK i : i = optind + 1
      OBVIOUS
    <3>6. outcome' = "out_of_range"
            => /\ i \in 2 .. Len(argv) /\ argv[i - 1].option \in Options
               /\ TooLong(IF argv[i - 1].option = "--srv" THEN argv[i].port
                                                         ELSE argv[i].number)
      BY <2>1, <3>3, <3>4, <3>5, Zenon DEF word
    <3> QED
      BY <1>2, <3>2, <3>6 DEF ThrownExplained, TooLong
  <2> QED
    BY <2>2, <2>3, <2>4
<1> QED
  BY <1>3, <1>4, <1>5 DEF Parse, SkipWord, InvalidOption, DuplicateOption,
     OptionsEnd, MissingOptions, Throw

LEMMA ThrownLeft ==
  ASSUME ThrownExplained, UNCHANGED parserVars PROVE ThrownExplained'
BY DEF ThrownExplained, parserVars, Options, TooLong
=============================================================================
