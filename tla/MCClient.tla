------------------------------ MODULE MCClient ------------------------------
(***************************************************************************)
(* Command lines and screens to try.  Numbers are scaled down with the     *)
(* limits they meet: each limit, one below, one above, and one beyond int. *)
(***************************************************************************)
EXTENDS Client

Exactly(n)  == [digits |-> TRUE, value |-> n, rest |-> FALSE]
Followed(n) == [digits |-> TRUE, value |-> n, rest |-> TRUE]
NoNumber    == [digits |-> FALSE, value |-> 0, rest |-> TRUE]

Numbers == {Exactly(n) : n \in 0 .. IntMax + 1}
             \cup {Followed(1), Followed(IntMax + 1), NoNumber}

Text(option, number) ==
  [option |-> option, number |-> number, colon |-> FALSE, address |-> FALSE,
   port |-> NoNumber]

Peer(address, number) ==
  [option |-> "word", number |-> NoNumber, colon |-> TRUE, address |-> address,
   port |-> number]

OptionWords == {Text(o, NoNumber) :
                  o \in {"--srv", "--period", "--port", "--", "other"}}

Arguments == {Text("word", n) : n \in Numbers} \cup {Text("other", Exactly(-1))}
               \cup {Peer(TRUE, n) : n \in Numbers} \cup {Peer(FALSE, Exactly(1))}

Names == {Text(o, NoNumber) : o \in {"--srv", "--period", "--port"}}
Some  == {Text("word", Exactly(1)), Peer(TRUE, Exactly(1)), Peer(TRUE, Exactly(0))}
Stray == OptionWords \cup {Text("word", Exactly(1))}

(* Anything short; any two options with any arguments; and a stray word    *)
(* anywhere among two options.                                             *)
ShortAndLong ==
  LET All == OptionWords \cup Arguments
  IN  {<<>>} \cup {<<a>> : a \in All} \cup {<<a, b>> : a, b \in All}
        \cup {<<o, a, w>> : o \in Names, a \in Arguments, w \in Stray}
        \cup {<<w, o, a>> : o \in Names, a \in Arguments, w \in Stray}
        \cup {<<o, a, p, b>> : o, p \in Names, a, b \in Arguments}
        \cup UNION {{<<w, o, a, p, b>>, <<o, w, a, p, b>>, <<o, a, w, p, b>>,
                     <<o, a, p, w, b>>, <<o, a, p, b, w>>} :
                       w \in Stray, o, p \in Names, a, b \in Some}

TryScreens ==
  {[width |-> w, height |-> 2,
    format |-> [bits_per_pixel |-> b, lsb_first |-> l, padding |-> p]] :
      w \in {0, 2}, b \in {16, 24, 32}, l \in BOOLEAN, p \in {0, 1}}
=============================================================================
