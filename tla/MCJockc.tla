------------------------------ MODULE MCJockc ------------------------------
(***************************************************************************)
(* Two families of command lines: programs with up to two placeholders at  *)
(* offsets that print with every length (as in MCPreprocess), the first    *)
(* one with or without a "#" before it, with up to two arguments, one of   *)
(* them beyond a thousand, and no library but hoon; and small programs     *)
(* with every directory of up to three files, of which two can share a     *)
(* name, and some are of another kind or cannot be read.                   *)
(***************************************************************************)
EXTENDS Jockc

MCNumeral == [n \in 0..9 |->
  <<"0", "1", "2", "3", "4", "5", "6", "7", "8", "9">>[n + 1]]

Filler(n) == [k \in 1..n |-> "x"]
Text(before, lead, between, hole) ==
  Filler(before) \o lead \o <<"#", "0">> \o Filler(between) \o hole \o <<"x", "y", "z">>

Holes == {<<>>, <<"#", "0">>, <<"#", "1">>}
Texts == {Text(m, l, n, h) : m \in {0, 1, 8, 9, 10, 98, 99, 100, 101, 250, 990, 998, 1000},
                             l \in {<<>>, <<"#">>}, n \in {0, 3}, h \in Holes}

File(stem, ext, t, readable) == [stem |-> stem, ext |-> ext, text |-> t, readable |-> readable]
HoonLib == File("hoon", "txt", "h", TRUE)
Files ==
  {HoonLib, File("hoon", "jock", "h2", TRUE), File("m", "jock", "m1", TRUE),
   File("m", "hoon", "m2", TRUE), File("n", "md", "n1", TRUE), File("o", "hoon", "o1", FALSE)}

Input(t, r, a, d) == [program |-> [text |-> t, readable |-> r], args |-> a, dir |-> d]
MCInputs ==
  {Input(t, TRUE, a, {HoonLib}) : t \in Texts, a \in {<<>>, <<7>>, <<1000, 42>>}}
  \cup {Input(Text(1, <<>>, 0, <<"#", "1">>), r, a, d) :
          r \in BOOLEAN, a \in {<<7>>, <<1000, 42, 1234567>>},
          d \in {dir \in SUBSET Files : \E f, g, h \in Files : dir \subseteq {f, g, h}}}

\* What Preprocess is about.
MCBodies == {input.program.text : input \in MCInputs}
MCArguments == {[k \in DOMAIN input.args |-> ScotUd(input.args[k])] : input \in MCInputs}
MCChar == {MCNumeral[n] : n \in 0..9} \cup {".", "#", "x", "y", "z"}
=============================================================================
