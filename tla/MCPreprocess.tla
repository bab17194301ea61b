---------------------------- MODULE MCPreprocess ----------------------------
(***************************************************************************)
(* Programs with up to two placeholders at offsets that print with every   *)
(* length: below 10, below 100, below 1000 and beyond, where a dot is      *)
(* printed as well.                                                        *)
(***************************************************************************)
EXTENDS Preprocess

MCNumeral == [n \in 0..9 |->
  <<"0", "1", "2", "3", "4", "5", "6", "7", "8", "9">>[n + 1]]

Filler(n) == [k \in 1..n |-> "x"]
Program(before, between, hole) ==
  Filler(before) \o <<"#", "0">> \o Filler(between) \o hole \o <<"x", "y", "z">>

Holes == {<<>>, <<"#", "0">>, <<"#", "1">>}
MCArguments == {<<>>, <<<<"7">>>>, <<<<"1", ".", "0", "0", "0">>, <<"4", "2">>>>}

\* Offsets of every length: up to 9, 99, 999 and beyond.
AllBodies == {Program(m, n, h) : m \in {0, 1, 8, 9, 10, 98, 99, 100, 101, 250, 990, 998, 1000},
                                 n \in {0, 1, 3}, h \in Holes}
MCChar == {MCNumeral[n] : n \in 0..9} \cup {".", "#", "x", "y", "z"}
=============================================================================
