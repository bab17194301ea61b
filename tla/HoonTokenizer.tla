--------------------------- MODULE HoonTokenizer ---------------------------
(***************************************************************************)
(* The tokenizer of common/hoon/lib/jock.hoon, which the Rust lexer says   *)
(* it translates precisely.  It is a grammar, run here as a machine with   *)
(* the state of the Rust lexer: gav skips trivia, tokens picks the first   *)
(* rule of its pose that matches, and full fails the whole parse when the  *)
(* rules stop before the end of the text.                                  *)
(*                                                                         *)
(* The parsers of Hoon's standard library (perk, jest, prn, gah, dem:ag,   *)
(* hex) are not in the repository: perk matches the first listed word that *)
(* is a prefix of the text; gah is a space or a newline; dem:ag reads a    *)
(* number the way Hoon writes it, as 0 or in groups of three digits parted *)
(* by dots, and hex any number of digits, neither with a largest value.    *)
(***************************************************************************)
EXTENDS Lexemes

CONSTANTS
  Gah,    \* space and newline
  Inputs

VARIABLES input, pos, fun, tokens, mode

vars == <<input, pos, fun, tokens, mode>>

Init ==
  /\ input \in Inputs
  /\ pos = 1
  /\ fun = FALSE
  /\ tokens = <<>>
  /\ mode = "trivia"

\* ++val, ++var or gah.
TriviaAt(s, p, q) ==
  \/ LineCommentAt(s, p, q)
  \/ BlockCommentAt(s, p, q)
  \/ Sees(s, p, Gah) /\ q = p + 1

Skip ==
  /\ mode = "trivia"
  /\ \E q \in pos..End(input) : TriviaAt(input, pos, q) /\ pos' = q
  /\ UNCHANGED <<input, fun, tokens, mode>>

SkipEnds ==
  /\ mode = "trivia"
  /\ ~\E q \in pos..End(input) : TriviaAt(input, pos, q)
  /\ mode' = "token"
  /\ UNCHANGED <<input, pos, fun, tokens>>
-----------------------------------------------------------------------------
\* ++keyword: the first word of the list that the text starts with.
PerkAt(s, p, q) ==
  \E i \in DOMAIN Keywords :
    /\ StartsWith(s, p, Keywords[i])
    /\ \A j \in 1..(i - 1) : ~StartsWith(s, p, Keywords[j])
    /\ q = p + Len(Keywords[i])

Perk(s, p) == \E q \in p..End(s) : PerkAt(s, p, q)

\* A dot and three digits.
GroupAt(s, p) == Sees(s, p, {"."}) /\ \A k \in 1..3 : Sees(s, p + k, Digit)

\* dem:ag: 0, or one to three digits and then n groups.
DemAt(s, p, q) ==
  \/ Sees(s, p, {"0"}) /\ q = p + 1
  \/ /\ Sees(s, p, Digit \ {"0"})
     /\ \E h \in (p + 1)..(p + 3), n \in 0..Len(s) :
          /\ \A k \in p..(h - 1) : Sees(s, k, Digit)
          /\ h = p + 3 \/ ~Sees(s, h, Digit)
          /\ q = h + 4 * n
          /\ \A j \in 0..(n - 1) : GroupAt(s, h + 4 * j)
          /\ ~GroupAt(s, q)

\* ++literal: loobean, hexadecimal, number, string.
HoonLiteralAt(s, p, q) ==
  \/ BooleanAt(s, p, q)
  \/ HexDigitsAt(s, p, q)
  \/ DemAt(s, p, q) /\ ~\E r \in p..End(s) : HexDigitsAt(s, p, r)
  \/ StringAt(s, p, q)

\* ++symbol before ++literal
AtomAt(s, p, q) ==
  \/ Sees(s, p, {"%"}) /\ HoonLiteralAt(s, p + 1, q)
  \/ HoonLiteralAt(s, p, q)

Atom(s, p) == \E q \in p..End(s) : AtomAt(s, p, q)

Produce(kind, q, isFun) ==
  /\ tokens' = Append(tokens, [kind |-> kind, from |-> pos, to |-> q])
  /\ pos' = q
  /\ fun' = isFun
  /\ mode' = "trivia"
  /\ UNCHANGED input

TaggedKeyword ==
  /\ mode = "token"
  /\ \E q \in pos..End(input) : PerkAt(input, pos, q) /\ Produce("keyword", q, FALSE)

TaggedLiteral ==
  /\ mode = "token"
  /\ ~Perk(input, pos)
  /\ \E q \in pos..End(input) : AtomAt(input, pos, q) /\ Produce("literal", q, FALSE)

TaggedName ==
  /\ mode = "token"
  /\ ~Perk(input, pos) /\ ~Atom(input, pos)
  /\ \E q \in pos..End(input) : NameAt(input, pos, q) /\ Produce("name", q, TRUE)

TaggedPunctuator ==
  /\ mode = "token"
  /\ ~Perk(input, pos) /\ ~Atom(input, pos)
  /\ Sees(input, pos, Punct)
  /\ Produce(IF fun /\ input[pos] = "(" THEN "call" ELSE "punctuator",
             pos + 1, FALSE)

TaggedType ==
  /\ mode = "token"
  /\ \E q \in pos..End(input) : TypeAt(input, pos, q) /\ Produce("type", q, TRUE)

\* No rule of tokens matches at p.
NoRule(s, p) ==
  /\ p <= Len(s)
  /\ ~Perk(s, p) /\ ~Atom(s, p)
  /\ ~Sees(s, p, Lower \cup Upper \cup Punct)

\* full fails and drops the tokens, so that a "%" that heads no symbol and
\* the failure right after it, where gav skips nothing, may be taken as one.
FullFails ==
  /\ mode = "token"
  /\ \/ NoRule(input, pos)
     \/ /\ Sees(input, pos, {"%"}) /\ ~Atom(input, pos)
        /\ NoRule(input, pos + 1) /\ ~Sees(input, pos + 1, Gah)
  /\ mode' = "error"
  /\ UNCHANGED <<input, pos, fun, tokens>>

FullSucceeds ==
  /\ mode = "token"
  /\ pos > Len(input)
  /\ mode' = "done"
  /\ UNCHANGED <<input, pos, fun, tokens>>

Next ==
  \/ Skip \/ SkipEnds
  \/ TaggedKeyword \/ TaggedLiteral \/ TaggedName
  \/ TaggedPunctuator \/ TaggedType
  \/ FullFails \/ FullSucceeds

Spec == Init /\ [][Next]_vars
=============================================================================
