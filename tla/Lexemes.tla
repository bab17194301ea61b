------------------------------ MODULE Lexemes ------------------------------
(***************************************************************************)
(* The lexical grammar of Jock, as the try_* functions of                  *)
(* crates/jock-tokenizer/src/lexer.rs recognise it.  Every operator is a   *)
(* relation between a text s (a sequence of characters), the position p    *)
(* where the lexer stands and the position q just after the lexeme; the    *)
(* code's "no match" is the absence of any such q.                         *)
(*                                                                         *)
(* Positions count from 1, so that p = Len(s) + 1 is the end of input.     *)
(* Characters are strings; the classes that the code tests with            *)
(* is_ascii_* are constants, so that an instance may use a small alphabet. *)
(***************************************************************************)
EXTENDS Integers, Sequences

CONSTANTS
  Lower,      \* [a-z]
  Upper,      \* [A-Z]
  Digit,      \* [0-9]
  HexLetter,  \* [a-fA-F]
  Blank,      \* the characters of gah and "\r": space, tab, nl, cr
  Punct,      \* the characters Jpunc::from_char maps to a punctuator
  Printable,  \* 0x20..0x7e
  Keywords,   \* KEYWORDS, the reserved words in list order
  Booleans,   \* the words "true" and "false"
  DigitValue, \* the value of each (hexadecimal) digit
  MaxValue    \* u64::MAX

ASSUME LexemesAssumption ==
  /\ MaxValue \in Nat
  /\ Printable \cap {"tab", "nl", "cr"} = {}
  /\ Lower \cap Upper = {} /\ Lower \cap Digit = {} /\ Upper \cap Digit = {}
  /\ (Lower \cup Upper \cup Digit \cup Blank) \cap (Punct \cup {"'"}) = {}
  /\ {"/", "*", "%", "(", "_"} \subseteq Punct /\ "'" \notin Punct
  /\ DigitValue \in [Digit \cup HexLetter -> Nat]
  /\ Keywords \in Seq(Seq(Lower)) /\ Booleans \in Seq(Seq(Lower))
  /\ \A i \in DOMAIN Keywords : Len(Keywords[i]) > 0
  /\ \A i \in DOMAIN Booleans : Len(Booleans[i]) > 0

NameChar == Lower \cup Digit \cup {"_"}
WordChar == Lower \cup Upper \cup Digit \cup {"_"}
LineChar == Printable \cup {"tab"}
BlockChar == Printable \cup {"tab", "nl"}

End(s) == Len(s) + 1

\* peek: is the character at p one of C?
Sees(s, p, C) == p \in 1..Len(s) /\ s[p] \in C

\* p..q-1 is the longest run of characters of C that starts at p.
RunOf(s, p, q, C) ==
  /\ q \in p..End(s)
  /\ \A k \in p..(q - 1) : s[k] \in C
  /\ ~Sees(s, q, C)

\* remaining.starts_with(w)
StartsWith(s, p, w) ==
  /\ p + Len(w) <= End(s)
  /\ \A k \in 1..Len(w) : s[p + k - 1] = w[k]

\* The value of the digits p..q-1 of s.
Value(s, p, q, base) ==
  LET v[k \in 0..(q - p)] ==
        IF k = 0 THEN 0 ELSE base * v[k - 1] + DigitValue[s[p + k - 1]]
  IN  v[q - p]
-----------------------------------------------------------------------------
(* Trivia: comments and blanks.                                            *)

LineCommentAt(s, p, q) ==
  /\ StartsWith(s, p, <<"/", "/">>)
  /\ q \in (p + 3)..End(s)
  /\ s[q - 1] = "nl"
  /\ \A k \in (p + 2)..(q - 2) : s[k] \in LineChar

\* The first star-slash after the opening ends the comment, and every
\* character before it must be one the comment may hold.
BlockCommentAt(s, p, q) ==
  /\ StartsWith(s, p, <<"/", "*">>)
  /\ q \in (p + 4)..End(s)
  /\ StartsWith(s, q - 2, <<"*", "/">>)
  /\ \A k \in (p + 2)..(q - 3) :
       s[k] \in BlockChar /\ ~StartsWith(s, k, <<"*", "/">>)

BlockComment(s, p) == \E q \in p..End(s) : BlockCommentAt(s, p, q)

OpenBlockComment(s, p) == StartsWith(s, p, <<"/", "*">>) /\ ~BlockComment(s, p)
-----------------------------------------------------------------------------
(* Tokens.                                                                 *)

\* Mutant of KeywordAt: a keyword must be followed by a blank.
KeywordAtSpaced(s, p, q) ==
  \E i \in DOMAIN Keywords :
    /\ StartsWith(s, p, Keywords[i])
    /\ q = p + Len(Keywords[i])
    /\ Sees(s, q, Blank) \/ q = End(s)

\* A listed keyword that is a prefix of the rest of the text and is not
\* followed by a character that could continue a word.  At most one keyword
\* can be: the next letter of a longer one would continue the shorter.  The
\* order of the list, which the code follows, is therefore immaterial.
KeywordAt(s, p, q) ==
  \E i \in DOMAIN Keywords :
    /\ StartsWith(s, p, Keywords[i])
    /\ q = p + Len(Keywords[i])
    /\ ~Sees(s, q, WordChar)

\* No boundary check: "trueish" starts with a boolean.
BooleanAt(s, p, q) ==
  \E i \in DOMAIN Booleans :
    /\ StartsWith(s, p, Booleans[i])
    /\ q = p + Len(Booleans[i])

HexDigitsAt(s, p, q) ==
  /\ StartsWith(s, p, <<"0", "x">>)
  /\ q > p + 2
  /\ RunOf(s, p + 2, q, Digit \cup HexLetter)

DigitsAt(s, p, q) ==
  /\ ~\E r \in p..End(s) : HexDigitsAt(s, p, r)
  /\ q > p
  /\ RunOf(s, p, q, Digit)

HexAt(s, p, q) == HexDigitsAt(s, p, q) /\ Value(s, p + 2, q, 16) <= MaxValue

NumberAt(s, p, q) == DigitsAt(s, p, q) /\ Value(s, p, q, 10) <= MaxValue

StringAt(s, p, q) ==
  /\ Sees(s, p, {"'"})
  /\ q > p + 1
  /\ Sees(s, q - 1, {"'"})
  /\ \A k \in (p + 1)..(q - 2) : s[k] \in Printable \ {"'"}

\* The four literals start differently, but for the hexadecimal prefix, which
\* DigitsAt rules out: their order needs no further guard.
LiteralAt(s, p, q) ==
  \/ BooleanAt(s, p, q)
  \/ HexAt(s, p, q)
  \/ NumberAt(s, p, q)
  \/ StringAt(s, p, q)

SymbolAt(s, p, q) == Sees(s, p, {"%"}) /\ LiteralAt(s, p + 1, q)

NameAt(s, p, q) == Sees(s, p, Lower) /\ q > p /\ RunOf(s, p, q, NameChar)

TypeAt(s, p, q) == Sees(s, p, Upper) /\ RunOf(s, p + 1, q, Lower)

\* The literals that fail the whole run, rather than just not match.
Overflows(s, p) ==
  \E q \in p..End(s) :
    \/ HexDigitsAt(s, p, q) /\ ~(Value(s, p + 2, q, 16) <= MaxValue)
    \/ DigitsAt(s, p, q) /\ ~(Value(s, p, q, 10) <= MaxValue)

OpenString(s, p) == Sees(s, p, {"'"}) /\ ~\E q \in p..End(s) : StringAt(s, p, q)

BadLiteral(s, p) == Overflows(s, p) \/ OpenString(s, p)

Keyword(s, p) == \E q \in p..End(s) : KeywordAt(s, p, q)
Literal(s, p) == \E q \in p..End(s) : SymbolAt(s, p, q) \/ LiteralAt(s, p, q)

\* A literal, after its "%" if it has one, that fails at position at.
FailsAt(s, p, at) ==
  \/ at = p /\ BadLiteral(s, p)
  \/ at = p + 1 /\ Sees(s, p, {"%"}) /\ BadLiteral(s, p + 1)

Fails(s, p) == \E at \in {p, p + 1} : FailsAt(s, p, at)
=============================================================================
