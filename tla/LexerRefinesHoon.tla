-------------------------- MODULE LexerRefinesHoon --------------------------
(***************************************************************************)
(* The Rust lexer against the Hoon tokenizer it ports.  The state of the   *)
(* two is the same but for the error, which Hoon does not describe.        *)
(***************************************************************************)
EXTENDS Lexer

CONSTANT Gah  \* the blanks of Hoon's gah

ASSUME GahAssumption == Gah \subseteq Blank /\ "0" \in Digit

Hoon == INSTANCE HoonTokenizer

\* The texts on which the two agree: a keyword is never the beginning of a
\* longer word (Hoon's perk has no boundary check), every comment that is
\* opened is closed (in Hoon the "/" and "*" of an open one are punctuators),
\* blanks are those of gah, and every number is short enough to be written
\* alike (no dots, no leading zeros) and to fit in 64 bits.
Agreed(s) ==
  \A p \in 1..End(s) :
    /\ \A i \in DOMAIN Keywords :
         StartsWith(s, p, Keywords[i]) =>
           ~Sees(s, p + Len(Keywords[i]), WordChar)
    /\ ~OpenBlockComment(s, p)
    /\ ~Sees(s, p, Blank \ Gah)
    /\ Sees(s, p, {"0"}) => ~Sees(s, p + 1, Digit)
    /\ \E k \in 0..3 : ~Sees(s, p + k, Digit)
    /\ ~Hoon!GroupAt(s, p)
    /\ ~Overflows(s, p)

\* The Rust lexer on the texts among Inputs on which they agree.
AgreedInit == Init /\ Agreed(input)
AgreedSpec == AgreedInit /\ [][Next]_vars

\* Each step of the Rust lexer is the step of the Hoon tokenizer on the same
\* text, so that both produce the same tokens or both fail.
HoonSpec == Hoon!Spec
=============================================================================
