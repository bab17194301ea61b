------------------------------ MODULE MCLexer ------------------------------
(***************************************************************************)
(* Instances of Lexer for TLC: every text over a small alphabet, up to a   *)
(* length.  The alphabets keep one or two characters of each class the     *)
(* lexer tells apart.  "ass" and "as" stand for the keywords assert and as *)
(* (one a prefix of the other, the longer listed first), "ta" and "st" for *)
(* true and false, and 15 for the largest number.                          *)
(***************************************************************************)
EXTENDS LexerRefinesHoon, SequencesExt

MCLower == {"a", "s", "t", "x"}
MCUpper == {"X"}
MCDigit == {"0", "1"}
MCHexLetter == {"a"}
MCBlank == {" ", "tab", "nl", "cr"}
MCGah == {" ", "nl"}
MCPunct == {"/", "*", "%", "(", "_", "."}
MCPrintable == MCLower \cup MCUpper \cup MCDigit \cup MCPunct \cup {" ", "'", "|"}
MCChar == MCPrintable \cup {"tab", "nl", "cr"}
MCKeywords == <<<<"a", "s", "s">>, <<"a", "s">>>>
MCBooleans == <<<<"t", "a">>, <<"s", "t">>>>
MCDigitValue == [d \in {"0", "1", "a"} |-> CASE d = "0" -> 0 [] d = "1" -> 1 [] d = "a" -> 10]
MCMaxValue == 15

\* Keywords, names, types and calls.
WordTexts == BoundedSeq({"a", "s", "t", "X", "0", "_", "(", " "}, 4)

\* Comments and blanks, among names and calls.
TriviaTexts == BoundedSeq({"/", "*", "nl", "cr", " ", "a"}, 5)
                 \cup BoundedSeq({"/", "*", "a", "("}, 6)

\* Numbers, strings and symbols, well and badly formed.
LiteralTexts == BoundedSeq({"0", "1", "x", "a", "'", "%", "|"}, 4)

AllTexts == WordTexts \cup TriviaTexts \cup LiteralTexts

\* The texts given to both tokenizers.
MixedTexts == BoundedSeq({"a", "s", "t", "X", "0", "x", "/", "*", "nl", "cr", "(", "%", "'"}, 4)
=============================================================================
