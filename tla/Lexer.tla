------------------------------- MODULE Lexer -------------------------------
(***************************************************************************)
(* The Lexer of crates/jock-tokenizer/src/lexer.rs: a cursor over the      *)
(* input, the fun flag that turns "(" into the pseudo-punctuator "((" of a *)
(* function call, and the token list that tokenize_all builds.             *)
(*                                                                         *)
(* mode is the place in tokenize_all: skipping trivia ("trivia", the loop  *)
(* of skip_whitespace_and_comments), about to call next_token ("token"),   *)
(* returned Ok ("done") or Err ("error").  A token is its kind and its     *)
(* span: the text is input[from..to-1].                                    *)
(***************************************************************************)
EXTENDS Lexemes

CONSTANTS
  Char,   \* the characters a text is made of
  Inputs  \* the texts to tokenize

ASSUME InputsAssumption == Inputs \subseteq Seq(Char)

VARIABLES
  input,   \* the text
  pos,     \* the cursor
  fun,     \* was the last token a name or a type?
  tokens,  \* the tokens pushed so far
  mode,    \* the place in tokenize_all
  error    \* the error returned, with its position

vars == <<input, pos, fun, tokens, mode, error>>

NoError == [kind |-> "none", at |-> 0]

ErrorKinds == {"UnexpectedCharacter", "UnterminatedString",
               "UnterminatedBlockComment", "NumberOverflow"}

Token == [kind : {"keyword", "literal", "name", "punctuator", "call", "type"},
          from : Nat, to : Nat]

Init ==
  /\ input \in Inputs
  /\ pos = 1
  /\ fun = FALSE
  /\ tokens = <<>>
  /\ mode = "trivia"
  /\ error = NoError

Fail(kind, at) ==
  /\ mode' = "error"
  /\ error' = [kind |-> kind, at |-> at]
  /\ UNCHANGED <<input, pos, fun, tokens>>
-----------------------------------------------------------------------------
(* skip_whitespace_and_comments: line comment, block comment, blank.       *)

SkipTo(q) ==
  /\ pos' = q
  /\ UNCHANGED <<input, fun, tokens, mode, error>>

SkipLineComment ==
  /\ mode = "trivia"
  /\ \E q \in pos..End(input) : LineCommentAt(input, pos, q) /\ SkipTo(q)

\* Mutant of SkipBlockComment: the closing star-slash is not consumed.
SkipBlockCommentShort ==
  /\ mode = "trivia"
  /\ \E q \in pos..End(input) : BlockCommentAt(input, pos, q) /\ SkipTo(q - 2)

SkipBlockComment ==
  /\ mode = "trivia"
  /\ \E q \in pos..End(input) : BlockCommentAt(input, pos, q) /\ SkipTo(q)

\* "/*" commits: without its end the whole run fails.
OpenComment ==
  /\ mode = "trivia"
  /\ OpenBlockComment(input, pos)
  /\ Fail("UnterminatedBlockComment", pos)

\* Mutant of SkipBlank: the loop does not advance.
SkipBlankStuck ==
  /\ mode = "trivia"
  /\ Sees(input, pos, Blank)
  /\ SkipTo(pos)

SkipBlank ==
  /\ mode = "trivia"
  /\ Sees(input, pos, Blank)
  /\ SkipTo(pos + 1)

LineComment(s, p) == \E q \in p..End(s) : LineCommentAt(s, p, q)

TriviaEnds ==
  /\ mode = "trivia"
  /\ ~LineComment(input, pos)
  /\ ~StartsWith(input, pos, <<"/", "*">>)
  /\ ~Sees(input, pos, Blank)
  /\ mode' = "token"
  /\ UNCHANGED <<input, pos, fun, tokens, error>>
-----------------------------------------------------------------------------
(* next_token: keyword, symbol, literal, name, punctuator, type, in this   *)
(* order; then tokenize_all pushes the token and skips trivia again.       *)

Push(kind, q, isFun) ==
  /\ tokens' = Append(tokens, [kind |-> kind, from |-> pos, to |-> q])
  /\ pos' = q
  /\ fun' = isFun
  /\ mode' = "trivia"
  /\ UNCHANGED <<input, error>>

KeywordToken ==
  /\ mode = "token"
  /\ \E q \in pos..End(input) :
       KeywordAt(input, pos, q) /\ Push("keyword", q, FALSE)

\* Mutant of LiteralToken: the fun flag is not reset.
LiteralTokenKeepsFun ==
  /\ mode = "token"
  /\ ~Keyword(input, pos)
  /\ \E q \in pos..End(input) :
       /\ SymbolAt(input, pos, q) \/ LiteralAt(input, pos, q)
       /\ Push("literal", q, fun)

LiteralToken ==
  /\ mode = "token"
  /\ ~Keyword(input, pos)
  /\ \E q \in pos..End(input) :
       /\ SymbolAt(input, pos, q) \/ LiteralAt(input, pos, q)
       /\ Push("literal", q, FALSE)

BadLiteralToken ==
  /\ mode = "token"
  /\ ~Keyword(input, pos)
  /\ \E at \in {pos, pos + 1} :
       /\ FailsAt(input, pos, at)
       /\ Fail(IF OpenString(input, at) THEN "UnterminatedString"
                                        ELSE "NumberOverflow", at)

Wordless(s, p) == ~Keyword(s, p) /\ ~Literal(s, p) /\ ~Fails(s, p)

NameToken ==
  /\ mode = "token"
  /\ Wordless(input, pos)
  /\ \E q \in pos..End(input) : NameAt(input, pos, q) /\ Push("name", q, TRUE)

\* Mutant of PunctuatorToken: the cursor moves by two, the length of "((".
PunctuatorTokenWide ==
  /\ mode = "token"
  /\ Wordless(input, pos)
  /\ Sees(input, pos, Punct)
  /\ Push(IF fun /\ input[pos] = "(" THEN "call" ELSE "punctuator",
          pos + 2, FALSE)

PunctuatorToken ==
  /\ mode = "token"
  /\ Wordless(input, pos)
  /\ Sees(input, pos, Punct)
  /\ Push(IF fun /\ input[pos] = "(" THEN "call" ELSE "punctuator",
          pos + 1, FALSE)

\* Mutant of TypeToken: a type does not mark the call that follows it.
TypeTokenUnmarked ==
  /\ mode = "token"
  /\ \E q \in pos..End(input) : TypeAt(input, pos, q) /\ Push("type", q, FALSE)

TypeToken ==
  /\ mode = "token"
  /\ \E q \in pos..End(input) : TypeAt(input, pos, q) /\ Push("type", q, TRUE)

\* Mutant of Unexpected: the end of the input is not looked for first.
UnexpectedAtEnd ==
  /\ mode = "token"
  /\ Wordless(input, pos)
  /\ ~Sees(input, pos, Lower \cup Upper \cup Punct)
  /\ Fail("UnexpectedCharacter", pos)

Unexpected ==
  /\ mode = "token"
  /\ pos <= Len(input)
  /\ Wordless(input, pos)
  /\ ~Sees(input, pos, Lower \cup Upper \cup Punct)
  /\ Fail("UnexpectedCharacter", pos)

\* next_token returns None only at the end of the input, so the check for
\* TrailingInput that follows the loop never fails.
Finish ==
  /\ mode = "token"
  /\ pos > Len(input)
  /\ mode' = "done"
  /\ UNCHANGED <<input, pos, fun, tokens, error>>

Next ==
  \/ SkipLineComment \/ SkipBlockComment \/ OpenComment
  \/ SkipBlank \/ TriviaEnds
  \/ KeywordToken \/ LiteralToken \/ BadLiteralToken
  \/ NameToken \/ PunctuatorToken \/ TypeToken
  \/ Unexpected \/ Finish

Spec == Init /\ [][Next]_vars

\* tokenize_all is one sequential loop: while it can step, it does.
FairSpec == Spec /\ WF_vars(Next)
-----------------------------------------------------------------------------
(* Properties.                                                             *)

\* The cursor stays in the text, and an error is set exactly when the run
\* has failed.
TypeOK ==
  /\ input \in Seq(Char)
  /\ pos \in 1..End(input)
  /\ fun \in BOOLEAN
  /\ tokens \in Seq(Token)
  /\ mode \in {"trivia", "token", "done", "error"}
  /\ error \in [kind : ErrorKinds, at : Nat] \cup {NoError}
  /\ (mode = "error") <=> (error # NoError)

\* One comment or blank between c and d.
Chunk(s, c, d) ==
  \/ Sees(s, c, Blank) /\ d = c + 1
  \/ LineCommentAt(s, c, d)
  \/ BlockCommentAt(s, c, d)

\* The text from a to b is nothing but comments and blanks: it can be cut so
\* that every cut before b is followed by a chunk.
Trivia(s, a, b) ==
  \E cuts \in SUBSET (a..b) :
    /\ a \in cuts /\ b \in cuts
    /\ \A c \in cuts \ {b} : \E d \in cuts : d > c /\ Chunk(s, c, d)

TokenEnd(i) == IF i = 0 THEN 1 ELSE tokens[i].to

\* Nothing of the text is lost and nothing is read twice: each token is a
\* non-empty piece of text, and between two tokens, before the first and
\* after the last there are only comments and blanks.
Lossless ==
  /\ \A i \in 1..Len(tokens) :
       /\ tokens[i].from < tokens[i].to /\ tokens[i].to <= pos
       /\ TokenEnd(i - 1) <= tokens[i].from
       /\ Trivia(input, TokenEnd(i - 1), tokens[i].from)
  /\ Trivia(input, TokenEnd(Len(tokens)), pos)

\* A "(" is a call's "((" if and only if the token before it is a name or a
\* type, however many comments and blanks were skipped in between.
CallMark ==
  \A i \in 1..Len(tokens) :
    tokens[i].kind = "call" <=>
      /\ input[tokens[i].from] = "("
      /\ tokens[i].kind \in {"call", "punctuator"}
      /\ i > 1 /\ tokens[i - 1].kind \in {"name", "type"}

Text(t) == SubSeq(input, t.from, t.to - 1)

\* The boundary check lets a name be spelled like a keyword in one case only:
\* when a capital follows directly, as in "letX".
ReservedWords ==
  \A i \in 1..Len(tokens) :
    /\ tokens[i].kind = "name"
    /\ \E k \in DOMAIN Keywords : Text(tokens[i]) = Keywords[k]
    => Sees(input, tokens[i].to, Upper)

\* The error a run reports stands at the first text that is no token: only
\* trivia, and perhaps the "%" of a symbol, lie between it and the last token.
ErrorPlace ==
  mode = "error" =>
    /\ error.at \in 1..Len(input)
    /\ \/ Trivia(input, TokenEnd(Len(tokens)), error.at)
       \/ /\ Sees(input, error.at - 1, {"%"})
          /\ Trivia(input, TokenEnd(Len(tokens)), error.at - 1)

\* Every run returns: no text makes the two loops of tokenize_all spin.
Terminates == <>(mode \in {"done", "error"})
=============================================================================
