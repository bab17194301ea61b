---------------------------- MODULE LexerProofs ----------------------------
(***************************************************************************)
(* What holds of the lexer for every alphabet, keyword list and text; and  *)
(* that it implements the Hoon tokenizer on every text that is Agreed.     *)
(***************************************************************************)
EXTENDS LexerRefinesHoon, SequenceTheorems, Iteration

\* The steps that skip trivia, fail, or push a token, by what they change.
LEMMA SkipTyped ==
  ASSUME TypeOK, NEW q \in pos..End(input), SkipTo(q)
  PROVE  TypeOK'
BY DEF TypeOK, SkipTo, End

LEMMA FailTyped ==
  ASSUME TypeOK, NEW kind \in ErrorKinds, NEW at \in Nat, Fail(kind, at)
  PROVE  TypeOK'
<1>1. [kind |-> kind, at |-> at] # NoError
  BY DEF NoError, ErrorKinds
<1> QED
  BY <1>1 DEF TypeOK, Fail, End

LEMMA PushTyped ==
  ASSUME TypeOK, mode = "token", NEW q \in pos..End(input),
         NEW kind \in {"keyword", "literal", "name", "punctuator", "call", "type"},
         NEW isFun \in BOOLEAN, Push(kind, q, isFun)
  PROVE  TypeOK'
<1>1. [kind |-> kind, from |-> pos, to |-> q] \in Token
  BY DEF TypeOK, Token, End
<1>2. tokens' \in Seq(Token)
  BY <1>1 DEF TypeOK, Push
<1> QED
  BY <1>2 DEF TypeOK, Push, End

\* The cursor never leaves the text, whatever the text: no index the lexer
\* takes into its input is out of bounds, and a run fails only with an error.
THEOREM LexerTypes == Spec => []TypeOK
<1>1. ASSUME Init
      PROVE  TypeOK
  <2>1. input \in Seq(Char)
    BY <1>1, InputsAssumption DEF Init
  <2>2. pos \in 1..End(input)
    BY <1>1, <2>1 DEF Init, End
  <2>3. tokens \in Seq(Token)
    BY <1>1 DEF Init
  <2> QED
    BY <1>1, <2>1, <2>2, <2>3 DEF Init, TypeOK
<1>2. TypeOK /\ [Next]_vars => TypeOK'
  <2> SUFFICES ASSUME TypeOK, [Next]_vars
               PROVE  TypeOK'
    OBVIOUS
  <2> USE DEF TypeOK, End
  <2>1. CASE SkipLineComment
    BY <2>1, SkipTyped DEF SkipLineComment
  <2>2. CASE SkipBlockComment
    BY <2>2, SkipTyped DEF SkipBlockComment
  <2>3. CASE OpenComment
    BY <2>3, FailTyped DEF OpenComment, ErrorKinds
  <2>4. CASE SkipBlank
    BY <2>4, SkipTyped DEF SkipBlank, Sees
  <2>5. CASE TriviaEnds
    BY <2>5 DEF TriviaEnds
  <2>6. CASE KeywordToken
    BY <2>6, PushTyped DEF KeywordToken
  <2>7. CASE LiteralToken
    BY <2>7, PushTyped DEF LiteralToken
  <2>8. CASE BadLiteralToken
    BY <2>8, FailTyped DEF BadLiteralToken, ErrorKinds
  <2>9. CASE NameToken
    BY <2>9, PushTyped DEF NameToken
  <2>10. CASE PunctuatorToken
    <3> DEFINE kind == IF fun /\ input[pos] = "(" THEN "call" ELSE "punctuator"
    <3>1. mode = "token" /\ Push(kind, pos + 1, FALSE)
      BY <2>10 DEF PunctuatorToken
    <3>2. pos + 1 \in pos..End(input)
      BY <2>10 DEF PunctuatorToken, Sees
    <3>3. kind \in {"keyword", "literal", "name", "punctuator", "call", "type"}
      OBVIOUS
    <3> HIDE DEF kind
    <3> QED
      BY <3>1, <3>2, <3>3, PushTyped
  <2>11. CASE TypeToken
    BY <2>11, PushTyped DEF TypeToken
  <2>12. CASE Unexpected
    BY <2>12, FailTyped DEF Unexpected, ErrorKinds
  <2>13. CASE Finish
    BY <2>13 DEF Finish
  <2>14. CASE UNCHANGED vars
    BY <2>14 DEF vars
  <2> QED
    BY <2>1, <2>2, <2>3, <2>4, <2>5, <2>6, <2>7, <2>8, <2>9, <2>10, <2>11,
       <2>12, <2>13, <2>14 DEF Next
<1> QED
  BY <1>1, <1>2, PTL DEF Spec
-----------------------------------------------------------------------------
(* Calls.                                                                  *)

\* fun says what the last token is.
FunFlag ==
  fun <=> /\ Len(tokens) > 0
          /\ tokens[Len(tokens)].kind \in {"name", "type"}

\* A token that is pushed keeps CallMark when it is marked as fun says.
LEMMA PushMarks ==
  ASSUME TypeOK, CallMark, FunFlag, NEW kind, NEW q, NEW isFun \in BOOLEAN,
         Push(kind, q, isFun),
         kind = "call" <=> /\ input[pos] = "("
                           /\ kind \in {"call", "punctuator"}
                           /\ fun,
         isFun <=> kind \in {"name", "type"}
  PROVE  CallMark' /\ FunFlag'
<1> DEFINE n == Len(tokens)
           t == [kind |-> kind, from |-> pos, to |-> q]
<1>1. /\ n \in Nat /\ Len(tokens') = n + 1
      /\ tokens'[n + 1] = t
      /\ \A i \in 1..n : tokens'[i] = tokens[i]
  BY DEF Push, TypeOK
<1>2. input' = input /\ fun' = isFun
  BY DEF Push
<1>3. FunFlag'
  BY <1>1, <1>2 DEF FunFlag
<1>4. ASSUME NEW i \in 1..Len(tokens')
      PROVE  tokens'[i].kind = "call" <=>
               /\ input'[tokens'[i].from] = "("
               /\ tokens'[i].kind \in {"call", "punctuator"}
               /\ i > 1 /\ tokens'[i - 1].kind \in {"name", "type"}
  <2>1. CASE i \in 1..n
    <3>1. i > 1 => tokens'[i - 1] = tokens[i - 1]
      BY <1>1, <2>1
    <3> QED
      BY <1>1, <1>2, <2>1, <3>1 DEF CallMark
  <2>2. CASE i = n + 1
    <3>1. i > 1 => tokens'[i - 1] = tokens[n]
      BY <1>1, <2>2
    <3>2. fun <=> i > 1 /\ tokens'[i - 1].kind \in {"name", "type"}
      BY <1>1, <2>2, <3>1 DEF FunFlag
    <3> QED
      BY <1>1, <1>2, <2>2, <3>2
  <2> QED
    BY <1>1, <2>1, <2>2
<1> QED
  BY <1>3, <1>4 DEF CallMark

\* In every text, "((" is produced for a "(" exactly when a name or a type
\* came before it, whatever comments and blanks stand between the two.
THEOREM LexerCallMark == Spec => []CallMark
<1>1. Init => CallMark /\ FunFlag
  BY DEF Init, CallMark, FunFlag
<1>2. TypeOK /\ CallMark /\ FunFlag /\ [Next]_vars => (CallMark /\ FunFlag)'
  <2> SUFFICES ASSUME TypeOK, CallMark, FunFlag, [Next]_vars
               PROVE  (CallMark /\ FunFlag)'
    OBVIOUS
  <2>1. CASE UNCHANGED <<input, fun, tokens>>
    BY <2>1 DEF CallMark, FunFlag
  <2>2. CASE KeywordToken
    BY <2>2, PushMarks DEF KeywordToken
  <2>3. CASE LiteralToken
    BY <2>3, PushMarks DEF LiteralToken
  <2>4. CASE NameToken
    BY <2>4, PushMarks DEF NameToken
  <2>5. CASE PunctuatorToken
    <3> DEFINE kind == IF fun /\ input[pos] = "(" THEN "call" ELSE "punctuator"
    <3>1. Push(kind, pos + 1, FALSE)
      BY <2>5 DEF PunctuatorToken
    <3>2. /\ kind \notin {"name", "type"}
          /\ kind = "call" <=> /\ input[pos] = "("
                               /\ kind \in {"call", "punctuator"}
                               /\ fun
      OBVIOUS
    <3> HIDE DEF kind
    <3> QED
      BY <3>1, <3>2, PushMarks
  <2>6. CASE TypeToken
    BY <2>6, PushMarks DEF TypeToken
  <2> QED
    BY <2>1, <2>2, <2>3, <2>4, <2>5, <2>6
    DEF Next, vars, SkipLineComment, SkipBlockComment, OpenComment, SkipBlank,
        TriviaEnds, BadLiteralToken, Unexpected, Finish, SkipTo, Fail
<1> QED
  BY <1>1, <1>2, LexerTypes, PTL DEF Spec
-----------------------------------------------------------------------------
(* Nothing is lost.                                                        *)

LEMMA NoTrivia ==
  ASSUME NEW s, NEW a \in Int
  PROVE  Trivia(s, a, a)
<1>1. {a} \in SUBSET (a..a)
  OBVIOUS
<1> QED
  BY <1>1 DEF Trivia

LEMMA TriviaGrows ==
  ASSUME NEW s, NEW a \in Int, NEW b \in Int, NEW d \in Int, a <= b, b < d,
         Trivia(s, a, b), Chunk(s, b, d)
  PROVE  Trivia(s, a, d)
<1>1. PICK cuts \in SUBSET (a..b) :
        /\ a \in cuts /\ b \in cuts
        /\ \A c \in cuts \ {b} : \E e \in cuts : e > c /\ Chunk(s, c, e)
  BY DEF Trivia
<1> DEFINE longer == cuts \cup {d}
<1>2. longer \in SUBSET (a..d) /\ a \in longer /\ d \in longer
  BY <1>1
<1>3. ASSUME NEW c \in longer \ {d}
      PROVE  \E e \in longer : e > c /\ Chunk(s, c, e)
  <2>1. CASE c = b
    BY <2>1
  <2>2. CASE c # b
    BY <1>1, <2>2
  <2> QED
    BY <2>1, <2>2
<1> QED
  BY <1>2, <1>3 DEF Trivia

LEMMA WordsOfLetters ==
  ASSUME NEW words \in Seq(Seq(Lower)), NEW i \in DOMAIN words
  PROVE  words[i] \in Seq(Lower)
OBVIOUS

\* A lexeme is never empty.
LEMMA KeywordLong ==
  ASSUME NEW s, NEW p \in Int, NEW q \in Int, KeywordAt(s, p, q)
  PROVE  q > p
<1>1. PICK i \in DOMAIN Keywords : q = p + Len(Keywords[i])
  BY DEF KeywordAt
<1>2. Keywords \in Seq(Seq(Lower)) /\ Len(Keywords[i]) > 0
  BY LexemesAssumption
<1>3. Keywords[i] \in Seq(Lower)
  BY <1>2, WordsOfLetters
<1> QED
  BY <1>1, <1>2, <1>3

LEMMA LiteralLong ==
  ASSUME NEW s, NEW p \in Int, NEW q \in Int, LiteralAt(s, p, q)
  PROVE  q > p
<1>1. CASE BooleanAt(s, p, q)
  <2>1. PICK i \in DOMAIN Booleans : q = p + Len(Booleans[i])
    BY <1>1 DEF BooleanAt
  <2>2. Booleans \in Seq(Seq(Lower)) /\ Len(Booleans[i]) > 0
    BY LexemesAssumption
  <2>3. Booleans[i] \in Seq(Lower)
    BY <2>2, WordsOfLetters
  <2> QED
    BY <2>1, <2>2, <2>3
<1>2. CASE HexAt(s, p, q) \/ NumberAt(s, p, q) \/ StringAt(s, p, q)
  BY <1>2 DEF HexAt, HexDigitsAt, NumberAt, DigitsAt, StringAt
<1> QED
  BY <1>1, <1>2 DEF LiteralAt

LEMMA EndBounds ==
  ASSUME TypeOK, Lossless
  PROVE  TokenEnd(Len(tokens)) \in Int /\ TokenEnd(Len(tokens)) <= pos
<1>1. Len(tokens) \in Nat /\ pos \in Int /\ 1 <= pos
  BY DEF TypeOK, End
<1>2. CASE Len(tokens) = 0
  BY <1>1, <1>2 DEF TokenEnd
<1>3. CASE Len(tokens) > 0
  <2>1. Len(tokens) \in 1..Len(tokens)
    BY <1>1, <1>3
  <2>2. tokens[Len(tokens)] \in Token
    BY <2>1 DEF TypeOK
  <2> QED
    BY <1>3, <2>1, <2>2 DEF TokenEnd, Token, Lossless
<1> QED
  BY <1>1, <1>2, <1>3

\* Trivia that is skipped joins the trivia before it.
LEMMA SkipLossless ==
  ASSUME TypeOK, Lossless, NEW q \in pos..End(input), pos < q,
         Chunk(input, pos, q), SkipTo(q)
  PROVE  Lossless'
<1> DEFINE n == Len(tokens)
<1>1. n \in Nat /\ pos \in Int /\ q \in Int
  BY DEF TypeOK, End
<1>2. input' = input /\ tokens' = tokens /\ pos' = q
  BY DEF SkipTo
<1>3. TokenEnd(n) \in Int /\ TokenEnd(n) <= pos
  BY EndBounds
<1>4. Trivia(input, TokenEnd(n), q)
  BY <1>1, <1>3, TriviaGrows DEF Lossless
<1>5. ASSUME NEW i \in 1..n
      PROVE  /\ tokens[i].from < tokens[i].to /\ tokens[i].to <= q
             /\ TokenEnd(i - 1) <= tokens[i].from
             /\ Trivia(input, TokenEnd(i - 1), tokens[i].from)
  <2>1. tokens[i] \in Token
    BY DEF TypeOK
  <2>2. tokens[i].to \in Int /\ tokens[i].to <= pos
    BY <2>1 DEF Lossless, Token
  <2> QED
    BY <1>1, <2>2 DEF Lossless
<1> QED
  BY <1>2, <1>4, <1>5 DEF Lossless, TokenEnd

\* A pushed token turns the trivia before the cursor into its own gap.
LEMMA PushLossless ==
  ASSUME TypeOK, Lossless, NEW kind, NEW q \in pos..End(input), pos < q,
         NEW isFun, Push(kind, q, isFun)
  PROVE  Lossless'
<1> DEFINE n == Len(tokens)
           t == [kind |-> kind, from |-> pos, to |-> q]
<1>1. n \in Nat /\ pos \in Int /\ q \in Int
  BY DEF TypeOK, End
<1>2. /\ input' = input /\ pos' = q
      /\ Len(tokens') = n + 1
      /\ tokens'[n + 1] = t
      /\ \A i \in 1..n : tokens'[i] = tokens[i]
  BY DEF Push, TypeOK
<1>3. TokenEnd(n) \in Int /\ TokenEnd(n) <= pos
  BY EndBounds
<1>4. \A i \in 0..n : TokenEnd(i)' = TokenEnd(i)
  BY <1>2 DEF TokenEnd
<1>5. \A m : m = n + 1 => TokenEnd(m)' = q
  BY <1>1, <1>2 DEF TokenEnd
<1>6. Trivia(input, q, q)
  BY <1>1, NoTrivia
<1>7. ASSUME NEW i \in 1..(n + 1)
      PROVE  /\ tokens'[i].from < tokens'[i].to /\ tokens'[i].to <= q
             /\ TokenEnd(i - 1)' <= tokens'[i].from
             /\ Trivia(input, TokenEnd(i - 1)', tokens'[i].from)
  <2>1. CASE i = n + 1
    <3>1. TokenEnd(i - 1)' = TokenEnd(n) /\ tokens'[i] = t
      BY <1>1, <1>2, <1>4, <2>1
    <3>2. Trivia(input, TokenEnd(n), pos)
      BY DEF Lossless
    <3> QED
      BY <1>1, <1>3, <3>1, <3>2
  <2>2. CASE i \in 1..n
    <3>1. tokens'[i] = tokens[i] /\ TokenEnd(i - 1)' = TokenEnd(i - 1)
      BY <1>1, <1>2, <1>4, <2>2
    <3>2. tokens[i] \in Token
      BY <2>2 DEF TypeOK
    <3>3. tokens[i].to \in Int /\ tokens[i].to <= pos
      BY <2>2, <3>2 DEF Lossless, Token
    <3> QED
      BY <1>1, <2>2, <3>1, <3>3 DEF Lossless
  <2> QED
    BY <1>1, <2>1, <2>2
<1> HIDE DEF n, t
<1>8. Trivia(input', TokenEnd(Len(tokens))', pos')
  BY <1>2, <1>5, <1>6
<1> QED
  BY <1>2, <1>7, <1>8 DEF Lossless

\* In every text, tokens and trivia tile the part that has been read.
THEOREM LexerLossless == Spec => []Lossless
<1>1. Init => Lossless
  <2> SUFFICES ASSUME Init PROVE Lossless
    OBVIOUS
  <2>1. Trivia(input, 1, 1)
    BY NoTrivia
  <2> QED
    BY <2>1 DEF Init, Lossless, TokenEnd
<1>2. TypeOK /\ Lossless /\ [Next]_vars => Lossless'
  <2> SUFFICES ASSUME TypeOK, Lossless, [Next]_vars
               PROVE  Lossless'
    OBVIOUS
  <2>0. pos \in Int
    BY DEF TypeOK, End
  <2>1. CASE UNCHANGED <<input, pos, tokens>>
    BY <2>1 DEF Lossless, TokenEnd
  <2>2. CASE SkipLineComment
    <3>1. PICK q \in pos..End(input) : LineCommentAt(input, pos, q) /\ SkipTo(q)
      BY <2>2 DEF SkipLineComment
    <3>2. pos < q /\ Chunk(input, pos, q)
      BY <2>0, <3>1 DEF LineCommentAt, Chunk
    <3> QED
      BY <3>1, <3>2, SkipLossless
  <2>3. CASE SkipBlockComment
    <3>1. PICK q \in pos..End(input) : BlockCommentAt(input, pos, q) /\ SkipTo(q)
      BY <2>3 DEF SkipBlockComment
    <3>2. pos < q /\ Chunk(input, pos, q)
      BY <2>0, <3>1 DEF BlockCommentAt, Chunk
    <3> QED
      BY <3>1, <3>2, SkipLossless
  <2>4. CASE SkipBlank
    <3>1. Chunk(input, pos, pos + 1) /\ SkipTo(pos + 1)
      BY <2>4 DEF SkipBlank, Chunk
    <3>2. pos + 1 \in pos..End(input) /\ pos < pos + 1
      BY <2>0, <2>4 DEF SkipBlank, Sees, TypeOK, End
    <3> QED
      BY <3>1, <3>2, SkipLossless
  <2>5. CASE KeywordToken
    <3>1. PICK q \in pos..End(input) :
            KeywordAt(input, pos, q) /\ Push("keyword", q, FALSE)
      BY <2>5 DEF KeywordToken
    <3>2. q \in Int
      BY <2>0 DEF TypeOK, End
    <3>3. pos < q
      BY <2>0, <3>1, <3>2, KeywordLong
    <3> QED
      BY <3>1, <3>3, PushLossless
  <2>6. CASE LiteralToken
    <3>1. PICK q \in pos..End(input) :
            /\ SymbolAt(input, pos, q) \/ LiteralAt(input, pos, q)
            /\ Push("literal", q, FALSE)
      BY <2>6 DEF LiteralToken
    <3>2. q \in Int
      BY <2>0 DEF TypeOK, End
    <3>3. pos < q
      <4>1. CASE SymbolAt(input, pos, q)
        <5>1. LiteralAt(input, pos + 1, q)
          BY <4>1 DEF SymbolAt
        <5>2. q > pos + 1
          BY <2>0, <3>2, <5>1, LiteralLong
        <5> QED
          BY <2>0, <3>2, <5>2
      <4>2. CASE LiteralAt(input, pos, q)
        BY <2>0, <3>2, <4>2, LiteralLong
      <4> QED
        BY <3>1, <4>1, <4>2
    <3> QED
      BY <3>1, <3>3, PushLossless
  <2>7. CASE NameToken
    BY <2>0, <2>7, PushLossless DEF NameToken, NameAt
  <2>8. CASE PunctuatorToken
    <3>1. pos + 1 \in pos..End(input) /\ pos < pos + 1
      BY <2>0, <2>8 DEF PunctuatorToken, Sees, TypeOK, End
    <3> QED
      BY <2>8, <3>1, PushLossless DEF PunctuatorToken
  <2>9. CASE TypeToken
    <3>1. PICK q \in pos..End(input) : TypeAt(input, pos, q) /\ Push("type", q, TRUE)
      BY <2>9 DEF TypeToken
    <3>2. pos < q
      BY <2>0, <3>1 DEF TypeAt, RunOf, End, TypeOK
    <3> QED
      BY <3>1, <3>2, PushLossless
  <2> QED
    BY <2>1, <2>2, <2>3, <2>4, <2>5, <2>6, <2>7, <2>8, <2>9
    DEF Next, vars, OpenComment, TriviaEnds, BadLiteralToken, Unexpected,
        Finish, Fail
<1> QED
  BY <1>1, <1>2, LexerTypes, PTL DEF Spec
-----------------------------------------------------------------------------
(* Errors.                                                                 *)

\* Whatever the text, the position of a reported error is the first place
\* that is neither a token nor trivia.
THEOREM LexerErrorPlace == Spec => []ErrorPlace
<1>1. Init => ErrorPlace
  BY DEF Init, ErrorPlace
<1>2. TypeOK /\ Lossless /\ ErrorPlace /\ [Next]_vars => ErrorPlace'
  <2> SUFFICES ASSUME TypeOK, Lossless, ErrorPlace, [Next]_vars
               PROVE  ErrorPlace'
    OBVIOUS
  <2>0. pos \in Int /\ Len(input) \in Nat /\ 1 <= pos
    BY DEF TypeOK, End
  <2>1. ASSUME NEW kind, NEW at \in 1..Len(input), Fail(kind, at),
               \/ at = pos
               \/ at = pos + 1 /\ Sees(input, pos, {"%"})
        PROVE  ErrorPlace'
    <3>1. input' = input /\ tokens' = tokens /\ error'.at = at
      BY <2>1 DEF Fail
    <3>2. TokenEnd(Len(tokens))' = TokenEnd(Len(tokens))
      BY <3>1 DEF TokenEnd
    <3>3. Trivia(input, TokenEnd(Len(tokens)), pos)
      BY DEF Lossless
    <3>4. CASE at = pos
      BY <2>1, <3>1, <3>2, <3>3, <3>4 DEF ErrorPlace
    <3>5. CASE at = pos + 1 /\ Sees(input, pos, {"%"})
      <4>1. at - 1 = pos
        BY <2>0, <3>5
      <4> QED
        BY <2>1, <3>1, <3>2, <3>3, <3>5, <4>1 DEF ErrorPlace
    <3> QED
      BY <2>1, <3>4, <3>5
  <2>2. CASE OpenComment
    <3>1. pos \in 1..Len(input)
      BY <2>0, <2>2 DEF OpenComment, OpenBlockComment, StartsWith, End
    <3> QED
      BY <2>1, <2>2, <3>1 DEF OpenComment
  <2>3. CASE BadLiteralToken
    <3> DEFINE kind(at) == IF OpenString(input, at) THEN "UnterminatedString"
                                                    ELSE "NumberOverflow"
    <3>1. PICK at \in {pos, pos + 1} :
            FailsAt(input, pos, at) /\ Fail(kind(at), at)
      BY <2>3 DEF BadLiteralToken
    <3>2. BadLiteral(input, at)
      BY <3>1 DEF FailsAt
    <3>3. at \in 1..Len(input)
      <4>1. at \in Int /\ 1 <= at
        BY <2>0
      <4>2. CASE OpenString(input, at)
        BY <4>2 DEF OpenString, Sees
      <4>3. CASE Overflows(input, at)
        <5>1. PICK q \in at..End(input) :
                HexDigitsAt(input, at, q) \/ DigitsAt(input, at, q)
          BY <4>3 DEF Overflows
        <5>2. at < q
          BY <4>1, <5>1 DEF HexDigitsAt, DigitsAt
        <5> QED
          BY <2>0, <4>1, <5>2 DEF End
      <4> QED
        BY <3>2, <4>2, <4>3 DEF BadLiteral
    <3>4. at = pos \/ (at = pos + 1 /\ Sees(input, pos, {"%"}))
      BY <2>0, <3>1 DEF FailsAt
    <3> HIDE DEF kind
    <3> QED
      BY <2>1, <3>1, <3>3, <3>4
  <2>4. CASE Unexpected
    <3>1. pos \in 1..Len(input)
      BY <2>0, <2>4 DEF Unexpected
    <3> QED
      BY <2>1, <2>4, <3>1 DEF Unexpected
  <2>5. CASE mode' # "error"
    BY <2>5 DEF ErrorPlace
  <2>6. CASE UNCHANGED vars
    BY <2>6 DEF vars, ErrorPlace, TokenEnd
  <2> QED
    BY <2>2, <2>3, <2>4, <2>5, <2>6
    DEF Next, SkipLineComment, SkipBlockComment, SkipBlank, SkipTo, TriviaEnds,
        KeywordToken, LiteralToken, NameToken, PunctuatorToken, TypeToken, Push,
        Finish
<1> QED
  BY <1>1, <1>2, LexerTypes, LexerLossless, PTL DEF Spec
-----------------------------------------------------------------------------
(* Reserved words.                                                         *)

\* A name that is spelled like a keyword, where no keyword was found, is
\* followed by a capital.
LEMMA SpelledLikeKeyword ==
  ASSUME NEW s \in Seq(Char), NEW p \in 1..End(s), NEW q \in p..End(s),
         NameAt(s, p, q), ~Keyword(s, p),
         NEW k \in DOMAIN Keywords, SubSeq(s, p, q - 1) = Keywords[k]
  PROVE  Sees(s, q, Upper)
<1> DEFINE w == Keywords[k]
<1>1. p \in Nat /\ q \in Nat /\ p >= 1 /\ q > p /\ q <= Len(s) + 1 /\ Len(s) \in Nat
  BY DEF NameAt, End
<1>2. Len(w) = q - p /\ \A i \in 1..(q - p) : w[i] = s[p + i - 1]
  <2>1. q - 1 \in Int /\ p \in Int /\ \A i \in p..(q - 1) : s[i] \in Char
    BY <1>1
  <2>2. /\ Len(w) = IF p <= q - 1 THEN (q - 1) - p + 1 ELSE 0
        /\ \A i \in 1..((q - 1) - p + 1) : w[i] = s[p + i - 1]
    BY <2>1, SubSeqProperties
  <2>3. p <= q - 1 /\ (q - 1) - p + 1 = q - p
    BY <1>1
  <2> HIDE DEF w
  <2> QED
    BY <2>2, <2>3
<1>3. StartsWith(s, p, w) /\ q = p + Len(w)
  BY <1>1, <1>2 DEF StartsWith, End
<1>4. Sees(s, q, WordChar)
  BY <1>3 DEF Keyword, KeywordAt
<1>5. ~Sees(s, q, NameChar)
  BY DEF NameAt, RunOf
<1> QED
  BY <1>4, <1>5 DEF Sees, WordChar, NameChar

\* Whatever the keywords are, a name never hides one of them but before a
\* capital: the boundary check of try_keyword lets nothing else through.
THEOREM LexerReservedWords == Spec => []ReservedWords
<1>1. Init => ReservedWords
  BY DEF Init, ReservedWords
<1>2. TypeOK /\ ReservedWords /\ [Next]_vars => ReservedWords'
  <2> SUFFICES ASSUME TypeOK, ReservedWords, [Next]_vars
               PROVE  ReservedWords'
    OBVIOUS
  <2>1. CASE UNCHANGED <<input, tokens>>
    BY <2>1 DEF ReservedWords, Text
  <2>2. ASSUME NEW kind, NEW q \in pos..End(input), NEW isFun,
               Push(kind, q, isFun),
               kind = "name" => NameAt(input, pos, q) /\ ~Keyword(input, pos)
        PROVE  ReservedWords'
    <3> DEFINE n == Len(tokens)
               t == [kind |-> kind, from |-> pos, to |-> q]
    <3>1. /\ n \in Nat /\ Len(tokens') = n + 1 /\ input' = input
          /\ tokens'[n + 1] = t
          /\ \A i \in 1..n : tokens'[i] = tokens[i]
      BY <2>2 DEF Push, TypeOK
    <3>2. ASSUME NEW i \in 1..(n + 1), tokens'[i].kind = "name",
                 NEW k \in DOMAIN Keywords,
                 SubSeq(input, tokens'[i].from, tokens'[i].to - 1) = Keywords[k]
          PROVE  Sees(input, tokens'[i].to, Upper)
      <4>1. CASE i \in 1..n
        BY <3>1, <3>2, <4>1 DEF ReservedWords, Text
      <4>2. CASE i = n + 1
        <5>1. tokens'[i] = t
          BY <3>1, <4>2
        <5>2. NameAt(input, pos, q) /\ ~Keyword(input, pos)
          BY <2>2, <3>2, <5>1
        <5>3. SubSeq(input, pos, q - 1) = Keywords[k]
          BY <3>2, <5>1
        <5>4. input \in Seq(Char) /\ pos \in 1..End(input)
          BY DEF TypeOK
        <5>5. q \in pos..End(input) /\ k \in DOMAIN Keywords
          BY <2>2, <3>2
        <5>6. Sees(input, q, Upper)
          BY <5>2, <5>3, <5>4, <5>5, SpelledLikeKeyword
        <5> QED
          BY <5>1, <5>6
      <4> QED
        BY <3>1, <4>1, <4>2
    <3> HIDE DEF t
    <3> QED
      BY <3>1, <3>2 DEF ReservedWords, Text
  <2>3. CASE KeywordToken
    BY <2>2, <2>3 DEF KeywordToken
  <2>4. CASE LiteralToken
    BY <2>2, <2>4 DEF LiteralToken
  <2>5. CASE NameToken
    BY <2>2, <2>5 DEF NameToken, Wordless
  <2>6. CASE PunctuatorToken
    <3>1. pos + 1 \in pos..End(input)
      BY <2>6 DEF PunctuatorToken, Sees, TypeOK, End
    <3> DEFINE kind == IF fun /\ input[pos] = "(" THEN "call" ELSE "punctuator"
    <3>2. Push(kind, pos + 1, FALSE) /\ kind # "name"
      BY <2>6 DEF PunctuatorToken
    <3> HIDE DEF kind
    <3> QED
      BY <2>2, <3>1, <3>2
  <2>7. CASE TypeToken
    BY <2>2, <2>7 DEF TypeToken
  <2> QED
    BY <2>1, <2>3, <2>4, <2>5, <2>6, <2>7
    DEF Next, vars, SkipLineComment, SkipBlockComment, OpenComment, SkipBlank,
        SkipTo, TriviaEnds, BadLiteralToken, Unexpected, Fail, Finish
<1> QED
  BY <1>1, <1>2, LexerTypes, PTL DEF Spec
-----------------------------------------------------------------------------
(* The relations the two share.                                            *)

LEMMA SameText ==
  ASSUME NEW s, NEW p, NEW q, NEW w, NEW C
  PROVE  /\ Hoon!End(s) = End(s)
         /\ Hoon!Sees(s, p, C) <=> Sees(s, p, C)
         /\ Hoon!StartsWith(s, p, w) <=> StartsWith(s, p, w)
         /\ Hoon!RunOf(s, p, q, C) <=> RunOf(s, p, q, C)
BY DEF Hoon!End, End, Hoon!Sees, Sees, Hoon!StartsWith, StartsWith,
       Hoon!RunOf, RunOf

LEMMA SameTrivia ==
  ASSUME NEW s, NEW p, NEW q
  PROVE  /\ Hoon!LineCommentAt(s, p, q) <=> LineCommentAt(s, p, q)
         /\ Hoon!BlockCommentAt(s, p, q) <=> BlockCommentAt(s, p, q)
BY SameText
   DEF Hoon!LineCommentAt, LineCommentAt, Hoon!BlockCommentAt, BlockCommentAt,
       Hoon!LineChar, LineChar, Hoon!BlockChar, BlockChar

LEMMA SameWords ==
  ASSUME NEW s, NEW p, NEW q
  PROVE  /\ Hoon!NameAt(s, p, q) <=> NameAt(s, p, q)
         /\ Hoon!TypeAt(s, p, q) <=> TypeAt(s, p, q)
         /\ Hoon!BooleanAt(s, p, q) <=> BooleanAt(s, p, q)
         /\ Hoon!StringAt(s, p, q) <=> StringAt(s, p, q)
         /\ Hoon!HexDigitsAt(s, p, q) <=> HexDigitsAt(s, p, q)
BY SameText
   DEF Hoon!NameAt, NameAt, Hoon!TypeAt, TypeAt, Hoon!NameChar, NameChar,
       Hoon!BooleanAt, BooleanAt, Hoon!StringAt, StringAt,
       Hoon!HexDigitsAt, HexDigitsAt

\* On an agreed text, dem:ag and try_number read the same numbers.
LEMMA SameDigits ==
  ASSUME NEW s \in Seq(Char), Agreed(s), NEW p \in 1..End(s), NEW q
  PROVE  /\ DigitsAt(s, p, q) <=>
              Hoon!DemAt(s, p, q) /\ ~\E r \in p..End(s) : HexDigitsAt(s, p, r)
<1>0. p \in Nat /\ Len(s) \in Nat /\ p >= 1 /\ "0" \in Digit
  BY GahAssumption DEF End
<1>1. /\ Sees(s, p, {"0"}) => ~Sees(s, p + 1, Digit)
      /\ \E k \in 0..3 : ~Sees(s, p + k, Digit)
  BY DEF Agreed
<1>2. \A r \in 1..End(s) : ~Hoon!GroupAt(s, r)
  BY DEF Agreed
<1>3. ASSUME q \in p..End(s), q > p, RunOf(s, p, q, Digit)
      PROVE  Hoon!DemAt(s, p, q)
  <2>1. \A k \in p..(q - 1) : Sees(s, k, Digit)
    BY <1>0, <1>3 DEF RunOf, Sees, End
  <2>2. q \in Int /\ ~Sees(s, q, Digit) /\ Sees(s, p, Digit)
    BY <1>0, <1>3, <2>1 DEF RunOf, End
  <2>3. CASE Sees(s, p, {"0"})
    <3>1. ~(q > p + 1)
      BY <1>0, <1>1, <2>1, <2>2, <2>3
    <3>2. q = p + 1
      BY <1>0, <1>3, <2>2, <3>1
    <3> QED
      BY <2>3, <3>2, SameText DEF Hoon!DemAt
  <2>4. CASE ~Sees(s, p, {"0"})
    <3>1. q <= p + 3
      <4>1. PICK k \in 0..3 : ~Sees(s, p + k, Digit)
        BY <1>1
      <4> QED
        BY <1>0, <2>1, <2>2, <4>1
    <3>2. Sees(s, p, Digit \ {"0"})
      BY <2>2, <2>4 DEF Sees
    <3>3. q \in (p + 1)..(p + 3) /\ 0 \in 0..Len(s) /\ q = q + 4 * 0
      BY <1>0, <1>3, <2>2, <3>1
    <3>4. ~Hoon!GroupAt(s, q) /\ 0..(0 - 1) = {}
      BY <1>0, <1>2, <1>3 DEF End
    <3> QED
      BY <2>1, <2>2, <3>2, <3>3, <3>4, SameText DEF Hoon!DemAt
  <2> QED
    BY <2>3, <2>4
<1>4. ASSUME Hoon!DemAt(s, p, q)
      PROVE  q \in p..End(s) /\ q > p /\ RunOf(s, p, q, Digit)
  <2>1. CASE Sees(s, p, {"0"}) /\ q = p + 1
    BY <1>0, <1>1, <2>1 DEF Sees, RunOf, End
  <2>2. CASE ~(Sees(s, p, {"0"}) /\ q = p + 1)
    <3>1. PICK h \in (p + 1)..(p + 3), n \in 0..Len(s) :
            /\ \A k \in p..(h - 1) : Sees(s, k, Digit)
            /\ h = p + 3 \/ ~Sees(s, h, Digit)
            /\ q = h + 4 * n
            /\ \A j \in 0..(n - 1) : Hoon!GroupAt(s, h + 4 * j)
      BY <1>4, <2>2, SameText DEF Hoon!DemAt
    <3>2. h \in Int /\ n \in Int /\ n >= 0 /\ h >= p + 1 /\ h <= p + 3
      BY <1>0
    <3>3. Sees(s, h - 1, Digit)
      BY <1>0, <3>1, <3>2
    <3>4. h \in 1..End(s)
      BY <1>0, <3>2, <3>3 DEF Sees, End
    <3>5. n = 0
      <4>1. ~Hoon!GroupAt(s, h + 4 * 0)
        BY <1>2, <3>2, <3>4
      <4>2. ~(0 \in 0..(n - 1))
        BY <3>1, <4>1
      <4> QED
        BY <3>2, <4>2
    <3>6. q = h
      BY <3>1, <3>2, <3>5
    <3>7. ~Sees(s, h, Digit)
      <4>1. CASE h = p + 3
        <5>1. PICK k \in 0..3 : ~Sees(s, p + k, Digit)
          BY <1>1
        <5>2. ~(k < 3)
          BY <1>0, <3>1, <4>1, <5>1
        <5>3. k = 3
          BY <5>1, <5>2
        <5> QED
          BY <4>1, <5>1, <5>3
      <4> QED
        BY <3>1, <4>1
    <3> QED
      BY <1>0, <3>1, <3>2, <3>4, <3>6, <3>7 DEF RunOf, Sees, End
  <2> QED
    BY <2>1, <2>2
<1> QED
  BY <1>3, <1>4 DEF DigitsAt, RunOf
-----------------------------------------------------------------------------
(* Keywords.                                                               *)

LEMMA KeywordLetters ==
  ASSUME NEW i \in DOMAIN Keywords
  PROVE  /\ i \in Nat /\ i > 0 /\ Len(Keywords[i]) \in Nat /\ Len(Keywords[i]) > 0
         /\ \A k \in 1..Len(Keywords[i]) : Keywords[i][k] \in Lower
<1>1. Keywords \in Seq(Seq(Lower)) /\ Len(Keywords[i]) > 0
  BY LexemesAssumption
<1>2. i \in Nat /\ i > 0 /\ Keywords[i] \in Seq(Lower)
  BY <1>1
<1> QED
  BY <1>1, <1>2

\* Two keywords that both end at a word boundary have the same length.
LEMMA KeywordUnique ==
  ASSUME NEW s \in Seq(Char), NEW p \in 1..End(s),
         NEW i \in DOMAIN Keywords, NEW j \in DOMAIN Keywords,
         StartsWith(s, p, Keywords[i]), StartsWith(s, p, Keywords[j]),
         ~Sees(s, p + Len(Keywords[i]), WordChar)
  PROVE  Len(Keywords[j]) <= Len(Keywords[i])
<1> DEFINE m == Len(Keywords[i])
           n == Len(Keywords[j])
<1>1. m \in Nat /\ n \in Nat /\ p \in Nat /\ Len(s) \in Nat
  BY KeywordLetters DEF End
<1> SUFFICES ASSUME m < n
             PROVE  FALSE
  BY <1>1
<1>2. m + 1 \in 1..n
  BY <1>1
<1>3. s[p + m] = Keywords[j][m + 1]
  <2>1. s[p + (m + 1) - 1] = Keywords[j][m + 1]
    BY <1>2 DEF StartsWith
  <2> QED
    BY <1>1, <2>1
<1>4. Keywords[j][m + 1] \in Lower
  BY <1>2, KeywordLetters
<1>5. p + m \in 1..Len(s)
  BY <1>1 DEF StartsWith, End
<1> QED
  BY <1>3, <1>4, <1>5 DEF Sees, WordChar

\* On an agreed text, perk and try_keyword find the same word.
LEMMA SameKeyword ==
  ASSUME NEW s \in Seq(Char), Agreed(s), NEW p \in 1..End(s), NEW q
  PROVE  Hoon!PerkAt(s, p, q) <=> KeywordAt(s, p, q)
<1>1. ASSUME Hoon!PerkAt(s, p, q)
      PROVE  KeywordAt(s, p, q)
  <2>1. PICK i \in DOMAIN Keywords :
          StartsWith(s, p, Keywords[i]) /\ q = p + Len(Keywords[i])
    BY <1>1, SameText DEF Hoon!PerkAt
  <2>2. ~Sees(s, p + Len(Keywords[i]), WordChar)
    BY <2>1 DEF Agreed
  <2> QED
    BY <2>1, <2>2 DEF KeywordAt
<1>2. ASSUME KeywordAt(s, p, q)
      PROVE  Hoon!PerkAt(s, p, q)
  <2>1. PICK i \in DOMAIN Keywords :
          /\ StartsWith(s, p, Keywords[i])
          /\ q = p + Len(Keywords[i])
          /\ ~Sees(s, p + Len(Keywords[i]), WordChar)
    BY <1>2 DEF KeywordAt
  <2> DEFINE T == {k \in DOMAIN Keywords : StartsWith(s, p, Keywords[k])}
  <2>2. T \in SUBSET Nat /\ T # {}
    BY <2>1, KeywordLetters
  <2>3. PICK j \in T : \A k \in T : j <= k
    <3> HIDE DEF T
    <3> QED
      BY <2>2, LeastNat
  <2>4. j \in DOMAIN Keywords /\ StartsWith(s, p, Keywords[j])
    OBVIOUS
  <2>5. ~Sees(s, p + Len(Keywords[j]), WordChar)
    BY <2>4 DEF Agreed
  <2>6. Len(Keywords[j]) = Len(Keywords[i])
    <3>1. Len(Keywords[j]) <= Len(Keywords[i])
      BY <2>1, <2>4, KeywordUnique
    <3>2. Len(Keywords[i]) <= Len(Keywords[j])
      BY <2>1, <2>4, <2>5, KeywordUnique
    <3> QED
      BY <2>4, <3>1, <3>2, KeywordLetters
  <2>7. ASSUME NEW k \in 1..(j - 1)
        PROVE  ~StartsWith(s, p, Keywords[k])
    <3>1. k \in DOMAIN Keywords /\ ~(j <= k)
      <4>1. Keywords \in Seq(Seq(Lower))
        BY LexemesAssumption
      <4> QED
        BY <2>4, <4>1
    <3> QED
      BY <2>3, <3>1
  <2>8. q = p + Len(Keywords[j])
    BY <2>1, <2>6
  <2> QED
    BY <2>4, <2>7, <2>8, SameText DEF Hoon!PerkAt
<1> QED
  BY <1>1, <1>2

LEMMA SamePerk ==
  ASSUME NEW s \in Seq(Char), Agreed(s), NEW p \in 1..End(s)
  PROVE  Hoon!Perk(s, p) <=> Keyword(s, p)
BY SameKeyword, SameText DEF Hoon!Perk, Keyword
-----------------------------------------------------------------------------
(* Literals.                                                               *)

\* On an agreed text every number fits, so that the literals are the same.
LEMMA SameLiteral ==
  ASSUME NEW s \in Seq(Char), Agreed(s), NEW p \in 1..End(s), NEW q \in p..End(s)
  PROVE  Hoon!HoonLiteralAt(s, p, q) <=> LiteralAt(s, p, q)
<1>1. ~Overflows(s, p)
  BY DEF Agreed
<1>2. HexDigitsAt(s, p, q) => HexAt(s, p, q)
  BY <1>1 DEF Overflows, HexAt
<1>3. DigitsAt(s, p, q) => NumberAt(s, p, q)
  BY <1>1 DEF Overflows, NumberAt
<1>4. Hoon!HoonLiteralAt(s, p, q) <=>
        \/ BooleanAt(s, p, q) \/ HexDigitsAt(s, p, q)
        \/ DigitsAt(s, p, q) \/ StringAt(s, p, q)
  BY SameWords, SameDigits, SameText DEF Hoon!HoonLiteralAt
<1> QED
  BY <1>2, <1>3, <1>4 DEF LiteralAt, HexAt, NumberAt

LEMMA SameAtom ==
  ASSUME NEW s \in Seq(Char), Agreed(s), NEW p \in 1..End(s), NEW q \in p..End(s)
  PROVE  Hoon!AtomAt(s, p, q) <=> SymbolAt(s, p, q) \/ LiteralAt(s, p, q)
<1>1. ASSUME Sees(s, p, {"%"})
      PROVE  Hoon!HoonLiteralAt(s, p + 1, q) <=> LiteralAt(s, p + 1, q)
  <2>1. p + 1 \in 1..End(s)
    BY <1>1 DEF Sees, End
  <2>2. CASE q \in (p + 1)..End(s)
    BY <2>1, <2>2, SameLiteral
  <2>3. CASE q = p
    <3>1. ~LiteralAt(s, p + 1, q)
      BY <2>1, <2>3, LiteralLong
    <3>2. ~Hoon!HoonLiteralAt(s, p + 1, q)
      <4>1. ~BooleanAt(s, p + 1, q) /\ ~StringAt(s, p + 1, q)
        BY <3>1 DEF LiteralAt
      <4>2. ~HexDigitsAt(s, p + 1, q) /\ ~DigitsAt(s, p + 1, q)
        BY <2>3 DEF HexDigitsAt, DigitsAt
      <4> QED
        BY <2>1, <4>1, <4>2, SameWords, SameDigits, SameText
        DEF Hoon!HoonLiteralAt
    <3> QED
      BY <3>1, <3>2
  <2> QED
    BY <2>1, <2>2, <2>3 DEF End
<1> QED
  BY <1>1, SameLiteral, SameText DEF Hoon!AtomAt, SymbolAt

LEMMA SameAtoms ==
  ASSUME NEW s \in Seq(Char), Agreed(s), NEW p \in 1..End(s)
  PROVE  Hoon!Atom(s, p) <=> Literal(s, p)
BY SameAtom, SameText DEF Hoon!Atom, Literal
-----------------------------------------------------------------------------
(* The simulation.                                                         *)

\* Where neither a word nor a digit starts, no word rule matches.
LEMMA NoWord ==
  ASSUME NEW s \in Seq(Char), Agreed(s), NEW p \in 1..Len(s),
         s[p] \notin Lower \cup Digit, s[p] # "0"
  PROVE  /\ ~Hoon!Perk(s, p)
         /\ \A q : ~BooleanAt(s, p, q) /\ ~HexDigitsAt(s, p, q) /\ ~DigitsAt(s, p, q)
<1>1. ~Hoon!Perk(s, p)
  <2> SUFFICES ASSUME NEW i \in DOMAIN Keywords, StartsWith(s, p, Keywords[i])
               PROVE  FALSE
    BY SameText DEF Hoon!Perk, Hoon!PerkAt
  <2>1. 1 \in 1..Len(Keywords[i]) /\ Keywords[i][1] \in Lower
    BY KeywordLetters
  <2> QED
    BY <2>1 DEF StartsWith
<1>2. ASSUME NEW q, BooleanAt(s, p, q)
      PROVE  FALSE
  <2>1. PICK i \in DOMAIN Booleans : StartsWith(s, p, Booleans[i])
    BY <1>2 DEF BooleanAt
  <2>2. Booleans \in Seq(Seq(Lower)) /\ Len(Booleans[i]) > 0
    BY LexemesAssumption
  <2>3. Booleans[i] \in Seq(Lower)
    BY <2>2
  <2>4. 1 \in 1..Len(Booleans[i]) /\ Booleans[i][1] \in Lower
    BY <2>2, <2>3
  <2> QED
    BY <2>1, <2>4 DEF StartsWith
<1>3. ASSUME NEW q, HexDigitsAt(s, p, q)
      PROVE  FALSE
  BY <1>3 DEF HexDigitsAt, StartsWith
<1>4. ASSUME NEW q, DigitsAt(s, p, q)
      PROVE  FALSE
  BY <1>4 DEF DigitsAt, RunOf, End
<1> QED
  BY <1>1, <1>2, <1>3, <1>4

LEMMA OpenStringStuck ==
  ASSUME NEW s \in Seq(Char), Agreed(s), NEW p \in 1..End(s), OpenString(s, p)
  PROVE  Hoon!NoRule(s, p) /\ ~Sees(s, p, Gah)
<1>1. p \in 1..Len(s) /\ s[p] = "'"
  BY DEF OpenString, Sees
<1>2. s[p] \notin Lower \cup Upper \cup Digit \cup Punct /\ s[p] # "0" /\ s[p] # "%"
  BY <1>1, LexemesAssumption
<1>3. ~Hoon!Perk(s, p)
  BY <1>1, <1>2, NoWord
<1>4. \A q \in p..End(s) : ~LiteralAt(s, p, q)
  BY <1>1, <1>2, NoWord DEF LiteralAt, HexAt, NumberAt, OpenString
<1>5. ~Hoon!Atom(s, p)
  BY <1>2, <1>4, SameAtoms DEF Literal, SymbolAt, Sees
<1>6. p <= Len(s) /\ ~Sees(s, p, Lower \cup Upper \cup Punct)
  BY <1>1, <1>2 DEF Sees
<1>7. ~Sees(s, p, Gah)
  BY <1>1, LexemesAssumption, GahAssumption DEF Sees
<1> QED
  BY <1>3, <1>5, <1>6, <1>7, SameText DEF Hoon!NoRule

LEMMA SimulateTrivia ==
  ASSUME TypeOK, Agreed(input),
         SkipLineComment \/ SkipBlockComment \/ SkipBlank \/ TriviaEnds
  PROVE  Hoon!Next
<1>1. CASE SkipLineComment
  BY <1>1, SameTrivia, SameText
  DEF SkipLineComment, SkipTo, Hoon!Next, Hoon!Skip, Hoon!TriviaAt
<1>2. CASE SkipBlockComment
  BY <1>2, SameTrivia, SameText
  DEF SkipBlockComment, SkipTo, Hoon!Next, Hoon!Skip, Hoon!TriviaAt
<1>3. CASE SkipBlank
  <2>0. Sees(input, pos, Gah)
    BY <1>3 DEF SkipBlank, Sees, Agreed, TypeOK
  <2>1. Hoon!TriviaAt(input, pos, pos + 1)
    BY <2>0, SameText DEF Hoon!TriviaAt
  <2>2. pos \in Nat /\ Len(input) \in Nat /\ pos <= Len(input)
    BY <2>0 DEF Sees, TypeOK
  <2>3. pos + 1 \in pos..End(input)
    BY <2>2 DEF End
  <2> QED
    BY <1>3, <2>1, <2>3, SameText DEF SkipBlank, SkipTo, Hoon!Next, Hoon!Skip
<1>4. CASE TriviaEnds
  <2>1. ~\E q \in pos..End(input) : Hoon!TriviaAt(input, pos, q)
    BY <1>4, SameTrivia, SameText, GahAssumption
    DEF TriviaEnds, LineComment, Hoon!TriviaAt, BlockCommentAt, Sees
  <2> QED
    BY <1>4, <2>1, SameText DEF TriviaEnds, Hoon!Next, Hoon!SkipEnds
<1> QED
  BY <1>1, <1>2, <1>3, <1>4

LEMMA SimulateToken ==
  ASSUME TypeOK, Agreed(input),
         \/ KeywordToken \/ LiteralToken \/ NameToken
         \/ PunctuatorToken \/ TypeToken
  PROVE  Hoon!Next
<1>0. input \in Seq(Char) /\ pos \in 1..End(input)
  BY DEF TypeOK
<1>1. CASE KeywordToken
  BY <1>0, <1>1, SameKeyword, SameText
  DEF KeywordToken, Push, Hoon!Next, Hoon!TaggedKeyword, Hoon!Produce
<1>2. CASE LiteralToken
  <2>1. ~Hoon!Perk(input, pos)
    BY <1>0, <1>2, SamePerk DEF LiteralToken
  <2> QED
    BY <1>0, <1>2, <2>1, SameAtom, SameText
    DEF LiteralToken, Push, Hoon!Next, Hoon!TaggedLiteral, Hoon!Produce
<1>3. ASSUME Wordless(input, pos)
      PROVE  ~Hoon!Perk(input, pos) /\ ~Hoon!Atom(input, pos)
  BY <1>0, <1>3, SamePerk, SameAtoms DEF Wordless
<1>4. CASE NameToken
  BY <1>3, <1>4, SameWords, SameText
  DEF NameToken, Push, Hoon!Next, Hoon!TaggedName, Hoon!Produce
<1>5. CASE PunctuatorToken
  BY <1>3, <1>5, SameText
  DEF PunctuatorToken, Push, Hoon!Next, Hoon!TaggedPunctuator, Hoon!Produce
<1>6. CASE TypeToken
  BY <1>6, SameWords, SameText
  DEF TypeToken, Push, Hoon!Next, Hoon!TaggedType, Hoon!Produce
<1> QED
  BY <1>1, <1>2, <1>4, <1>5, <1>6

LEMMA SimulateEnd ==
  ASSUME TypeOK, Agreed(input),
         BadLiteralToken \/ Unexpected \/ Finish \/ OpenComment
  PROVE  Hoon!Next
<1>0. input \in Seq(Char) /\ pos \in 1..End(input)
  BY DEF TypeOK
<1>1. CASE BadLiteralToken
  <2>1. PICK at \in {pos, pos + 1} : FailsAt(input, pos, at)
    BY <1>1 DEF BadLiteralToken
  <2>2. at \in 1..End(input) /\ BadLiteral(input, at)
    BY <1>0, <2>1 DEF FailsAt, Sees, End
  <2>3. Hoon!NoRule(input, at) /\ ~Sees(input, at, Gah)
    BY <1>0, <2>2, OpenStringStuck DEF BadLiteral, Agreed
  <2>4. /\ mode = "token" /\ mode' = "error"
        /\ UNCHANGED <<input, pos, fun, tokens>>
    BY <1>1 DEF BadLiteralToken, Fail
  <2>5. CASE at = pos
    BY <2>3, <2>4, <2>5 DEF Hoon!Next, Hoon!FullFails
  <2>6. CASE at # pos
    <3>1. Sees(input, pos, {"%"}) /\ at = pos + 1
      BY <2>1, <2>6 DEF FailsAt
    <3>2. ~Hoon!Atom(input, pos)
      <4>1. \A q \in at..End(input) : ~LiteralAt(input, at, q)
        BY <2>3, <3>1, <1>0, <2>2, SameLiteral, SameText
        DEF Hoon!NoRule, Hoon!Atom, Hoon!AtomAt
      <4>2. pos \in 1..Len(input) /\ input[pos] = "%"
        BY <3>1 DEF Sees
      <4>3. input[pos] \notin Lower \cup Digit /\ input[pos] # "0" /\ input[pos] # "'"
        BY <4>2, LexemesAssumption
      <4>4. \A q : ~LiteralAt(input, pos, q)
        BY <1>0, <4>2, <4>3, NoWord
        DEF LiteralAt, HexAt, NumberAt, StringAt, Sees
      <4>5. \A q \in pos..End(input) : ~SymbolAt(input, pos, q)
        <5> SUFFICES ASSUME NEW q \in pos..End(input), SymbolAt(input, pos, q)
                     PROVE  FALSE
          OBVIOUS
        <5>1. q \in Int /\ at \in Int /\ LiteralAt(input, at, q)
          BY <1>0, <3>1 DEF SymbolAt, End
        <5>2. q > at
          BY <5>1, LiteralLong
        <5> QED
          BY <4>1, <5>1, <5>2, <1>0 DEF End
      <4> QED
        BY <1>0, <4>4, <4>5, SameAtoms DEF Literal
    <3> QED
      BY <2>3, <2>4, <3>1, <3>2, SameText DEF Hoon!Next, Hoon!FullFails
  <2> QED
    BY <2>5, <2>6
<1>2. CASE Unexpected
  <2>1. ~Hoon!Perk(input, pos) /\ ~Hoon!Atom(input, pos)
    BY <1>0, <1>2, SamePerk, SameAtoms DEF Unexpected, Wordless
  <2> QED
    BY <1>2, <2>1, SameText
    DEF Unexpected, Fail, Hoon!Next, Hoon!FullFails, Hoon!NoRule
<1>3. CASE Finish
  BY <1>3 DEF Finish, Hoon!Next, Hoon!FullSucceeds
<1>4. CASE OpenComment
  BY <1>0, <1>4 DEF OpenComment, Agreed
<1> QED
  BY <1>1, <1>2, <1>3, <1>4

\* On agreed texts the Rust lexer's every step is a step of the tokenizer of
\* jock.hoon: the same tokens, calls and failures.
THEOREM LexerImplementsHoon == AgreedSpec => HoonSpec
<1> DEFINE AgreedInput == Agreed(input)
<1>1. AgreedInit => Hoon!Init /\ AgreedInput
  BY DEF AgreedInit, Init, Hoon!Init
<1>2. AgreedInput /\ [Next]_vars => AgreedInput'
  BY DEF vars, Next, SkipLineComment, SkipBlockComment, OpenComment, SkipBlank,
     TriviaEnds, KeywordToken, LiteralToken, BadLiteralToken, NameToken,
     PunctuatorToken, TypeToken, Unexpected, Finish, SkipTo, Fail, Push
<1>3. TypeOK /\ AgreedInput /\ [Next]_vars => [Hoon!Next]_(Hoon!vars)
  <2> SUFFICES ASSUME TypeOK, Agreed(input), [Next]_vars
               PROVE  [Hoon!Next]_(Hoon!vars)
    OBVIOUS
  <2>1. CASE Next
    BY <2>1, SimulateTrivia, SimulateToken, SimulateEnd DEF Next
  <2>2. CASE UNCHANGED vars
    BY <2>2 DEF vars, Hoon!vars
  <2> QED
    BY <2>1, <2>2
<1>4. AgreedSpec => Spec
  BY DEF AgreedSpec, AgreedInit, Spec
<1> QED
  BY <1>1, <1>2, <1>3, <1>4, LexerTypes, PTL DEF AgreedSpec, HoonSpec, Hoon!Spec
=============================================================================
