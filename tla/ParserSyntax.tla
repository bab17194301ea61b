---------------------------- MODULE ParserSyntax ----------------------------
(***************************************************************************)
(* What the parser is for: the syntax of Jock, written as the tokens of    *)
(* each kind of node, and the properties that relate the two.              *)
(***************************************************************************)
EXTENDS ParserStack, SequencesExt

CONSTANT Programs   \* syntax trees, as programs are meant

\* The tokens as the lexer writes them: "((" after a name or a type.
Lexed(ts) ==
  [i \in DOMAIN ts |->
     IF ts[i] \in {"(", "(("}
       THEN IF i > 1 /\ ts[i - 1] \in Names THEN "((" ELSE "("
       ELSE ts[i]]

In(ts) == <<"(">> \o ts \o <<")">>
Braced(ts) == <<"{">> \o ts \o <<"}">>
To == <<"-", ">">>

Infixes == Comparator \cup Operator
Spelling(op) == IF \E p \in DOMAIN TwoToken : TwoToken[p] = op
                  THEN CHOOSE p \in DOMAIN TwoToken : TwoToken[p] = op ELSE <<op>>

RECURSIVE Show(_), ShowAll(_)

\* Nodes one after another.
ShowAll(nodes) == IF nodes = <<>> THEN <<>> ELSE Show(Head(nodes)) \o ShowAll(Tail(nodes))

\* A node where no infix operator may follow, or be.
Operand(x) == IF x.node \in Infixes \cup {"with"} THEN In(Show(x)) ELSE Show(x)

\* Between the parentheses of a call or of the arguments of a type.
Arguments(x) ==
  In(IF x.node \in {"tuple", "cell-type"} /\ x.word = NoWord THEN ShowAll(x.kids) ELSE Show(x))

ShowType(x) ==
  LET first == x.kids[1]
      type == CASE x.node = "cell-type" -> In(ShowAll(x.kids))
                [] x.node = "jype" /\ Len(x.kids) = 2 ->
                     <<IF first.node = "state" THEN x.word ELSE first.word>>
                       \o Arguments(x.kids[2])
                [] x.node = "jype" /\ Len(x.kids) = 1 /\ first.node = "axis" ->
                     <<"&", first.word>>
                [] x.node = "jype" /\ Len(x.kids) = 1 /\ first.node # "axis" ->
                     IF first.node = "none" THEN <<>> ELSE <<first.word>>
      own == x.node = "jype"
               /\ \/ first.node = "state"
                  \/ x.word \in Type /\ (first.word = x.word \/ x.word \in DOMAIN Primitive)
  IN  CASE x.word = NoWord -> type
        [] x.word # NoWord /\ own -> IF Len(x.kids) = 2 THEN type ELSE <<x.word>>
        [] x.word # NoWord /\ ~own /\ first.node = "none" -> <<x.word>>
        [] OTHER -> <<x.word, ":">> \o type

Show(x) ==
  LET k == x.kids
      A == Show(k[1])  B == Show(k[2])  C == Show(k[3])
  IN
  CASE x.node \in {"atom", "name"} -> IF x.word = NoWord THEN <<>> ELSE <<x.word>>
    [] x.node = "axis" -> IF x.word = "1" THEN <<"this">> ELSE <<"&", x.word>>
    [] x.node = "limb" -> A \o FlattenSeq([i \in 1..(Len(k) - 1) |-> <<".">> \o Show(k[i + 1])])
    [] x.node \in Infixes -> Operand(k[1]) \o Spelling(x.node) \o B
    [] x.node = "call" /\ k[1].node = "axis" ->
         (IF k[1].word = "0" THEN <<"$">> ELSE A) \o (IF Len(k) = 2 THEN In(B) ELSE <<>>)
    [] x.node = "call" /\ k[1].node # "axis" ->
         A \o (IF Len(k) = 2 THEN Arguments(k[2]) ELSE In(<<>>))
    [] x.node = "tuple" -> In(ShowAll(k))
    [] x.node = "set" -> Braced(ShowAll(k))
    [] x.node = "list" -> <<"[">> \o ShowAll(k) \o <<"]">>
    [] x.node = "increment" -> <<"+">> \o In(A)
    [] x.node = "cell-check" -> <<"?">> \o In(A)
    [] x.node = "edit" -> A \o <<"=">> \o B \o <<";">> \o C
    [] x.node = "let" -> <<"let">> \o A \o <<"=">> \o B \o <<";">> \o C
    [] x.node = "func" -> <<"func">> \o A \o In(B) \o To \o C \o Braced(Operand(k[4]))
                            \o <<";">> \o Show(k[5])
    [] x.node = "lambda" -> A \o Braced(B)
    [] x.node = "lambda-argument" -> IF Len(k) = 1 THEN In(<<>>) \o To \o A
                                                   ELSE In(A) \o To \o B
    [] x.node = "class" -> <<"class">> \o A \o Braced(ShowAll(Tail(k)))
    [] x.node = "method" -> A \o Arguments(k[2]) \o To \o C \o Braced(Show(k[4]))
    [] x.node = "if" -> <<"if">> \o A \o Braced(B) \o C
    [] x.node = "else" -> <<"else">> \o Braced(A)
    [] x.node = "else-if" -> <<"else", "if">> \o A \o Braced(B) \o C
    [] x.node \in {"assert", "compose"} -> <<x.node>> \o A \o <<";">> \o B
    [] x.node \in {"loop", "defer"} -> <<x.node, ";">> \o A
    [] x.node = "with" -> <<"with">> \o A \o <<";">> \o B
    [] x.node = "object" -> <<"object">> \o A \o Braced(ShowAll(Tail(k)))
    [] x.node = "field" -> A \o <<"=">> \o B
    [] x.node \in {"match", "switch"} -> <<x.node>> \o A \o Braced(B)
    [] x.node = "cases" -> ShowAll(k)
    [] x.node = "case" -> A \o To \o B \o <<";">>
    [] x.node = "default" -> <<"_">> \o To \o A \o <<";">>
    [] x.node = "eval" -> <<"eval">> \o A \o B
    [] x.node = "import" /\ k = <<>> -> <<"import", x.word>>
    [] x.node = "import" /\ k # <<>> -> A \o <<";">> \o B
    [] x.node = "print" -> <<"print">> \o In(A) \o <<";">> \o B
    [] x.node = "crash" -> <<"crash">>
    [] x.node \in {"jype", "cell-type"} -> ShowType(x)
-----------------------------------------------------------------------------
(* Properties.                                                             *)

Written == {Lexed(Show(tree)) : tree \in Programs}

\* A program that is written as the language says is read as it was meant.
ReadsBack ==
  outcome.kind # "parsing" /\ input \in Written =>
    /\ outcome.kind = "parsed"
    /\ Lexed(Show(vals[1])) = input

\* The tokens that are more than grouping: without brackets, the ":" of types
\* and the optional lambda.
Significant(ts) ==
  SelectSeq(ts, LAMBDA t : t \notin {"(", "((", ")", "{", "}", "[", "]", ":", "lambda"})

\* What the tree does not tell:
\*  - the name of an import that has an alias, and recur from $;
\*  - the name, primitive or class that x replaces in x:a, x:(a:@), x:Uint, x:Foo(@),
\*    and the type of Uint:@ or Foo:Foo, which is that of the name alone;
\*  - "*" from no type (one of these tokens is to the left or the right of each "*" that
\*    is a type, and of no other but the product with a set);
\*  - the type b of the func or method a in "func a b(" and in "class Foo {a b(".
Untold ==
  \E i \in DOMAIN input :
    \/ input[i] \in {"as", "recur"}
    \/ input[i] = ":" /\ \/ Token(i + 1) \in Name \cup DOMAIN Primitive \cup {"(", Token(i - 1)}
                         \/ Token(i - 1) \in DOMAIN Primitive
                         \/ Token(i + 1) \in Type \ {"List", "Set"} /\ Token(i + 2) = "(("
    \/ input[i] = "*" /\ \/ Token(i - 1) \in {":", ">", "(", "(("}
                         \/ Token(i + 1) \in {"=", ")", "{"}
    \/ /\ input[i] \in {"func", "{", "}"}
       /\ Token(i + 1) \in Names /\ Token(i + 2) \in Names /\ Token(i + 3) = "(("

\* Of what the tree can tell nothing is lost: an expression is made of the tokens it
\* was read from, all of them and in their order.
NothingLost ==
  outcome.kind = "parsed" /\ ~Untold => Significant(Show(vals[1])) = Significant(input)

\* The parser returns.
Returns == <>(outcome.kind # "parsing")
=============================================================================
