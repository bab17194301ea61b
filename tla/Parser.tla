------------------------------- MODULE Parser -------------------------------
(***************************************************************************)
(* The parser of crates/jock-parser: a recursive descent over the tokens,  *)
(* run step by step.  todo is what remains of the calls under way, the     *)
(* innermost first: a function to call, a token to expect, a node to build *)
(* from the last values.  A token is its spelling; End is past the last.   *)
(*                                                                         *)
(* The lexer writes "((" for the parenthesis after a name or a type, and   *)
(* nowhere else.  So four branches of the code cannot be taken and are     *)
(* left out: a name or the name of a type followed by "(" (parser.rs:606,  *)
(* 1179), an expression that starts with "((" (463) and what is not a      *)
(* parenthesis in match_pair_inner_jock (314); so is the "(" of            *)
(* match_jype_leaf (1248), whose caller looks for it first.                *)
(***************************************************************************)
EXTENDS Integers, Sequences, FiniteSets

CONSTANTS
  Inputs,   \* the token sequences to parse
  Name, Type, Number,
  Text      \* literals that are not numbers

Names == Name \cup Type
Literal == Number \cup Text
Keyword == {"let", "func", "lambda", "class", "if", "else", "crash", "assert", "object",
            "compose", "loop", "defer", "recur", "match", "switch", "eval", "with",
            "this", "import", "as", "print"}
LBrace == "{"
RBrace == "}"
Semicolon == ";"
Comma == ","
Underscore == "_"
Punctuator == {".", Semicolon, Comma, ":", "&", "$", "@", "?", "!", "((", "(", ")",
               LBrace, RBrace, "[", "]", "=", "<", ">", "#", "+", "-", "*", "/", "%", Underscore}

End == ""
\* Operators of two tokens: like End, no token is one of them.
Paired == {"==", "<=", ">=", "!=", "**", End}

ASSUME TokensAssumption ==
  /\ LET kinds == <<Name, Type, Number, Text, Keyword, Punctuator, Paired>>
     IN  \A i, j \in DOMAIN kinds : i # j => kinds[i] \cap kinds[j] = {}
  /\ Inputs \subseteq Seq(Names \cup Literal \cup Keyword \cup Punctuator)

VARIABLES input, pos, todo, vals, outcome
vars == <<input, pos, todo, vals, outcome>>

\* What the functions return: a Jock, a Jype or a part of them.
Node(node, word, kids) == [node |-> node, word |-> word, kids |-> kids]
NoWord == ""
Leaf(node, word) == Node(node, word, <<>>)

Call(what) == [do |-> "call", what |-> what, n |-> 0]
Loop(what, n) == [do |-> "call", what |-> what, n |-> n]
Expect(punc) == [do |-> "expect", what |-> punc, n |-> 0]
Build(node, n) == [do |-> "build", what |-> node, n |-> n]
Rename(name) == [do |-> "rename", what |-> name, n |-> 1]
Block(start, what, end) == <<Expect(start), Call(what), Expect(end)>>

Token(i) == IF i \in DOMAIN input THEN input[i] ELSE End
Ahead(k) == Token(pos + k)
AtEnd == Ahead(0) = End

Doing(what) ==
  /\ outcome.kind = "parsing" /\ todo # <<>>
  /\ Head(todo).do = "call" /\ Head(todo).what = what

\* Takes tokens, returns values and has more to do.
Step(take, push, then) ==
  /\ pos' = pos + take
  /\ vals' = vals \o push
  /\ todo' = then \o Tail(todo)
  /\ UNCHANGED <<input, outcome>>

\* An error at the token k further on.
Stop(k) ==
  /\ outcome' = [kind |-> IF Ahead(k) = End THEN "end" ELSE "unexpected", at |-> pos + k]
  /\ UNCHANGED <<input, pos, todo, vals>>

Init ==
  /\ input \in Inputs
  /\ pos = 1 /\ vals = <<>>
  /\ todo = <<Call("jock")>>
  /\ outcome = [kind |-> "parsing", at |-> 0]
-----------------------------------------------------------------------------
(* Expressions.                                                            *)

StartOf(t) == CASE t \in Literal -> "literal"
                [] t \in Names -> "name"
                [] t \in Keyword -> "keyword"
                [] t \in Punctuator -> "punctuator"

\* Mutant of MatchJock: the left operand may have operators of its own.
MatchJockLeft == Doing("jock") /\ ~AtEnd /\ Step(0, <<>>, <<Call("jock"), Call("infix")>>)

MatchJock ==
  /\ Doing("jock") /\ ~AtEnd
  /\ Step(0, <<>>, <<Call(StartOf(Ahead(0))), Call("infix")>>)

InnerKeyword == {"object", "class", "with", "this", "crash"}

MatchInnerJock ==
  /\ Doing("inner") /\ ~AtEnd
  /\ Ahead(0) \in Keyword => Ahead(0) \in InnerKeyword
  /\ Step(0, <<>>, IF Ahead(0) \in Keyword
                     THEN <<Call("jock")>>
                     ELSE <<Call(StartOf(Ahead(0))), Call("inner-infix")>>)

\* The body of a func: no infix operator may follow.
MatchJockBody ==
  /\ Doing("body") /\ ~AtEnd /\ Ahead(0) # RBrace
  /\ Step(0, <<>>, <<Call(StartOf(Ahead(0)))>>)

\* Infix operators and how many tokens they are.
Comparator == {"==", "<=", ">=", "!=", "<", ">"}
Operator == {"**", "+", "-", "*", "/", "%"}
TwoToken == [p \in {<<"=", "=">>, <<"<", "=">>, <<">", "=">>, <<"!", "=">>, <<"*", "*">>}
               |-> CASE p = <<"=", "=">> -> "==" [] p = <<"<", "=">> -> "<="
                     [] p = <<">", "=">> -> ">=" [] p = <<"!", "=">> -> "!="
                     [] p = <<"*", "*">> -> "**"]
AnyOperator ==
  LET two == <<Ahead(0), Ahead(1)>> IN
  CASE two \in DOMAIN TwoToken -> <<TwoToken[two]>>
    [] two \notin DOMAIN TwoToken /\ Ahead(0) \in Comparator \cup Operator -> <<Ahead(0)>>
    [] OTHER -> <<>>

Arrow(k) == Ahead(k) = "-" /\ Ahead(k + 1) = ">"

\* Mutant of HasInfix: "->" begins with a minus everywhere.
HasInfixArrow == AnyOperator # <<>>

\* An operator and its right operand; in match_jock "->" is no operator.
HasInfix == AnyOperator # <<>> /\ ~(Doing("infix") /\ Arrow(0))

Infix ==
  /\ Doing("infix") \/ Doing("inner-infix")
  /\ HasInfix
  /\ LET op == AnyOperator[1]
     IN  Step(IF op \in {TwoToken[p] : p \in DOMAIN TwoToken} THEN 2 ELSE 1,
              <<>>, <<Call("inner"), Build(op, 2)>>)

NoInfix ==
  /\ Doing("infix") \/ Doing("inner-infix")
  /\ ~HasInfix
  /\ Step(0, <<>>, <<>>)

MatchLiteral == Doing("literal") /\ Step(1, <<Leaf("atom", Ahead(0))>>, <<>>)

MatchAxis ==
  Doing("axis") /\ Ahead(0) \in Number /\ Step(1, <<Leaf("axis", Ahead(0))>>, <<>>)

\* The elements of a tuple, a set or a list, the first n read.
Closer == [tuple |-> ")", set |-> RBrace, list |-> "]"]

\* Mutant of Element: nothing is read.
ElementStuck ==
  \E kind \in DOMAIN Closer :
    /\ Doing(kind) /\ Ahead(0) # Closer[kind]
    /\ Step(0, <<>>, <<Head(todo)>>)

Element ==
  \E kind \in DOMAIN Closer :
    /\ Doing(kind) /\ Ahead(0) # Closer[kind]
    /\ Step(0, <<>>, <<Call("inner"), Loop(kind, Head(todo).n + 1)>>)

LastElement ==
  \E kind \in DOMAIN Closer :
    /\ Doing(kind) /\ Ahead(0) = Closer[kind]
    /\ Step(1, <<>>, IF kind = "tuple" /\ Head(todo).n = 1
                       THEN <<>> ELSE <<Build(kind, Head(todo).n)>>)
-----------------------------------------------------------------------------
(* Names: a limb, an edit or a call.                                       *)

MatchStartName ==
  Doing("name") /\ Step(1, <<Leaf("name", Ahead(0))>>, <<Loop("wing", 1)>>)

Wing ==
  /\ Doing("wing") /\ Ahead(0) = "." /\ Ahead(1) \in Names
  /\ Step(2, <<Leaf("name", Ahead(1))>>, <<Loop("wing", Head(todo).n + 1)>>)

LastWing ==
  /\ Doing("wing") /\ Ahead(0) # "."
  /\ Step(0, <<>>, <<Build("limb", Head(todo).n), Call("after-name")>>)

Edit ==
  /\ Doing("after-name") /\ Ahead(0) = "=" /\ Ahead(1) # "="
  /\ Step(1, <<>>, <<Call("inner"), Expect(Semicolon), Call("jock"), Build("edit", 3)>>)

\* Mutant of NameCall: the ")" of an empty call is left.
NameCallOpen ==
  /\ Doing("after-name") /\ Ahead(0) = "(("
  /\ IF Ahead(1) = ")"
       THEN Step(1, <<>>, <<Build("call", 1)>>)
       ELSE Step(1, <<>>, <<Call("argument"), Build("call", 2)>>)

NameCall ==
  /\ Doing("after-name") /\ Ahead(0) = "(("
  /\ IF Ahead(1) = ")"
       THEN Step(2, <<>>, <<Build("call", 1)>>)
       ELSE Step(1, <<>>, <<Call("argument"), Build("call", 2)>>)

PlainName ==
  /\ Doing("after-name")
  /\ Ahead(0) # "((" /\ (Ahead(0) = "=" => Ahead(1) = "=")
  /\ Step(0, <<>>, <<>>)

\* The "((" of the call is behind; a "(" here is taken for that of the call.
MatchCallArg ==
  /\ Doing("argument")
  /\ Step(0, <<>>, IF Ahead(0) = "(" THEN <<Call("pair")>>
                                     ELSE <<Call("inner"), Loop("tuple", 1)>>)
-----------------------------------------------------------------------------
(* Punctuators that start an expression.                                   *)

Starting(punc) == Doing("punctuator") /\ Ahead(0) = punc
Keyworded(word) == Doing("keyword") /\ Ahead(0) = word

Unary ==
  /\ Starting("+") \/ Starting("?")
  /\ Step(1, <<>>, Block("(", "inner", ")")
                     \o <<Build(IF Ahead(0) = "+" THEN "increment" ELSE "cell-check", 1)>>)

\* $ and recur: without an argument, or "()", or with one.
Again ==
  /\ Starting("$") \/ Keyworded("recur")
  /\ LET self == <<Leaf("axis", "0")>>
     IN  CASE Ahead(1) # "(" -> Step(1, self, <<Build("call", 1)>>)
           [] Ahead(1) = "(" /\ Ahead(2) = ")" -> Step(3, self, <<Build("call", 1)>>)
           [] Ahead(1) = "(" /\ Ahead(2) # ")" ->
                Step(1, self, Block("(", "inner", ")") \o <<Build("call", 2)>>)

AxisLimb == Starting("&") /\ Step(1, <<>>, <<Call("axis"), Call("axis-call")>>)

\* Mutant of AxisCall: the axis is no part of the call.
AxisCallAlone ==
  /\ Doing("axis-call")
  /\ Step(0, <<>>, IF Ahead(0) = "(" THEN Block("(", "inner", ")") \o <<Build("call", 1)>>
                                     ELSE <<>>)

AxisCall ==
  /\ Doing("axis-call")
  /\ Step(0, <<>>, IF Ahead(0) = "(" THEN Block("(", "inner", ")") \o <<Build("call", 2)>>
                                     ELSE <<>>)

SetOrList ==
  /\ Starting(LBrace) \/ Starting("[")
  /\ Step(1, <<>>, <<Call("inner"), Loop(IF Ahead(0) = LBrace THEN "set" ELSE "list", 1)>>)

\* Is there a lambda from the "(" here?  The scan looks for its ")", but does
\* not count "((" as a parenthesis.
Depth(i) == Cardinality({k \in pos..i : Token(k) = "("})
              - Cardinality({k \in pos..i : Token(k) = ")"})
LambdaAhead ==
  \E c \in pos..Len(input) :
    /\ Depth(c) = 0 /\ \A i \in pos..(c - 1) : Depth(i) > 0
    /\ \/ Arrow(c + 1 - pos)
       \/ /\ Token(c + 1) = LBrace
          /\ \E i \in pos..(c - 1) : Depth(i) = 1 /\ Arrow(i - pos)

Parenthesis ==
  /\ Starting("(")
  /\ Step(0, <<>>, IF LambdaAhead THEN <<Call("lambda"), Call("lambda-call")>>
                                  ELSE <<Call("pair")>>)

MatchPairInnerJock == Doing("pair") /\ Step(1, <<>>, <<Call("inner"), Loop("tuple", 1)>>)

\* A lambda may be called at once.
LambdaCall ==
  /\ Doing("lambda-call")
  /\ CASE Ahead(0) # "(" -> Step(0, <<>>, <<>>)
       [] Ahead(0) = "(" /\ Ahead(1) = ")" -> Step(2, <<>>, <<Build("call", 1)>>)
       [] Ahead(0) = "(" /\ Ahead(1) # ")" ->
            Step(0, <<>>, <<Call("pair"), Build("call", 2)>>)

MatchLambda ==
  /\ Doing("lambda")
  /\ Step(0, <<>>, <<Expect("("), Call("parameter")>> \o Block(LBrace, "jock", RBrace)
                     \o <<Build("lambda", 2)>>)

\* () -> out, (inp -> out), or (inp) -> out
NoParameter ==
  /\ Doing("parameter") /\ Ahead(0) = ")"
  /\ Step(1, <<>>, <<Expect("-"), Expect(">"), Call("jype"), Build("lambda-argument", 1)>>)

Parameter ==
  /\ Doing("parameter") /\ Ahead(0) # ")"
  /\ Step(0, <<>>, <<Call("jype"), Call("result"), Build("lambda-argument", 2)>>)

Result ==
  /\ Doing("result")
  /\ IF Arrow(0) THEN Step(2, <<>>, <<Call("jype"), Expect(")")>>)
     ELSE Step(0, <<>>, <<Expect(")"), Expect("-"), Expect(">"), Call("jype")>>)
-----------------------------------------------------------------------------
(* Types.                                                                  *)

Jype(name, leaf) == Node("jype", name, <<leaf>>)

QualifiedJype ==
  /\ Doing("jype") /\ Ahead(0) \in Names /\ Ahead(1) = ":"
  /\ Step(2, <<>>, <<Call(IF Ahead(2) \in Type THEN "metatype" ELSE "jype"),
                    Rename(Ahead(0))>>)

CellJype ==
  /\ Doing("jype") /\ Ahead(0) = "("
  /\ Step(1, <<>>, <<Call("jype"), Call("second-jype"), Expect(")")>>)

\* One type or two.
SecondJype ==
  /\ Doing("second-jype")
  /\ Step(0, <<>>, IF Ahead(0) = ")" THEN <<>>
                                     ELSE <<Call("jype"), Build("cell-type", 2)>>)

TypeJype ==
  /\ Doing("jype") /\ Ahead(0) \in Type /\ Ahead(1) # ":"
  /\ Step(0, <<>>, <<Call("metatype")>>)

LeafJype ==
  /\ Doing("jype") /\ ~AtEnd /\ Ahead(0) \notin Type \cup {"("}
  /\ IF Ahead(0) \in Name
       THEN Ahead(1) # ":" /\ Step(1, <<>>, <<Call("leaf"), Rename(Ahead(0))>>)
       ELSE Step(0, <<>>, <<Call("leaf")>>)

\* A type that is absent and one that is "*" are the same.
Noun == Jype(NoWord, Leaf("none", NoWord))
MatchJypeLeaf ==
  /\ Doing("leaf") /\ Ahead(0) # "&"
  /\ CASE Ahead(0) \in {"@", "?", "#"} \cup Names ->
            Step(1, <<Jype(NoWord, Leaf("leaf", Ahead(0)))>>, <<>>)
       [] Ahead(0) = "*" -> Step(1, <<Noun>>, <<>>)
       [] OTHER -> Step(0, <<Noun>>, <<>>)

AxisJype ==
  Doing("leaf") /\ Ahead(0) = "&" /\ Step(1, <<>>, <<Call("axis"), Build("jype", 1)>>)

Primitive == [Atom |-> "@", Uint |-> "@", Uhex |-> "0x", String |-> "''", Loob |-> "?"]

PlainMetatype ==
  /\ Doing("metatype")
  /\ Ahead(0) \in DOMAIN Primitive \/ Ahead(1) # "(("
  /\ LET leaf == IF Ahead(0) \in DOMAIN Primitive THEN Primitive[Ahead(0)] ELSE Ahead(0)
     IN  Step(1, <<Jype(Ahead(0), Leaf("leaf", leaf))>>, <<>>)

\* List, Set or the state of a class.
Metatype ==
  /\ Doing("metatype") /\ Ahead(0) \in Type \ DOMAIN Primitive /\ Ahead(1) = "(("
  /\ Step(2, <<Leaf("type", Ahead(0))>>,
          <<Call("jype"), Call("second-jype"), Expect(")"), Build("container", 2)>>)
-----------------------------------------------------------------------------
(* Keywords.                                                               *)

\* What follows the keyword.  (Of the type after func, Declared keeps the name.)
Form ==
  [let |-> <<Call("jype"), Expect("="), Call("jock"), Expect(Semicolon), Call("jock"),
             Build("let", 3)>>,
   func |-> <<Call("jype")>> \o Block("((", "jype", ")")
              \o <<Expect("-"), Expect(">"), Call("jype")>> \o Block(LBrace, "body", RBrace)
              \o <<Expect(Semicolon), Call("jock"), Build("func", 5)>>,
   lambda |-> <<Call("lambda"), Call("lambda-call")>>,
   class |-> <<Call("jype"), Call("unreserved"), Expect(LBrace), Loop("methods", 0)>>,
   if |-> <<Call("inner")>> \o Block(LBrace, "jock", RBrace)
            \o <<Call("after-if"), Build("if", 3)>>,
   assert |-> <<Call("inner"), Expect(Semicolon), Call("jock"), Build("assert", 2)>>,
   with |-> <<Call("inner"), Expect(Semicolon), Call("jock"), Call("attach")>>,
   compose |-> <<Call("inner"), Expect(Semicolon), Call("jock"), Build("compose", 2)>>,
   match |-> <<Call("inner"), Expect(LBrace), Loop("cases", 0), Expect(RBrace),
             Build("match", 2)>>,
   switch |-> <<Call("inner"), Expect(LBrace), Loop("cases", 0), Expect(RBrace),
              Build("switch", 2)>>,
   loop |-> <<Expect(Semicolon), Call("jock"), Build("loop", 1)>>,
   defer |-> <<Expect(Semicolon), Call("jock"), Build("defer", 1)>>,
   eval |-> <<Call("inner"), Call("jock"), Build("eval", 2)>>,
   print |-> Block("(", "inner", ")") \o <<Expect(Semicolon), Call("jock"), Build("print", 2)>>]

MatchKeyword ==
  /\ Doing("keyword") /\ Ahead(0) \in DOMAIN Form
  /\ Step(1, <<>>, Form[Ahead(0)])

ThisOrCrash ==
  /\ Keyworded("this") \/ Keyworded("crash")
  /\ Step(1, <<IF Ahead(0) = "this" THEN Leaf("axis", "1") ELSE Leaf("crash", NoWord)>>, <<>>)

\* import name; or import name as alias;
Import ==
  /\ Keyworded("import") /\ Ahead(1) \in Name
  /\ Ahead(2) = "as" => Ahead(3) \in Name
  /\ LET aliased == Ahead(2) = "as"
     IN  Step(IF aliased THEN 4 ELSE 2,
              <<Leaf("import", IF aliased THEN Ahead(3) ELSE Ahead(1))>>,
              <<Expect(Semicolon), Call("jock"), Build("import", 2)>>)

Object ==
  /\ Keyworded("object")
  /\ LET named == Ahead(1) \in Names
     IN  Step(IF named THEN 2 ELSE 1, <<Leaf("name", IF named THEN Ahead(1) ELSE NoWord)>>,
              <<Expect(LBrace), Loop("fields", 0)>>)

Field ==
  /\ Doing("fields") /\ Ahead(0) \in Names
  /\ Step(1, <<Leaf("name", Ahead(0))>>,
          <<Expect("="), Call("jock"), Build("field", 2), Loop("fields", Head(todo).n + 1)>>)

LastField ==
  /\ Doing("fields") /\ Ahead(0) = RBrace
  /\ Step(1, <<>>, <<Build("object", Head(todo).n + 1)>>)

Top == vals[Len(vals)]

Unreserved == Doing("unreserved") /\ Top.word \notin {"List", "Set"} /\ Step(0, <<>>, <<>>)

\* Of the first type, Declared keeps the name.
Method ==
  /\ Doing("methods") /\ Ahead(0) # RBrace
  /\ Step(0, <<>>, <<Call("jype"), Expect("(("), Call("jype"), Call("second-jype"),
                    Expect(")"), Expect("-"), Expect(">"), Call("jype")>>
                    \o Block(LBrace, "jock", RBrace)
                    \o <<Build("method", 4), Loop("methods", Head(todo).n + 1)>>)

LastMethod ==
  /\ Doing("methods") /\ Ahead(0) = RBrace
  /\ Step(1, <<>>, <<Build("class", Head(todo).n + 1)>>)

\* with: the context becomes that of the object or lambda, whose own is lost.
CanAttach == Top.node \in {"object", "lambda", "with"}

\* Mutant of Attach: the context is read and not kept.
AttachNothing ==
  /\ Doing("attach") /\ CanAttach
  /\ vals' = Append(SubSeq(vals, 1, Len(vals) - 2), Top)
  /\ todo' = Tail(todo)
  /\ UNCHANGED <<input, pos, outcome>>

Attach ==
  /\ Doing("attach") /\ CanAttach
  /\ LET core == IF Top.node = "with" THEN Top.kids[2] ELSE Top
         rest == SubSeq(vals, 1, Len(vals) - 2)
     IN  vals' = Append(rest, Node("with", NoWord, <<vals[Len(vals) - 1], core>>))
  /\ todo' = Tail(todo)
  /\ UNCHANGED <<input, pos, outcome>>

Else ==
  /\ Doing("after-if") /\ Ahead(0) = "else" /\ Ahead(1) = LBrace
  /\ Step(1, <<>>, Block(LBrace, "jock", RBrace) \o <<Build("else", 1)>>)

ElseIf ==
  /\ Doing("after-if") /\ Ahead(0) = "else" /\ Ahead(1) = "if"
  /\ Step(2, <<>>, <<Call("inner")>> \o Block(LBrace, "jock", RBrace)
                     \o <<Call("after-if"), Build("else-if", 3)>>)

Case ==
  /\ Doing("cases") /\ Ahead(0) \notin {RBrace, Underscore}
  /\ Step(0, <<>>, <<Call("jock"), Expect("-"), Expect(">"), Call("jock"), Expect(Semicolon),
                    Build("case", 2), Loop("cases", Head(todo).n + 1)>>)

\* The default case, which must be the last.
Default ==
  /\ Doing("cases") /\ Ahead(0) = Underscore
  /\ Step(1, <<>>, <<Expect("-"), Expect(">"), Call("jock"), Expect(Semicolon),
                    Call("last-case"), Build("default", 1), Build("cases", Head(todo).n + 1)>>)

LastCase == Doing("last-case") /\ Ahead(0) = RBrace /\ Step(0, <<>>, <<>>)

NoMoreCases ==
  Doing("cases") /\ Ahead(0) = RBrace /\ Step(0, <<>>, <<Build("cases", Head(todo).n)>>)
-----------------------------------------------------------------------------
(* What the functions do on their return, and errors.                      *)

Pending(do) == outcome.kind = "parsing" /\ todo # <<>> /\ Head(todo).do = do

ExpectPunctuator ==
  Pending("expect") /\ Ahead(0) = Head(todo).what /\ Step(1, <<>>, <<>>)

\* A cell whose second part is a cell is a longer tuple.
Tuple(kids) ==
  LET last == kids[Len(kids)]
  IN  Node("tuple", NoWord, IF last.node = "tuple"
                              THEN SubSeq(kids, 1, Len(kids) - 1) \o last.kids ELSE kids)

\* The type of a func or a method is made of its parameters and its result.  Of the
\* one that was read in front of them only the name is kept.
Declared(node, kids) ==
  Node(node, NoWord, <<Leaf("name", kids[1].word)>> \o Tail(kids))

\* The leaf of List and of Set tells which it is.  That of a class is its state,
\* and only the name of the type tells whose.
Container(kids) ==
  Node("jype", kids[1].word,
       IF kids[1].word \in {"List", "Set"} THEN kids ELSE <<Leaf("state", NoWord), kids[2]>>)

Made(node, kids) ==
  CASE node = "tuple" -> Tuple(kids)
    [] node \in {"func", "method"} -> Declared(node, kids)
    [] node = "container" -> Container(kids)
    [] OTHER -> Node(node, NoWord, kids)

Return ==
  /\ Pending("build") \/ Pending("rename")
  /\ LET item == Head(todo)
         rest == SubSeq(vals, 1, Len(vals) - item.n)
         kids == SubSeq(vals, Len(vals) - item.n + 1, Len(vals))
     IN  vals' = Append(rest, IF item.do = "rename" THEN [Top EXCEPT !.word = item.what]
                                                    ELSE Made(item.what, kids))
  /\ todo' = Tail(todo)
  /\ UNCHANGED <<input, pos, outcome>>

\* The errors, each at the token where it is met.
Unexpected ==
  \/ Doing("jock") /\ AtEnd /\ Stop(0)
  \/ Doing("inner") /\ (AtEnd \/ Ahead(0) \in Keyword \ InnerKeyword) /\ Stop(0)
  \/ Doing("body") /\ (AtEnd \/ Ahead(0) = RBrace) /\ Stop(0)
  \/ Doing("axis") /\ Ahead(0) \notin Number /\ Stop(0)
  \/ Doing("wing") /\ Ahead(0) = "." /\ Ahead(1) \notin Names /\ Stop(1)
  \/ Doing("punctuator") /\ Ahead(0) \notin {"+", "?", "$", "&", LBrace, "(", "["} /\ Stop(0)
  \/ Doing("jype") /\ AtEnd /\ Stop(0)
  \/ Doing("keyword") /\ Ahead(0) \in {"else", "as"} /\ Stop(0)
  \/ Keyworded("import") /\ Ahead(1) \notin Name /\ Stop(1)
  \/ Keyworded("import") /\ Ahead(1) \in Name /\ Ahead(2) = "as" /\ Ahead(3) \notin Name
       /\ Stop(3)
  \/ Doing("fields") /\ Ahead(0) \notin Names \cup {RBrace} /\ Stop(0)
  \/ Doing("attach") /\ ~CanAttach /\ Stop(0)
  \/ Doing("after-if") /\ Ahead(0) # "else" /\ Stop(0)
  \/ Doing("after-if") /\ Ahead(0) = "else" /\ Ahead(1) \notin {LBrace, "if"} /\ Stop(1)
  \/ Doing("last-case") /\ Ahead(0) # RBrace /\ Stop(0)
  \/ Pending("expect") /\ Ahead(0) # Head(todo).what /\ Stop(0)
  \/ outcome.kind = "parsing" /\ todo = <<>> /\ ~AtEnd /\ Stop(0)

Reserved ==
  /\ Doing("unreserved") /\ Top.word \in {"List", "Set"}
  /\ outcome' = [kind |-> "reserved", at |-> pos]
  /\ UNCHANGED <<input, pos, todo, vals>>

Parse ==
  /\ outcome.kind = "parsing" /\ todo = <<>> /\ AtEnd
  /\ outcome' = [kind |-> "parsed", at |-> 0]
  /\ UNCHANGED <<input, pos, todo, vals>>

Expression ==
  \/ MatchJock \/ MatchInnerJock \/ MatchJockBody \/ Infix \/ NoInfix \/ MatchLiteral
  \/ MatchAxis \/ Element \/ LastElement \/ MatchStartName \/ Wing \/ LastWing \/ Edit
  \/ NameCall \/ PlainName \/ MatchCallArg \/ Unary \/ Again \/ AxisLimb \/ AxisCall
  \/ SetOrList \/ Parenthesis \/ MatchPairInnerJock \/ LambdaCall \/ MatchLambda
  \/ NoParameter \/ Parameter \/ Result
Typing ==
  \/ QualifiedJype \/ CellJype \/ SecondJype \/ TypeJype \/ LeafJype \/ MatchJypeLeaf
  \/ AxisJype \/ PlainMetatype \/ Metatype
Statement ==
  \/ MatchKeyword \/ ThisOrCrash \/ Import \/ Object \/ Field \/ LastField \/ Unreserved
  \/ Method \/ LastMethod \/ Attach \/ Else \/ ElseIf \/ Case \/ Default \/ LastCase
  \/ NoMoreCases

Next == Expression \/ Typing \/ Statement \/ ExpectPunctuator \/ Return \/ Unexpected
          \/ Reserved \/ Parse

Spec == Init /\ [][Next]_vars

\* The parser is called and runs until it returns.
FairSpec == Spec /\ WF_vars(Next)
=============================================================================
