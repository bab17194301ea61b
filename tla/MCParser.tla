------------------------------ MODULE MCParser ------------------------------
(* Small instances of ParserSyntax: trees, written as the language is, and  *)
(* token sequences one edit away from a program.                            *)
EXTENDS ParserSyntax

MCName == {"a", "x"}
MCType == {"Foo", "List", "Set", "Uint", "Loob"}
MCNumber == {"2", "3"}
MCText == {"'s'"}

Of(node, kids) == Node(node, NoWord, kids)
Two == Leaf("atom", "2")
Three == Leaf("atom", "3")
Limb(names) == Of("limb", [i \in DOMAIN names |-> Leaf("name", names[i])])
A == Limb(<<"a">>)
Self == Leaf("axis", "0")

(* Types.                                                                   *)
Plain(leaf) == Jype(NoWord, Leaf("leaf", leaf))
Named(name, t) == [t EXCEPT !.word = name]
Holding(type, t) ==
  Node("jype", type, <<IF type \in {"List", "Set"} THEN Leaf("type", type)
                                                  ELSE Leaf("state", NoWord), t>>)
At == Plain("@")
XAt == Named("x", At)
Pair == Of("cell-type", <<XAt, Named("a", Plain("?"))>>)
Untyped(name) == Jype(name, Leaf("none", NoWord))
Types == {XAt, Named("x", Plain("#")), Named("x", Plain("Foo")),
          Named("x", Of("jype", <<Leaf("axis", "2")>>)), Pair, Named("x", Pair), Untyped("x"),
          Jype("Foo", Leaf("leaf", "Foo")), Jype("Uint", Leaf("leaf", "@")),
          Jype("Loob", Leaf("leaf", "?"))}
Containers == {Holding("List", At), Named("x", Holding("Set", Pair)),
               Named("a", Holding("List", Holding("Set", At))), Holding("Foo", XAt)}

(* Expressions with one or two expressions x, y in them.                    *)
Argument(t) == Of("lambda-argument", IF t = <<>> THEN <<At>> ELSE <<t[1], At>>)
Lambda(t, x) == Of("lambda", <<Argument(t), x>>)
ObjectOf(x, y) == Of("object", <<Leaf("name", "a"), Of("field", <<Leaf("name", "x"), x>>),
                                 Of("field", <<Leaf("name", "a"), y>>)>>)
ClassOf(x) == Of("class", <<Holding("Foo", Pair),
                   Of("method", <<Leaf("name", "x"), XAt, At, x>>),
                   Of("method", <<Leaf("name", "a"), Pair, At, x>>)>>)

Inside(x, y) ==
  {Of(op, <<x, y>>) : op \in Infixes} \cup
  {Of("call", <<A, x>>), Of("call", <<A, Of("tuple", <<x, y>>)>>),
   Of("call", <<Self, x>>), Of("call", <<Leaf("axis", "2"), x>>),
   Of("set", <<x>>), Of("set", <<x, y>>), Of("list", <<x>>), Of("list", <<x, y, y>>),
   Of("increment", <<x>>), Of("cell-check", <<x>>), Of("tuple", <<x, y>>),
   Of("tuple", <<x, y, y>>),
   Lambda(<<>>, x), Lambda(<<Pair>>, x), Of("call", <<Lambda(<<XAt>>, x)>>),
   Of("call", <<Lambda(<<XAt>>, x), Of("tuple", <<x, y>>)>>),
   ObjectOf(x, y), ClassOf(x), Of("with", <<x, ObjectOf(x, y)>>),
   Of("with", <<x, Lambda(<<XAt>>, y)>>)}

Small == {Two, Leaf("atom", "'s'"), A, Limb(<<"a", "Foo", "x">>), Leaf("axis", "1"),
          Leaf("axis", "2"), Leaf("crash", NoWord), Of("call", <<A>>), Of("call", <<Self>>)}
Inner == Small \cup UNION {Inside(x, Three) : x \in {Two, A}}

(* Statements around an expression x, and the expression y that is next.    *)
IfElse(x, y) == Of("if", <<x, y, Of("else", <<y>>)>>)
Cases(x, y) == Of("cases", <<Of("case", <<Two, x>>), Of("case", <<A, y>>),
                             Of("default", <<x>>)>>)
Around(x, y) ==
  {Of("let", <<XAt, x, y>>), Of("edit", <<Limb(<<"a", "x">>), x, y>>),
   Of("func", <<Leaf("name", "a"), XAt, At, x, y>>),
   IfElse(x, y), Of("if", <<Two, x, Of("else-if", <<x, y, Of("else", <<x>>)>>)>>),
   Of("assert", <<x, y>>), Of("compose", <<x, y>>), Of("print", <<x, y>>),
   Of("match", <<x, Cases(x, y)>>),
   Of("switch", <<Two, Of("cases", <<Of("case", <<Of("list", <<x>>), x>>)>>)>>),
   Of("eval", <<x, A>>), Of("import", <<Leaf("import", "a"), x>>),
   Of("loop", <<x>>), Of("defer", <<x>>)}

Typed(t) ==
  {Of("let", <<t, Two, A>>), Of("func", <<Leaf("name", "a"), t, t, Two, A>>),
   Of("class", <<Jype("Foo", Leaf("leaf", "Foo")), Of("method", <<Leaf("name", "x"), t, t, A>>)>>),
   Of("let", <<XAt, Of("lambda", <<Of("lambda-argument", <<XAt, t>>), Two>>), A>>)}

Statements == UNION {Around(x, y) : x \in Inner, y \in {A, Of("+", <<A, Two>>)}}
Nestings == UNION {Around(Two, y) : y \in Around(Two, A)}

Expected ==
  Inner \cup Statements \cup Nestings \cup UNION {Typed(t) : t \in Types \cup Containers}
  \cup UNION {Inside(x, Three) : x \in Inside(Two, A)}
  \cup {Of("-", <<A, x>>) : x \in Inside(Two, A)}

\* A name called with what begins with a parenthesis, somewhere in a tree.
RECURSIVE CallsWithParenthesis(_)
CallsWithParenthesis(t) ==
  \/ /\ t.node = "call" /\ Len(t.kids) = 2 /\ t.kids[1].node = "limb"
     /\ Arguments(t.kids[2])[2] = "("
  \/ \E i \in DOMAIN t.kids : CallsWithParenthesis(t.kids[i])

MCPrograms == {t \in Expected : ~CallsWithParenthesis(t)}
\* Programs of the language and what is one edit away from one of them.
Seeds ==
  {<<"let", "x", ":", "@", "=", "2", ";", "x">>,
   <<"let", "x", ":", "*", "=", "a", "*", "2", ";", "x">>,
   <<"func", "a", "(", "x", ":", "@", ")", "-", ">", "@", "{", "x", "}", ";", "a", "(", "2", ")">>,
   <<"if", "a", "=", "=", "2", "{", "2", "}", "else", "if", "a", "{", "3", "}",
     "else", "{", "x", "}">>,
   <<"(", "x", ":", "@", "-", ">", "@", ")", "{", "x", "}", "(", "2", ")">>,
   <<"class", "Foo", "(", "x", ":", "@", ")", "{",
     "a", "(", "x", ":", "@", ")", "-", ">", "*", "{", "x", "}",
     "x", "(", "a", ":", "@", ")", "-", ">", "@", "{", "2", "}", "}">>,
   <<"switch", "a", "{", "2", "-", ">", "3", ";", "_", "-", ">", "a", ";", "}">>,
   <<"with", "a", ";", "object", "{", "x", "=", "2", "}">>,
   <<"let", "a", ":", "List", "(", "(", "@", "&", "2", ")", ")", "=", "[", "a", ".", "x", "]",
     ";", "a">>,
   <<"import", "a", "as", "x", ";", "print", "(", "&", "2", "(", "x", ")", ")", ";", "recur">>,
   <<"a", "=", "(", "2", "*", "*", "3", ")", "-", "{", "?", "(", "a", ")", "}", ";", "$">>}
Others == {"a", "Foo", "Uint", "2", ";", ",", "(", ")", "{", "}", "-", ">", "=", ":", ".", "else"}
Edited(ts) ==
  {RemoveAt(ts, i) : i \in DOMAIN ts}
    \cup {InsertAt(ts, i, t) : i \in 1..(Len(ts) + 1), t \in Others}
    \cup {ReplaceAt(ts, i, t) : i \in DOMAIN ts, t \in Others}

MCInputs ==
  Written \cup {<<>>, <<"class", "List", "((", "@", ")", "{", "}">>}
    \cup {Lexed(ts) : ts \in Seeds \cup UNION {Edited(s) : s \in Seeds}}

MisreadPrograms == {t \in Expected : CallsWithParenthesis(t)}
=============================================================================
