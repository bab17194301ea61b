----------------------------- MODULE MCCompiler -----------------------------
(***************************************************************************)
(* Small programs, on which the compiler and its meaning are compared, and *)
(* the Nock that the repository's own tests expect of some.                *)
(*                                                                         *)
(* The programs of MCSources keep to what the compiler gets right.  They   *)
(* do not: give a parameter the name of a variable; bind a lambda with let *)
(* (a name is looked up in the types of its parameter and of its context); *)
(* call $ with an argument after a let; assign a value of another shape;   *)
(* give an object several arms, or one that is a lambda; use an inline     *)
(* lambda's argument to look up a name; use lists or sets.                 *)
(***************************************************************************)
EXTENDS Straight, FiniteSetsExt

\* What each definition is to itself.  The LET keeps TLC from following the
\* definitions for ever when it counts how often each is evaluated.
MCSlot(axis, n) == LET it == Slot(axis, n) IN it
MCHax(axis, v, n) == LET it == Hax(axis, v, n) IN it
MCTar(s, f, fuel) == LET it == Tar(s, f, fuel) IN it
MCPath(axis) == LET it == Path(axis) IN it
MCTypeAtPath(t, path) == LET it == TypeAtPath(t, path) IN it
MCFindName(t, name, axis) == LET it == FindName(t, name, axis) IN it
MCFindBuc(t, axis) == LET it == FindBuc(t, axis) IN it
MCFollowLimbs(t, limbs, i, ret, arms) == LET it == FollowLimbs(t, limbs, i, ret, arms) IN it
MCUnify(t, u) == LET it == Unify(t, u) IN it
MCHasError(n) == LET it == HasError(n) IN it
MCAutoconsTree(nocks) == LET it == AutoconsTree(nocks) IN it
MCDefault(t) == LET it == Default(t) IN it
MCResolveWing(wings) == LET it == ResolveWing(wings) IN it
MCHuntType(t, axis) == LET it == HuntType(t, axis) IN it
MCListNoun(ns) == LET it == ListNoun(ns) IN it
MCSetNoun(ns) == LET it == SetNoun(ns) IN it
MCMint(j, t) == LET it == Mint(j, t) IN it
MCHuntValue(pattern, t, axis) == LET it == HuntValue(pattern, t, axis) IN it
MCIsData(v) == LET it == IsData(v) IN it
MCFieldPath(t, name) == LET it == FieldPath(t, name) IN it
MCPart(v, path) == LET it == Part(v, path) IN it
MCWithPart(v, path, w) == LET it == WithPart(v, path, w) IN it
MCFieldsPath(t, limbs) == LET it == FieldsPath(t, limbs) IN it
MCDefaultValue(t) == LET it == DefaultValue(t) IN it
MCMeans(j, env, fuel) == LET it == Means(j, env, fuel) IN it
MCIsNoun(n) == LET it == IsNoun(n) IN it
MCClosed(j, types) == LET it == Closed(j, types) IN it
MCNotALoop(j) == LET it == NotALoop(j) IN it
MCHasType(v, t) == LET it == HasType(v, t) IN it
MCKeepsTypes(j, t) == LET it == KeepsTypes(j, t) IN it
-----------------------------------------------------------------------------
N(n) == [j |-> "atom", n |-> n]
V(name) == [j |-> "limb", limbs |-> <<NameL(name)>>]
F(name, field) == [j |-> "limb", limbs |-> <<NameL(name), NameL(field)>>]
P(p, q) == [j |-> "cell", p |-> p, q |-> q]
Inc(e) == [j |-> "increment", val |-> e]
Eq(a, b) == [j |-> "eq", a |-> a, b |-> b]
If(c, t, e) == [j |-> "if", cond |-> c, then |-> t, after |-> e]
Call(f, arg) == [j |-> "call", func |-> V(f), arg |-> Some(arg)]
CallOn(f, arg) == [j |-> "call", func |-> f, arg |-> Some(arg)]
Buc == [j |-> "limb", limbs |-> <<AxisL(0)>>]
Recur0 == [j |-> "call", func |-> Buc, arg |-> Nothing]
RecurOn(arg) == CallOn(Buc, arg)
Fun(x, out, body) == [j |-> "lambda", inp |-> Some(Named(AtomJ, x)), out |-> out,
                      body |-> body, context |-> Nothing]
PQ == CellJ(Named(AtomJ, "p"), Named(AtomJ, "q"))

Let(name, e, next) == [j |-> "let", typ |-> Named(NoneJ, name), val |-> e, next |-> next]
LetPQ(name, e, next) == [j |-> "let", typ |-> Named(PQ, name), val |-> e, next |-> next]
Set(limbs, e, next) == [j |-> "edit", limb |-> limbs, val |-> e, next |-> next]
SetV(name, e, next) == Set(<<NameL(name)>>, e, next)
Func(f, x, out, body, next) ==
  [j |-> "func", typ |-> Named(LambdaJ(Some(Named(AtomJ, x)), out, Nothing), f),
   body |-> Fun(x, out, body), next |-> next]
Assert(c, next) == [j |-> "assert", cond |-> c, then |-> next]
Loop(next) == [j |-> "loop", next |-> next]
Say(e, next) == [j |-> "print", body |-> e, next |-> next]
Object(arms, ctx, next) ==
  [j |-> "compose", p |-> [j |-> "object", p |-> arms, q |-> ctx], q |-> next]
This == Some([j |-> "limb", limbs |-> <<AxisL(1)>>])
ArmOf(name, body) == [name |-> name, body |-> body]
-----------------------------------------------------------------------------
\* The statements, of which `next` is the rest of the program.
Statements ==
  {"let a", "let b", "let a again", "let c", "edit a", "edit b", "edit c", "edit c.q",
   "f increments", "f captures", "f recurs", "f counts", "f assigns", "g calls f", "call f",
   "h is f", "assert", "loop", "loop with argument", "object", "print", "inline lambda"}

Statement(s, next) ==
  CASE s = "let a" -> Let("a", N(1), next)
    [] s = "let b" -> Let("b", P(N(2), V("a")), next)
    [] s = "let a again" -> Let("a", Inc(V("a")), next)
    [] s = "let c" -> LetPQ("c", P(N(3), V("a")), next)
    [] s = "edit a" -> SetV("a", N(4), next)
    [] s = "edit b" -> SetV("b", P(V("a"), Inc(V("a"))), next)
    [] s = "edit c" -> SetV("c", P(F("c", "q"), F("c", "p")), next)
    [] s = "edit c.q" -> Set(<<NameL("c"), NameL("q")>>, Inc(V("a")), next)
    [] s = "f increments" -> Func("f", "x", AtomJ, Inc(V("x")), next)
    [] s = "f captures" ->
         Func("f", "x", CellJ(NoneJ, AtomJ), P(V("a"), V("x")), next)
    [] s = "f recurs" ->
         Func("f", "x", AtomJ, If(Eq(V("x"), N(3)), V("a"), RecurOn(Inc(V("x")))), next)
    [] s = "f counts" ->
         Func("f", "x", AtomJ,
              Let("d", N(0),
                  Loop(If(Eq(V("x"), V("d")), V("d"),
                          SetV("d", Inc(V("d")), Recur0)))), next)
    [] s = "f assigns" -> Func("f", "x", AtomJ, SetV("a", V("x"), V("a")), next)
    [] s = "h is f" -> Let("h", V("f"), next)
    [] s = "g calls f" -> Func("g", "y", NoneJ, P(V("y"), Call("f", Inc(V("y")))), next)
    [] s = "call f" -> Let("e", Call("f", N(2)), next)
    [] s = "assert" -> Assert(Eq(V("a"), N(1)), next)
    [] s = "loop" ->
         Loop(If(Eq(V("a"), N(4)), next, SetV("a", Inc(V("a")), Recur0)))
    [] s = "loop with argument" ->
         Let("n", N(0), Loop(If(Eq(V("n"), V("a")), next, RecurOn(Inc(V("n"))))))
    [] s = "object" -> Object(<<ArmOf("k", P(V("a"), N(5)))>>, This, next)
    [] s = "print" -> Say(V("a"), next)
    [] s = "inline lambda" ->
         Let("b", CallOn(Fun("x", CellJ(NoneJ, AtomJ), P(V("x"), V("a"))), P(N(6), N(7))), next)

Results ==
  <<V("a"), P(V("b"), V("a")), P(V("c"), F("c", "q")), Call("f", V("a")), Call("g", V("a")),
    P(V("k"), V("a")), Call("h", V("a")), P(V("e"), V("a")),
    If(Eq(V("a"), N(4)), P(V("a"), V("a")), Call("f", N(0)))>>

\* The statements that depend most on those before them.
LastStatements ==
  {"let a again", "edit a", "edit b", "edit c", "edit c.q", "f captures", "f recurs",
   "f counts", "f assigns", "g calls f", "call f", "h is f", "loop"}

\* Up to three statements, the third one of LastStatements, after a first
\* "let a", and an expression.
MCSources ==
  {ss \in UNION {[1..n -> Statements] : n \in 0..3} :
     Len(ss) = 3 => ss[3] \in LastStatements} \X (DOMAIN Results)

RECURSIVE Chain(_, _)
Chain(ss, result) == IF ss = <<>> THEN result ELSE Statement(ss[1], Chain(Tail(ss), result))

\* The expression of a source of MCSources.
MCParsed(s) == Chain(<<"let a">> \o s[1], Results[s[2]])
-----------------------------------------------------------------------------
(* The shorter sources without functions, loops and objects (see Straight). *)

StraightStatements ==
  {"let a", "let b", "let a again", "edit a", "edit b", "assert", "print"}
StraightSources == (UNION {[1..n -> StraightStatements] : n \in 0..2}) \X {1, 2}

MCName == {"a", "b"}

\* The parts of an expression; that an assignment is to a name is one.
Parts(j) ==
  {j[f] : f \in DOMAIN j \cap {"p", "q", "val", "a", "b", "cond", "then", "body", "next"}}
    \cup (IF j.j = "edit" THEN {[j |-> "limb", limbs |-> j.limb]} ELSE {})

RECURSIVE WithParts(_)
WithParts(j) == {j} \cup UNION {WithParts(p) : p \in Parts(j)}
MCExpr == UNION {WithParts(MCParsed(s)) : s \in StraightSources}

RECURSIVE Height(_)
Height(j) == 1 + Max({0} \cup {Height(p) : p \in Parts(j)})
MCSize == [j \in MCExpr |-> Height(j)]

RECURSIVE LetsOf(_)
LetsOf(j) ==
  LET within == Max({0} \cup {LetsOf(p) : p \in Parts(j)})
  IN  IF j.j = "let" THEN Max({within, LetsOf(j.next) + 1}) ELSE within
MCNest == [j \in MCExpr |-> LetsOf(j)]

\* The theorems are about these programs.
ASSUME GivenAsAssumed ==
  \A s \in StraightSources :
    /\ s \in MCSources
    /\ MCParsed(s) \in MCExpr /\ MCNest[MCParsed(s)] + 1 <= AxisBits
    /\ Closed(MCParsed(s), <<>>) => KeepsTypes(MCParsed(s), AtomJ)

\* An assignment of another shape is compiled, and the type does not describe the value.
ASSUME AnotherShape ==
  LET shaped == Let("a", N(1), SetV("a", P(N(2), N(3)), V("a")))
      made == Mint(shaped, AtomJ)
  IN  /\ ~KeepsTypes(shaped, AtomJ) /\ ~HasError(made.nock)
      /\ ~HasType(Tar(Atom(0), made.nock, Fuel), made.typ)
-----------------------------------------------------------------------------
(* The tests of crates/jock-compiler/src/tests.rs.                         *)

K(n) == Constant(Atom(n))

\* test_nested_let, test_let_edit, test_eval, test_func_call,
\* test_inline_lambda_call, test_multi_limb, test_if_elseif_else
ASSUME CompiledAsTested ==
  /\ CompiledCode(Let("x", N(1), Let("y", N(2), P(V("x"), V("y")))))
       = Push(K(1), Push(K(2), Autocons(Axis(6), Axis(2))))
  /\ CompiledCode(Let("a", N(0), SetV("a", N(1), V("a"))))
       = Push(K(0), Then(Edit(2, K(1), Axis(1)), Axis(2)))
  /\ CompiledCode(Let("a", [j |-> "eval", p |-> P(N(42), N(55)), q |-> P(N(0), N(2))], V("a")))
       = Push(Compose(Autocons(K(42), K(55)), Autocons(K(0), K(2))), Axis(2))
  /\ CompiledCode(Func("a", "b", AtomJ, Inc(V("b")), Call("a", N(23))))
       = Push(Push(K(0), Autocons(Constant(Increment(Axis(6))), Axis(1))),
              Push(Axis(2), Slam(K(23), 3, 2)))
  /\ CompiledCode(CallOn(Fun("b", AtomJ, Inc(V("b"))), N(41)))
       = Then(Push(K(0), Autocons(Constant(Increment(Axis(6))), Axis(1))), Slam(K(41), 3, 1))
  /\ CompiledCode([Let("a", P(N(52), P(N(30), N(42))),
                       [j |-> "limb", limbs |-> <<NameL("a"), NameL("q"), NameL("v")>>])
                   EXCEPT !.typ = Named(CellJ(Named(AtomJ, "p"), Named(CellJ(
                                    Named(AtomJ, "k"), Named(AtomJ, "v")), "q")), "a")])
       = Push(Autocons(K(52), Autocons(K(30), K(42))), Axis(11))
  /\ CompiledCode(Let("a", N(3), If(Eq(V("a"), N(3)), N(42),
                                    If(Eq(V("a"), N(5)), N(17), N(15)))))
       = Push(K(3), IfThenElse(Equals(Axis(2), K(3)), K(42),
                               IfThenElse(Equals(Axis(2), K(5)), K(17), K(15))))

\* crates/jockt/hoon/tests/lib/dec.hoon: what the reference compiler makes of it.
ASSUME CompiledAsByHoon ==
  CompiledCode(
    Func("dec", "a", AtomJ,
         Let("b", N(0),
             Loop(If(Eq(V("a"), Inc(V("b"))), V("b"), SetV("b", Inc(V("b")), Recur0)))),
         Call("dec", N(43))))
    = Push(Push(K(0),
                Autocons(Constant(
                  Push(K(0),
                       Push(Constant(IfThenElse(
                              Equals(Axis(30), Increment(Axis(6))),
                              Axis(6),
                              Then(Edit(6, Increment(Axis(6)), Axis(1)), Fire(2, Axis(1))))),
                            Fire(2, Axis(1))))),
                  Axis(1))),
           Push(Axis(2), Slam(K(43), 3, 2)))
-----------------------------------------------------------------------------
(* Programs that the compiler gets wrong.                                  *)

\* crates/jockt/hoon/lib/tests/compose-cores.jock, and smaller objects.
ObjectSources == {"compose-cores", "two values", "one lambda"}
ObjectParsed(s) ==
  CASE s = "compose-cores" ->
         Func("g", "a", AtomJ, N(29),
              Object(<<ArmOf("b", Fun("c", AtomJ, Call("g", N(5)))), ArmOf("c", N(89))>>,
                     This, Call("b", N(3))))
    [] s = "two values" -> Object(<<ArmOf("b", N(5)), ArmOf("c", N(89))>>, This, V("b"))
    [] s = "one lambda" ->
         Object(<<ArmOf("b", Fun("x", AtomJ, Inc(V("x"))))>>, This, Call("b", N(3)))

\* An inline lambda that is called on a variable.
InlineSources == {"lambda (x:@) -> @ {x}(a)"}
InlineParsed(s) == Let("a", N(5), CallOn(Fun("x", AtomJ, V("x")), V("a")))
=============================================================================
