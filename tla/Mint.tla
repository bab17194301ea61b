-------------------------------- MODULE Mint --------------------------------
(***************************************************************************)
(* mint (crates/jock-compiler/src/compiler.rs): the Nock and the type of a *)
(* Jock expression, given the type of the subject.                         *)
(*                                                                         *)
(* An expression is a record whose field j names its variant; the other    *)
(* fields are named as in ast.rs.  An "else" is the expression itself, and *)
(* an "else if" another "if".  Texts are left out, and with them the sorts *)
(* of atoms.  An error ends the compilation of the whole program (`?` at   *)
(* every call): here it is a piece of code that no formula is made of.     *)
(***************************************************************************)
EXTENDS Nock, Subject

CONSTANTS
  \* The definitions of this module, where they call themselves (see Nock).
  RecHasError(_), RecAutoconsTree(_), RecDefault(_), RecResolveWing(_),
  RecHuntType(_, _), RecListNoun(_), RecSetNoun(_), RecMint(_, _),
  RecHuntValue(_, _, _)

CONSTANTS
  ClassNames,  \* the names that start with a capital
  Slog         \* the atom "slog"

\* "" is the name of what has none.
ASSUME MintAssumption == Slog \in Nat /\ "" \notin ClassNames

Error == [kind |-> "error"]
Minted(nock, typ) == [nock |-> nock, typ |-> typ]
Failed == Minted(Error, NoneJ)

\* Mutant: an error in the tail of a cell is not passed on.
HasErrorInHead(n) == n = Error \/ (IsCell(n) /\ RecHasError(n.p))

HasError(n) ==
  CASE n = Error -> TRUE
    [] IsCell(n) -> RecHasError(n.p) \/ RecHasError(n.q)
    [] OTHER -> FALSE

\* build_autocons_tree: [a [b c]]
AutoconsTree(nocks) ==
  IF Len(nocks) = 1 THEN nocks[1] ELSE Autocons(nocks[1], RecAutoconsTree(Tail(nocks)))

Default(t) ==
  CASE t.kind = "cell" -> Autocons(RecDefault(t.p), RecDefault(t.q))
    [] t.kind \in {"fork", "state"} -> RecDefault(t.p)
    [] IsLambda(t) -> IF t.inp = Nothing THEN Axis(0)
                      ELSE Autocons(Constant(Atom(0)), RecDefault(t.inp[1]))
    [] OTHER -> Constant(Atom(0))

ResolveWing(wings) ==
  LET w == wings[Len(wings)]
      front == RecResolveWing(SubSeq(wings, 1, Len(wings) - 1))
  IN  CASE Len(wings) = 1 /\ IsLeg(w) -> Axis(w.core)
        [] Len(wings) = 1 /\ ~IsLeg(w) -> Fire(w.arm, Axis(w.core))
        [] Len(wings) > 1 /\ IsLeg(w) -> IF w.core = 1 THEN front ELSE Then(front, Axis(w.core))
        [] OTHER -> Push(front, Fire(w.arm, Axis(w.core)))

\* Mutant: the argument is computed on the subject that the gate was pushed on.
SlamOnPushed(arg, from, gate) == Fire(2, Edit(6, arg, Axis(gate)))

\* Call the gate at gate with what arg computes from the subject, at from.
Slam(arg, from, gate) == Fire(2, Edit(6, Then(Axis(from), arg), Axis(gate)))

ReturnType(t) ==
  CASE IsLambda(t) -> t.out
    [] IsArms(t) -> IF t.arms[1] = <<>> THEN NoneJ ELSE t.arms[1][1].typ
    [] OTHER -> NoneJ

\* The type of a name bound by let: a class name where the value is an
\* instance, else the declared type where the value has it.
LetType(declared, value, t) ==
  IF \/ IsClassRef(declared) /\ GetLimb(t, declared.limbs) # Nothing
     \/ value.name \in ClassNames
  THEN Some(Named(LimbJ(<<TypeL(value.name)>>), declared.name))
  ELSE Unify(declared, value)

\* hunt_type: does the value at an axis have the shape of the pattern's type?
\* Every leaf matches.
HuntType(t, a) ==
  IF t.kind = "cell"
  THEN IfThenElse(CellTest(Axis(a)),
                  IfThenElse(RecHuntType(t.p, Wrap(2 * a)), RecHuntType(t.q, Wrap(2 * a + 1)),
                             Constant(False)),
                  Constant(False))
  ELSE Constant(True)

\* The body of the loop or of the deferred code, as a core without input.
Suspended(t) == LambdaJ(Nothing, NoneJ, Some(t))

\* The right-leaning tree that stands for a list or a set of constants.
ListNoun(ns) == IF ns = <<>> THEN Atom(0) ELSE Cell(ns[1], RecListNoun(Tail(ns)))
SetNoun(ns) == IF ns = <<>> THEN Atom(0)
               ELSE Cell(ns[1], Cell(Atom(0), RecSetNoun(Tail(ns))))
-----------------------------------------------------------------------------

\* hunt_value: is the value at an axis the one of the pattern?
HuntValue(pattern, t, a) ==
  CASE pattern.j = "cell" ->
         IfThenElse(CellTest(Axis(a)),
                    IfThenElse(RecHuntValue(pattern.p, t, Wrap(2 * a)),
                               RecHuntValue(pattern.q, t, Wrap(2 * a + 1)),
                               Constant(False)),
                    Constant(False))
    [] pattern.j = "atom" -> Equals(Constant(Atom(pattern.n)), Axis(a))
    [] OTHER -> Equals(Constant(RecMint(pattern, t).nock), Axis(a))

\* Match and switch.  The value, like the bodies, is embedded as a constant.
MintMatch(j, t) ==
  LET quoted(e) == Then(Axis(3), Constant(RecMint(e, t).nock))
      pattern(i) == j.cases[i].pattern
      test(i) == CASE j.j = "switch" -> HuntValue(pattern(i), t, 2)
                   [] HasError(RecMint(pattern(i), t).nock) -> Error
                   [] OTHER -> HuntType(RecMint(pattern(i), t).typ, 2)
      default == IF j.default = Nothing THEN Axis(0) ELSE quoted(j.default[1])
      n == Len(j.cases)
      chain[k \in 0..n] ==
        IF k = 0 THEN default
        ELSE IfThenElse(test(n + 1 - k), quoted(j.cases[n + 1 - k].body), chain[k - 1])
  IN  IF n = 0 THEN Failed ELSE Minted(Push(Constant(RecMint(j.value, t).nock), chain[n]), t)

\* The code of the arms of a class or an object, each compiled in a core of
\* untyped arms, and the core that results.
MintArms(arms, context) ==
  LET untyped == [i \in DOMAIN arms |-> [name |-> arms[i].name, typ |-> NoneJ]]
      minted == [i \in DOMAIN arms |-> RecMint(arms[i].body, ArmsJ(untyped, context))]
  IN  [battery |-> Constant(AutoconsTree([i \in DOMAIN arms |-> minted[i].nock])),
       types |-> [i \in DOMAIN arms |-> [name |-> arms[i].name, typ |-> minted[i].typ]]]

MintClass(j, t) ==
  LET inner == IF j.state.kind = "state" THEN j.state.p ELSE j.state
      core == MintArms(j.arms, Some(CellJ(inner, t)))
  IN  IF j.arms = <<>> THEN Failed
      ELSE Minted(Push(Default(j.state), Autocons(core.battery, Axis(1))),
                  CellJ(Named(ArmsJ(core.types, Some(j.state)), j.state.name), t))

MintObject(j, t) ==
  LET context == RecMint(j.q[1], t)
      type == IF j.q = Nothing THEN Nothing ELSE Some(context.typ)
      core == MintArms(j.p, type)
  IN  IF j.p = <<>> THEN Failed
      ELSE Minted(IF j.q = Nothing THEN core.battery
                                   ELSE Autocons(core.battery, context.nock),
                  ArmsJ(core.types, type))

\* A lambda is a gate [code [default context]].  One that returns an instance
\* puts what its body computes in the sample of the door it was made in.
MintLambda(j, t) ==
  LET context == IF j.context = Nothing THEN Minted(Axis(1), t) ELSE RecMint(j.context[1], t)
      typ == LambdaJ(j.inp, j.out, Some(context.typ))
      body == RecMint(j.body, typ).nock
      code == IF j.out.name \in ClassNames
              THEN Push(Axis(7), Edit(6, Then(Axis(3), body), Axis(2)))
              ELSE body
      sample == IF j.inp = Nothing THEN Constant(Atom(0)) ELSE Default(j.inp[1])
  IN  Minted(Push(sample, Autocons(Constant(code), context.nock)), typ)
-----------------------------------------------------------------------------
(* Calls.  arg is the code of the argument, if there is one.               *)

\* $ calls the code found by find_buc, or, with an argument, that of the
\* whole subject.
MintSelfCall(arg, t) ==
  LET buc == FindBuc(t, 1)
  IN  CASE buc = Nothing -> Failed
        [] arg = Nothing -> Minted(Fire(2, Axis(buc[1])), NoneJ)
        [] OTHER -> Minted(Slam(arg[1], 1, 1), NoneJ)

\* Without an argument nothing is called: the gate itself is the value.
MintCallFunction(found, arg) ==
  LET gate == ResolveWing(found.wings)
  IN  Minted(IF arg = Nothing THEN gate ELSE Push(gate, Slam(arg[1], 3, 2)),
             ReturnType(found.typ))

\* The core of the class, with the argument as its sample.
MintConstructor(found, arg) ==
  IF arg = Nothing THEN Failed
  ELSE Minted(Push(Axis(found.wings[1].core \div 2), Edit(6, Then(Axis(3), arg[1]), Axis(2))),
              found.typ)

MintMethodCall(found, limbs, arg, t) ==
  LET class == GetLimb(t, found.typ.limbs)
      method == AxisAtName(class[1].typ, limbs[2].of)
      arm == IF IsLeg(method[1]) THEN method[1].core ELSE method[1].arm
      instance == ResolveWing(found.wings)
  IN  IF class = Nothing \/ limbs[2].sort # "name" \/ method = Nothing THEN Failed
      ELSE Minted(IF arg = Nothing THEN instance
                  ELSE Push(Then(instance, Fire(arm, Axis(1))), Slam(arg[1], 3, 2)),
                  NoneJ)

MintCallLimb(limbs, arg, t) ==
  LET found == GetLimb(t, limbs)
      typ == found[1].typ
  IN  CASE IsAxis(limbs[1], 0) -> MintSelfCall(arg, t)
        [] found = Nothing -> Failed
        [] IsClassRef(typ) /\ Len(limbs) > 1 -> MintMethodCall(found[1], limbs, arg, t)
        [] \/ typ.kind = "cell" \/ IsClassRef(typ)
           \/ typ.kind # "core" /\ limbs[1].sort = "type" ->
             MintConstructor(found[1], arg)
        [] OTHER -> MintCallFunction(found[1], arg)

MintCall(j, t) ==
  LET arg == IF j.arg = Nothing THEN Nothing ELSE Some(RecMint(j.arg[1], t).nock)
      lambda == MintLambda(j.func, t).nock
  IN  CASE j.func.j = "limb" -> MintCallLimb(j.func.limbs, arg, t)
        [] j.func.j = "lambda" ->
             Minted(Then(lambda, IF arg = Nothing THEN Fire(2, Axis(1)) ELSE Slam(arg[1], 3, 1)),
                    j.func.out)
        [] OTHER -> Failed

\* An operator or an ordering is a call of the library named hoon.  The
\* parser always gives an operator its second operand.
HoonFunctions == {"lth", "gth", "lte", "gte", "add", "sub", "mul", "div", "mod", "pow"}

HoonCall(name, a, b) ==
  [j |-> "call", func |-> [j |-> "limb", limbs |-> <<NameL("hoon"), NameL(name)>>],
   arg |-> Some([j |-> "cell", p |-> a, q |-> b])]
-----------------------------------------------------------------------------
\* Mutant: the type of a let is that of its value.
MintLetAsValue(j, t) ==
  LET val == RecMint(j.val, t)
      bound == LetType(j.typ, val.typ, t)
  IN  IF bound = Nothing THEN Failed
      ELSE Minted(Push(val.nock, RecMint(j.next, CellJ(bound[1], t)).nock), bound[1])

MintLet(j, t) ==
  LET val == RecMint(j.val, t)
      bound == LetType(j.typ, val.typ, t)
      then == RecMint(j.next, CellJ(bound[1], t))
  IN  IF bound = Nothing THEN Failed ELSE Minted(Push(val.nock, then.nock), then.typ)

\* The declared type of a function, where its body has it.
MintFunc(j, t) ==
  LET body == RecMint(j.body, t)
      bound == Unify(j.typ, body.typ)
      then == RecMint(j.next, CellJ(IF bound = Nothing THEN body.typ ELSE bound[1], t))
  IN  Minted(Push(body.nock, then.nock), then.typ)

\* Mutant: an assignment to an unknown name is dropped.
MintEditUnchecked(j, t) ==
  LET found == GetLimb(t, j.limb)
      then == RecMint(j.next, t)
  IN  IF found = Nothing THEN then
      ELSE Minted(Then(Edit(WingAxis(found[1].wings[1]), RecMint(j.val, t).nock, Axis(1)), then.nock),
                  then.typ)

MintEdit(j, t) ==
  LET found == GetLimb(t, j.limb)
      then == RecMint(j.next, t)
  IN  IF found = Nothing THEN Failed
      ELSE Minted(Then(Edit(WingAxis(found[1].wings[1]), RecMint(j.val, t).nock, Axis(1)), then.nock),
                  then.typ)

MintLimb(limbs, t) ==
  LET found == GetLimb(t, limbs)
  IN  IF found = Nothing THEN Failed
      ELSE Minted(ResolveWing(found[1].wings), found[1].typ)

Mint(j, t) ==
  LET p == RecMint(j.p, t)
      q == RecMint(j.q, t)
      qOfP == RecMint(j.q, p.typ)
      val == RecMint(j.val, t)
      cond == RecMint(j.cond, t)
      then == RecMint(j.then, t)
      after == RecMint(j.after, t)
      a == RecMint(j.a, t)
      b == RecMint(j.b, t)
      body == RecMint(j.body, t)
      next == RecMint(j.next, t)
      suspended == RecMint(j.next, Suspended(t))
      imported == RecMint(j.next, CellJ(j.name, t))
      elements == [i \in DOMAIN j.val |-> RecMint(j.val[i], t).nock]
  IN  CASE j.j = "atom" -> Minted(Constant(Atom(j.n)), AtomJ)
        [] j.j = "limb" -> MintLimb(j.limbs, t)
        [] j.j = "cell" -> Minted(Autocons(p.nock, q.nock), CellJ(p.typ, q.typ))
        [] j.j = "let" -> MintLet(j, t)
        [] j.j = "func" -> MintFunc(j, t)
        [] j.j = "method" -> body
        [] j.j = "class" -> MintClass(j, t)
        [] j.j = "edit" -> MintEdit(j, t)
        [] j.j = "increment" -> Minted(Increment(val.nock), AtomJ)
        [] j.j = "cell_check" -> Minted(CellTest(val.nock), AtomJ)
        [] j.j = "compose" -> Minted(Then(p.nock, qOfP.nock), qOfP.typ)
        [] j.j = "object" -> MintObject(j, t)
        [] j.j = "eval" -> Minted(Compose(p.nock, q.nock), NoneJ)
        [] j.j = "loop" -> Minted(Push(Constant(suspended.nock), Fire(2, Axis(1))), t)
        [] j.j = "defer" -> Minted(Autocons(Constant(suspended.nock), Axis(1)), t)
        [] j.j = "if" -> Minted(IfThenElse(cond.nock, then.nock, after.nock),
                                ForkJ(then.typ, after.typ))
        [] j.j = "assert" -> Minted(IfThenElse(cond.nock, then.nock, Axis(0)), then.typ)
        [] j.j \in {"match", "switch"} -> MintMatch(j, t)
        [] j.j = "call" -> MintCall(j, t)
        [] j.j = "eq" -> Minted(Equals(a.nock, b.nock), AtomJ)
        [] j.j = "ne" -> Minted(IfThenElse(Equals(a.nock, b.nock), Constant(False), Constant(True)),
                                AtomJ)
        [] j.j \in HoonFunctions -> RecMint(HoonCall(j.j, j.a, j.b), t)
        [] j.j = "lambda" -> MintLambda(j, t)
        [] j.j = "list" ->
             IF j.val = <<>> THEN Failed ELSE Minted(Constant(ListNoun(elements)), ListJ)
        [] j.j = "set" ->
             IF j.val = <<>> THEN Failed ELSE Minted(Constant(SetNoun(elements)), SetJ)
        [] j.j = "import" -> Minted(Push(Constant(Atom(0)), imported.nock), imported.typ)
        [] j.j = "print" ->
             Minted(Hint(Slog, Autocons(Constant(Atom(0)), Constant(body.nock)), next.nock), next.typ)
        [] j.j = "crash" -> Minted(Axis(0), t)

\* compile, with the default subject type.
CompiledCode(j) == Mint(j, AtomJ).nock
=============================================================================
