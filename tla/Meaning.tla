------------------------------ MODULE Meaning ------------------------------
(***************************************************************************)
(* What a Jock program means, independently of Nock and of axes: the value *)
(* of an expression in an environment of bindings, the latest first.  It   *)
(* is the specification the compiler is checked against.                   *)
(*                                                                         *)
(* A value is a noun, or a cell of values, or a function: its parameter,   *)
(* its body and the environment it was made in.  Unspecified stands for    *)
(* what a program finds out about its own code and subject (functions that *)
(* are compared, axes, evaluated Nock), for what is not given a meaning    *)
(* here (classes, libraries, match and switch), and for a computation that *)
(* needs more than fuel calls within one another.                          *)
(***************************************************************************)
EXTENDS Mint

CONSTANTS
  \* The definitions of this module, where they call themselves (see Nock).
  RecIsData(_), RecFieldPath(_, _), RecPart(_, _), RecWithPart(_, _, _),
  RecFieldsPath(_, _), RecDefaultValue(_), RecMeans(_, _, _)

Unspecified == [kind |-> "unspecified"]
Closure(inp, body, env) == [kind |-> "closure", inp |-> inp, body |-> body, env |-> env]
Repeat(body) == [kind |-> "repeat", body |-> body]

\* The arm of an object, the i-th: its body runs in the object it is found in.
Thunk(body, i) == [kind |-> "thunk", body |-> body, i |-> i]

IsValue(v) == v.kind \in {"atom", "cell", "closure"}

IsData(v) == CASE v.kind = "atom" -> TRUE
               [] v.kind = "cell" -> RecIsData(v.p) /\ RecIsData(v.q)
               [] OTHER -> FALSE

\* v, unless one of the values it is made from failed or is unspecified.
Strict(u, v) == IF IsValue(u) THEN v ELSE u

DataOnly(u, v) == IF IsValue(u) /\ ~IsData(u) THEN Unspecified ELSE Strict(u, v)
-----------------------------------------------------------------------------
(* Environments.  A binding is a type, whose names it binds, and a value.  *)

Bind(typ, val, env) == <<[typ |-> typ, val |-> val]>> \o env
Self(val, env) == Bind(Named(NoneJ, "$"), val, env)

\* The turns to the part of a value of type t that has the name.
FieldPath(t, name) ==
  LET left == RecFieldPath(t.p, name)
      right == RecFieldPath(t.q, name)
  IN  CASE t.name = name -> Some(<<>>)
        [] t.name = "" /\ t.kind = "cell" ->
             IF left # Nothing THEN Some(<<0>> \o left[1])
             ELSE IF right # Nothing THEN Some(<<1>> \o right[1])
             ELSE Nothing
        [] OTHER -> Nothing

Part(v, path) == IF path = <<>> THEN v
                 ELSE RecPart(IF path[1] = 0 THEN v.p ELSE v.q, Tail(path))

WithPart(v, path, w) ==
  CASE path = <<>> -> w
    [] path # <<>> /\ path[1] = 0 -> Cell(RecWithPart(v.p, Tail(path), w), v.q)
    [] OTHER -> Cell(v.p, RecWithPart(v.q, Tail(path), w))

\* The path of a chain of names in a value of type t.
FieldsPath(t, limbs) ==
  LET first == FieldPath(t, limbs[1].of)
      rest == RecFieldsPath(Named(Part(t, first[1]), ""), Tail(limbs))
  IN  CASE limbs = <<>> -> Some(<<>>)
        [] limbs # <<>> /\ first = Nothing -> Nothing
        [] OTHER -> IF rest = Nothing THEN Nothing ELSE Some(first[1] \o rest[1])

Binds(env, k, name) == FieldPath(env[k].typ, name) # Nothing

\* The latest binding of a name.
Latest(env, name) ==
  CHOOSE k \in DOMAIN env : /\ Binds(env, k, name)
                            /\ \A i \in 1..(k - 1) : ~Binds(env, i, name)

Lookup(env, limbs) ==
  LET b == env[Latest(env, limbs[1].of)]
      path == FieldsPath(b.typ, limbs)
  IN  IF path = Nothing THEN Crash ELSE Part(b.val, path[1])

Assign(env, limbs, v) ==
  LET k == Latest(env, limbs[1].of)
      path == FieldsPath(env[k].typ, limbs)
  IN  [env EXCEPT ![k].val = WithPart(@, path[1], v)]

\* From the binding of $ on: where the loop or the function was entered.
Entered(env) == SubSeq(env, Latest(env, "$"), Len(env))

DefaultValue(t) == IF t.kind = "cell" THEN Cell(RecDefaultValue(t.p), RecDefaultValue(t.q))
                                      ELSE Atom(0)

ArmsEnv(arms, env) ==
  [i \in DOMAIN arms |-> [typ |-> Named(NoneJ, arms[i].name), val |-> Thunk(arms[i].body, i)]] \o env
-----------------------------------------------------------------------------

\* A call: the body runs where the function was made, with its argument.
Apply(f, arg, fuel) ==
  CASE IsData(f) -> IF IsAtom(f) THEN Crash ELSE Unspecified
    [] ~IsData(f) /\ fuel = 0 -> Unspecified
    [] OTHER -> RecMeans(f.body, Self(f, Bind(f.inp, arg, f.env)), fuel - 1)

Again(env, fuel) ==
  IF fuel = 0 THEN Unspecified ELSE RecMeans(env[1].val.body, env, fuel - 1)

\* $(arg): again, with arg in the place of the parameter of the function, or of
\* the latest binding before the loop.
Recur(env, arg, fuel) == Again([env EXCEPT ![2].val = arg], fuel)

MeansCall(j, env, fuel) ==
  LET arg == IF j.arg = Nothing THEN Unspecified ELSE RecMeans(j.arg[1], env, fuel)
      self == j.func.j = "limb" /\ IsAxis(j.func.limbs[1], 0)
      f == RecMeans(j.func, env, fuel)
  IN  CASE self /\ j.arg = Nothing -> Again(Entered(env), fuel)
        [] self /\ j.arg # Nothing -> Strict(arg, Recur(Entered(env), arg, fuel))
        [] j.func.j = "lambda" /\ j.arg = Nothing -> Apply(f, DefaultValue(f.inp), fuel)
        [] OTHER -> Strict(f, Strict(arg, Apply(f, arg, fuel)))

IsThis(j) == j.j = "limb" /\ IsAxis(j.limbs[1], 1)

\* compose p; q: q knows nothing but what p yields.
MeansCompose(j, env, fuel) ==
  CASE j.p.j = "object" /\ j.p.q = Nothing -> RecMeans(j.q, ArmsEnv(j.p.p, <<>>), fuel)
    [] j.p.j = "object" /\ j.p.q # Nothing /\ IsThis(j.p.q[1]) ->
         RecMeans(j.q, ArmsEnv(j.p.p, env), fuel)
    [] OTHER -> Unspecified

MeansLimb(limbs, env, fuel) ==
  LET v == Lookup(env, limbs)
      k == Latest(env, limbs[1].of)
  IN  CASE limbs[1].sort # "name" -> Unspecified
        [] limbs[1].sort = "name" /\ v.kind = "thunk" ->
             IF fuel = 0 THEN Unspecified
             ELSE RecMeans(v.body, SubSeq(env, k - v.i + 1, Len(env)), fuel - 1)
        [] OTHER -> v

Means(j, env, fuel) ==
  LET m(e) == RecMeans(e, env, fuel)
      tuple[i \in 1..Len(j.val)] ==
        LET v == m(j.val[Len(j.val) + 1 - i])
        IN  IF i = 1 THEN v ELSE Strict(v, Strict(tuple[i - 1], Cell(v, tuple[i - 1])))
      p == m(j.p)
      q == m(j.q)
      val == m(j.val)
      a == m(j.a)
      b == m(j.b)
      same == DataOnly(a, DataOnly(b, Loobean((a = b) <=> (j.j = "eq"))))
      choose(t, e) == LET c == m(j.cond)
                      IN  DataOnly(c, IF c = True THEN m(t) ELSE IF c = False THEN e ELSE Crash)
  IN  CASE j.j = "atom" -> Atom(j.n)
        [] j.j = "limb" -> MeansLimb(j.limbs, env, fuel)
        [] j.j = "cell" -> Strict(p, Strict(q, Cell(p, q)))
        [] j.j = "let" -> Strict(val, RecMeans(j.next, Bind(j.typ, val, env), fuel))
        [] j.j = "func" -> RecMeans(j.next, Bind(Named(NoneJ, j.typ.name), m(j.body), env), fuel)
        [] j.j = "lambda" -> IF j.context # Nothing \/ j.inp = Nothing THEN Unspecified
                             ELSE Closure(j.inp[1], j.body, env)
        [] j.j = "edit" -> Strict(val, RecMeans(j.next, Assign(env, j.limb, val), fuel))
        [] j.j = "increment" -> Strict(val, IF val.kind = "atom" THEN Atom(val.n + 1) ELSE Crash)
        [] j.j = "cell_check" -> Strict(val, Loobean(val.kind # "atom"))
        [] j.j \in {"eq", "ne"} -> same
        [] j.j = "if" -> choose(j.then, m(j.after))
        [] j.j = "assert" -> choose(j.then, Crash)
        [] j.j = "loop" -> RecMeans(j.next, Self(Repeat(j.next), env), fuel)
        [] j.j = "call" -> MeansCall(j, env, fuel)
        [] j.j = "compose" -> MeansCompose(j, env, fuel)
        [] j.j = "list" -> tuple[Len(j.val)]
        [] j.j = "print" -> m(j.next)
        [] j.j = "crash" -> Crash
        [] OTHER -> Unspecified
=============================================================================
