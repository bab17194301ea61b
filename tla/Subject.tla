------------------------------ MODULE Subject ------------------------------
(***************************************************************************)
(* The type of the subject (crates/jock-compiler/src/subject.rs): what the *)
(* compiler knows of the noun that the code it is emitting will run on,    *)
(* and how names are looked up in it to find axes.                         *)
(*                                                                         *)
(* A type is a record with the kind of its node and its name ("" if none). *)
(* The sort of an atom and the constant flag are left out: no operation of *)
(* this module tells them apart.  An optional value is a sequence of at    *)
(* most one element.                                                       *)
(***************************************************************************)
EXTENDS Integers, Sequences

CONSTANT AxisBits  \* the width of an axis: u64

CONSTANTS
  \* The definitions of this module, where they call themselves (see Nock).
  RecPath(_), RecTypeAtPath(_, _), RecFindName(_, _, _), RecFindBuc(_, _),
  RecFollowLimbs(_, _, _, _, _), RecUnify(_, _)

ASSUME AxisBitsAssumption == AxisBits \in Nat \ {0}

Nothing == <<>>
Some(x) == <<x>>

TwoTo[k \in Nat] == IF k = 0 THEN 1 ELSE 2 * TwoTo[k - 1]

\* Arithmetic on axes wraps, as in a release build.
Wrap(n) == n % TwoTo[AxisBits]

\* The place of the highest bit of b.
BitLen(b) == CHOOSE k \in 0..(AxisBits - 1) : TwoTo[k] <= b /\ b < TwoTo[k + 1]

\* The axis, from the root, of axis b of what stands at axis a.
Peg(a, b) == Wrap(a * TwoTo[BitLen(b)]) + (b - TwoTo[BitLen(b)])

\* axis_to_path: the turns from the root to an axis, 0 for head and 1 for tail.
Path(a) == IF a <= 1 THEN <<>> ELSE Append(RecPath(a \div 2), a % 2)
-----------------------------------------------------------------------------
(* Types.                                                                  *)

AtomJ == [kind |-> "atom", name |-> ""]
NoneJ == [kind |-> "none", name |-> ""]
ListJ == [kind |-> "list", name |-> ""]
SetJ == [kind |-> "set", name |-> ""]
CellJ(p, q) == [kind |-> "cell", p |-> p, q |-> q, name |-> ""]
ForkJ(p, q) == [kind |-> "fork", p |-> p, q |-> q, name |-> ""]
StateJ(p) == [kind |-> "state", p |-> p, name |-> ""]
LimbJ(limbs) == [kind |-> "limb", limbs |-> limbs, name |-> ""]

\* A core: a lambda with its input and output, or named arms; its context.
LambdaJ(inp, out, ctx) ==
  [kind |-> "core", arms |-> Nothing, inp |-> inp, out |-> out, ctx |-> ctx, name |-> ""]
ArmsJ(arms, ctx) ==
  [kind |-> "core", arms |-> Some(arms), inp |-> Nothing, out |-> NoneJ, ctx |-> ctx, name |-> ""]
IsLambda(t) == t.kind = "core" /\ t.arms = Nothing
IsArms(t) == t.kind = "core" /\ t.arms # Nothing

Named(t, name) == [t EXCEPT !.name = name]

NameL(n) == [sort |-> "name", of |-> n]
TypeL(n) == [sort |-> "type", of |-> n]
AxisL(a) == [sort |-> "axis", of |-> a]
IsAxis(limb, a) == limb.sort = "axis" /\ limb.of = a

\* A type that refers to a class by its name.
IsClassRef(t) == t.kind = "limb" /\ t.limbs # <<>> /\ t.limbs[1].sort = "type"

\* What a core looks like to its own code: [out [inp ctx]] for a lambda; for
\* arms, the types of the arms, the last one first, and the context.
CallCore(t) ==
  LET ctx == IF t.ctx = Nothing THEN NoneJ ELSE t.ctx[1]
      named(i) == Named(t.arms[1][i].typ, t.arms[1][i].name)
      arms[i \in Nat] == IF i = 1 THEN named(1) ELSE CellJ(named(i), arms[i - 1])
  IN  IF IsLambda(t)
      THEN CellJ(t.out, CASE t.inp = Nothing -> ctx
                          [] t.inp # Nothing /\ t.ctx = Nothing -> t.inp[1]
                          [] OTHER -> CellJ(t.inp[1], ctx))
      ELSE IF t.arms[1] = <<>> THEN ctx
      ELSE IF t.ctx = Nothing THEN arms[Len(t.arms[1])]
      ELSE CellJ(arms[Len(t.arms[1])], ctx)

\* The type at the end of a path, its name stripped.
TypeAtPath(t, path) ==
  LET turn(u) == IF path[1] = 0 THEN u.p ELSE u.q
  IN  CASE path = <<>> -> Some(Named(t, ""))
        [] path # <<>> /\ t.kind = "cell" -> RecTypeAtPath(turn(t), Tail(path))
        [] path # <<>> /\ t.kind = "core" -> RecTypeAtPath(CallCore(t), path)
        [] path # <<>> /\ t.kind = "state" ->
             IF t.p.kind = "cell" THEN RecTypeAtPath(turn(t.p), Tail(path)) ELSE Nothing
        [] OTHER -> Nothing

TypeAtAxis(t, a) ==
  CASE a = 0 -> Nothing
    [] a = 1 -> Some(t)
    [] OTHER -> TypeAtPath(t, Path(a))
-----------------------------------------------------------------------------
(* Wings and names.                                                        *)

\* A value at an axis, or the arm at axis arm of the core at axis core.
Leg(a) == [arm |-> 0, core |-> a]
Arm(arm, core) == [arm |-> arm, core |-> core]
IsLeg(w) == w.arm = 0
WingAxis(w) == IF IsLeg(w) THEN w.core ELSE Peg(w.core, w.arm)

\* axis_at_name: the first place, from left to right, that has the name.  A
\* named cell hides what is in it; a core is searched as its code would see it.
FindName(t, name, a) ==
  LET armAxis(i) == Wrap(3 * TwoTo[i - 1] - 1)
      arms == {i \in DOMAIN t.arms[1] : t.arms[1][i].name = name}
      first == CHOOSE i \in arms : \A k \in arms : i <= k
      left == RecFindName(t.p, name, Wrap(2 * a))
  IN  CASE t.name = name -> Some(Leg(a))
        [] t.name # name /\ IsLambda(t) -> RecFindName(CallCore(t), name, a)
        [] t.name # name /\ IsArms(t) ->
             IF arms # {} THEN Some(Arm(armAxis(first), a))
             ELSE IF t.ctx = Nothing THEN Nothing
             ELSE RecFindName(t.ctx[1], name, Wrap(2 * a + 1))
        [] t.name = "" /\ t.kind = "cell" ->
             IF left # Nothing THEN left
             ELSE RecFindName(t.q, name, Wrap(2 * a + 1))
        [] OTHER -> Nothing

AxisAtName(t, name) == FindName(t, name, 1)

\* find_buc: the first lambda from the left, whose code $ calls.
FindBuc(t, a) ==
  CASE IsLambda(t) -> Some(a)
    [] t.kind = "cell" ->
         LET left == RecFindBuc(t.p, Wrap(2 * a))
         IN  IF left # Nothing THEN left ELSE RecFindBuc(t.q, Wrap(2 * a + 1))
    [] OTHER -> Nothing

\* get_limb, from limb i of the path on: t is the type reached, ret the axis
\* reached through legs, arms the arms met on the way.
FollowLimbs(t, limbs, i, ret, arms) ==
  LET found == IF limbs[i].sort = "axis" THEN Some(Leg(limbs[i].of))
                                         ELSE AxisAtName(t, limbs[i].of)
      wing == found[1]
      next == TypeAtAxis(t, WingAxis(wing))
      typ == next[1]
      reached == CASE arms # <<>> -> ret
                   [] arms = <<>> /\ ret = 1 -> wing.core
                   [] OTHER -> Peg(ret, wing.core)
      reverse == [k \in DOMAIN arms |-> arms[Len(arms) + 1 - k]]
  IN  CASE i > Len(limbs) ->
             Some([typ |-> t,
                   wings |-> IF arms = <<>> THEN <<Leg(ret)>>
                             ELSE IF ret = 1 THEN reverse ELSE <<arms[1]>>])
        [] i <= Len(limbs) /\ (found = Nothing \/ next = Nothing) -> Nothing
        \* An instance of a class: the caller looks for the method.
        [] i < Len(limbs) /\ limbs[i].sort = "name" /\ IsClassRef(typ) ->
             Some([typ |-> typ,
                   wings |-> IF arms # <<>> THEN <<arms[1]>>
                             ELSE IF IsLeg(wing) THEN <<Leg(Peg(ret, wing.core))>>
                             ELSE <<wing>>])
        [] OTHER ->
             IF IsLeg(wing) THEN RecFollowLimbs(typ, limbs, i + 1, reached, arms)
             ELSE RecFollowLimbs(CASE typ.kind = "core" -> CallCore(typ)
                                [] typ.kind = "cell" -> typ
                                [] OTHER -> NoneJ,
                              limbs, i + 1, ret, Append(arms, wing))

GetLimb(t, limbs) ==
  IF limbs = <<>> THEN Nothing ELSE FollowLimbs(t, limbs, 1, 1, <<>>)
-----------------------------------------------------------------------------
(* Unification: the declared type, where it fits the type of the value.    *)

Unify(target, source) ==
  LET p == RecUnify(target.p, source.p)
      q == RecUnify(target.q, source.q)
  IN  CASE target.kind = "cell" /\ source.kind = "cell" ->
             IF p = Nothing \/ q = Nothing THEN Nothing
             ELSE Some(Named(CellJ(p[1], q[1]), target.name))
        [] target.kind = "none" -> Some(Named(source, target.name))
        [] target.kind # "none" /\ source.kind = "none" -> Some(target)
        [] target.kind = source.kind /\ target.kind # "cell" -> Some(target)
        [] OTHER -> Nothing
=============================================================================
