------------------------------ MODULE MCScope ------------------------------
(***************************************************************************)
(* The spine with two names, two values, two functions, and axes of four   *)
(* bits, so that the deepest of three values has the largest axis there    *)
(* is; and the axes of Scope against those of the subject types in full,   *)
(* and what it takes Nock to do against the interpreter.                   *)
(***************************************************************************)
EXTENDS Scope, TLC

CONSTANTS a, b, zero, one

MCName == {a, b}
MCValue == {zero, one}
Symmetries == Permutations(MCName) \cup Permutations(MCValue)
-----------------------------------------------------------------------------
CONSTANTS
  \* The definitions of Subject and Nock, where they call themselves (see Nock).
  RecPath(_), RecTypeAtPath(_, _), RecFindName(_, _, _), RecFindBuc(_, _),
  RecFollowLimbs(_, _, _, _, _), RecUnify(_, _),
  RecSlot(_, _), RecHax(_, _, _), RecTar(_, _, _)

Width == 4
Full == INSTANCE Subject WITH AxisBits <- Width
Machine == INSTANCE Nock

MCPath(axis) == Full!Path(axis)
MCTypeAtPath(t, path) == Full!TypeAtPath(t, path)
MCFindName(t, name, axis) == Full!FindName(t, name, axis)
MCFindBuc(t, axis) == Full!FindBuc(t, axis)
MCFollowLimbs(t, limbs, i, ret, arms) == Full!FollowLimbs(t, limbs, i, ret, arms)
MCUnify(t, u) == Full!Unify(t, u)
MCSlot(axis, n) == Machine!Slot(axis, n)
MCHax(axis, v, n) == Machine!Hax(axis, v, n)
MCTar(s, f, fuel) == Machine!Tar(s, f, fuel)

\* The type that mint has at a place where the subject holds values of types ts.
RECURSIVE FullType(_)
FullType(ts) ==
  LET rest == FullType(Tail(ts))
      gate == Full!LambdaJ(Full!Some(Full!Named(Full!AtomJ, ts[1].param[1])), Full!AtomJ, Full!Nothing)
  IN  CASE ts = <<>> -> Full!AtomJ
        [] ts # <<>> /\ ts[1].name = Core -> Full!LambdaJ(Full!Nothing, Full!NoneJ, Full!Some(rest))
        [] OTHER -> Full!CellJ(Full!Named(IF IsFunction(ts[1]) THEN gate ELSE Full!AtomJ, ts[1].name),
                               rest)

AllTypes == {CoreType} \cup [name : MCName, param : {NoParam} \cup {<<n>> : n \in MCName}]

\* axis_at_name and find_buc find what the model says, past the width of an axis
\* as well.
ASSUME AxesOfSubject ==
  AxisLimit = 2^Width =>
    \A n \in 0..5 : \A ts \in [1..n -> AllTypes] :
      /\ \A name \in MCName :
           InScope(ts, name) =>
             Full!AxisAtName(FullType(ts), name) = Full!Some(Full!Leg(AxisAtName(ts, name)))
      /\ BucInScope(ts) => Full!FindBuc(FullType(ts), 1) = Full!Some(FindBuc(ts))

\* The noun [from [from+1 ... [to 0]]].
RECURSIVE ListOf(_, _)
ListOf(from, to) ==
  IF from > to THEN Machine!Atom(0) ELSE Machine!Cell(Machine!Atom(from), ListOf(from + 1, to))

\* [0 axis] and [10 [axis v] [0 1]] do to a noun what Slot, Rest and Edited do to
\* the sequence of its values.
ASSUME AxesOfNock ==
  \A n \in 1..6 : \A k \in 1..n :
    LET list == [i \in 1..n |-> i]
        value(i) == Machine!Slot(2 * Spine[i - 1],
                                 Machine!Hax(2 * Spine[k - 1], Machine!Atom(99), ListOf(1, n)))
    IN  /\ Machine!Slot(2 * Spine[k - 1], ListOf(1, n)) = Machine!Atom(Slot(2 * Spine[k - 1], list))
        /\ Machine!Slot(Spine[k], ListOf(1, n)) = ListOf(k + 1, n)
        /\ Rest(Spine[k], list) = [i \in 1..(n - k) |-> i + k]
        /\ \A i \in 1..n :
             value(i) = Machine!Atom(Edited(2 * Spine[k - 1], list, 99)[i])
=============================================================================
