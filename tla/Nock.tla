-------------------------------- MODULE Nock --------------------------------
(***************************************************************************)
(* Nouns and Nock formulas (crates/jock-compiler/src/nock.rs), and the     *)
(* interpreter that runs them.  A formula is kept as the noun to_noun      *)
(* makes of it, because the compiler embeds formulas in formulas as data.  *)
(*                                                                         *)
(* The interpreter is nockvm's, not the repository's.  fuel bounds how     *)
(* deep formulas taken from the subject may call each other: a run that    *)
(* needs more is a crash, like a run that fails.                           *)
(*                                                                         *)
(* Where a definition F of this module, of Subject or of those that extend *)
(* them calls itself, it calls the constant RecF.  An instance gives RecF  *)
(* the value F, and the theorems assume that it has it: the prover knows   *)
(* nothing of RECURSIVE operators.                                         *)
(***************************************************************************)
EXTENDS Integers

CONSTANTS
  \* Slot, Hax and Tar, where they call themselves.
  RecSlot(_, _), RecHax(_, _, _), RecTar(_, _, _)

Atom(n) == [kind |-> "atom", n |-> n]
Cell(p, q) == [kind |-> "cell", p |-> p, q |-> q]
IsAtom(n) == n.kind = "atom"
IsCell(n) == n.kind = "cell"

\* No noun: what a failing or endless computation yields.
Crash == [kind |-> "crash"]

True == Atom(0)
False == Atom(1)
Loobean(b) == IF b THEN True ELSE False
-----------------------------------------------------------------------------
(* Formulas.                                                               *)

Autocons(p, q) == Cell(p, q)
Axis(a) == Cell(Atom(0), Atom(a))
Constant(n) == Cell(Atom(1), n)
Compose(p, q) == Cell(Atom(2), Cell(p, q))
CellTest(p) == Cell(Atom(3), p)
Increment(p) == Cell(Atom(4), p)
Equals(p, q) == Cell(Atom(5), Cell(p, q))
IfThenElse(c, t, e) == Cell(Atom(6), Cell(c, Cell(t, e)))
Then(p, q) == Cell(Atom(7), Cell(p, q))
Push(p, q) == Cell(Atom(8), Cell(p, q))
Fire(a, p) == Cell(Atom(9), Cell(Atom(a), p))
Edit(a, v, t) == Cell(Atom(10), Cell(Cell(Atom(a), v), t))
Hint(tag, h, p) == Cell(Atom(11), Cell(Cell(Atom(tag), h), p))
-----------------------------------------------------------------------------
(* The interpreter.                                                        *)

HeadOf(n) == IF IsCell(n) THEN n.p ELSE Crash
TailOf(n) == IF IsCell(n) THEN n.q ELSE Crash
Num(n) == IF IsAtom(n) THEN n.n ELSE 0

\* A cell of two results, if both are nouns.
Pair(p, q) == IF Crash \in {p, q} THEN Crash ELSE Cell(p, q)

Slot(a, n) ==
  IF a = 0 THEN Crash
  ELSE IF a = 1 THEN n
  ELSE IF a % 2 = 0 THEN HeadOf(RecSlot(a \div 2, n)) ELSE TailOf(RecSlot(a \div 2, n))

\* n with v at axis a, which must exist in n.
Hax(a, v, n) ==
  IF Slot(a, n) = Crash THEN Crash
  ELSE IF a = 1 THEN v
  ELSE RecHax(a \div 2,
           IF a % 2 = 0 THEN Pair(v, Slot(a + 1, n)) ELSE Pair(Slot(a - 1, n), v),
           n)

\* .*(s f)
Tar(s, f, fuel) ==
  LET op == HeadOf(f)
      arg == TailOf(f)
      run(g) == RecTar(s, g, fuel)
      call(t, g) == IF fuel = 0 THEN Crash ELSE RecTar(t, g, fuel - 1)
  IN  IF s = Crash \/ ~IsCell(f) THEN Crash
      ELSE CASE IsCell(op) -> Pair(run(op), run(arg))
             [] op = Atom(0) -> Slot(Num(arg), s)
             [] op = Atom(1) -> arg
             [] op = Atom(2) -> call(run(HeadOf(arg)), run(TailOf(arg)))
             [] op = Atom(3) -> LET n == run(arg)
                                IN  IF n = Crash THEN Crash ELSE Loobean(IsCell(n))
             [] op = Atom(4) -> LET n == run(arg)
                                IN  IF IsAtom(n) THEN Atom(n.n + 1) ELSE Crash
             [] op = Atom(5) -> LET n == Pair(run(HeadOf(arg)), run(TailOf(arg)))
                                IN  IF n = Crash THEN Crash ELSE Loobean(n.p = n.q)
             [] op = Atom(6) -> LET c == run(HeadOf(arg))
                                IN  IF c = True THEN run(HeadOf(TailOf(arg)))
                                    ELSE IF c = False THEN run(TailOf(TailOf(arg)))
                                    ELSE Crash
             [] op = Atom(7) -> RecTar(run(HeadOf(arg)), TailOf(arg), fuel)
             [] op = Atom(8) -> RecTar(Pair(run(HeadOf(arg)), s), TailOf(arg), fuel)
             [] op = Atom(9) -> LET core == run(TailOf(arg))
                                IN  call(core, Slot(Num(HeadOf(arg)), core))
             [] op = Atom(10) -> Hax(Num(HeadOf(HeadOf(arg))),
                                     run(TailOf(HeadOf(arg))), run(TailOf(arg)))
             [] op = Atom(11) -> IF run(TailOf(HeadOf(arg))) = Crash THEN Crash
                                 ELSE run(TailOf(arg))
             [] OTHER -> Crash
=============================================================================
