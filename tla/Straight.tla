------------------------------ MODULE Straight ------------------------------
(***************************************************************************)
(* The programs without functions, loops and objects: a set of expressions *)
(* that holds the parts of each, with numbers that say how large they are  *)
(* and how many lets stand within one another.  The theorems about the     *)
(* compiler are about the programs of any such set.                        *)
(***************************************************************************)
EXTENDS Compiler

CONSTANT RecKeepsTypes(_, _)  \* KeepsTypes, where it calls itself (see Nock)

CONSTANTS
  Name,  \* the names that are bound, or used
  Expr,  \* the expressions
  Size,  \* of an expression: more than that of its parts
  Nest   \* how many lets of an expression stand within one another

Within(e, j) == e \in Expr /\ Size[e] < Size[j] /\ Nest[e] <= Nest[j]

IsName(limbs) == \E x \in Name : limbs = <<NameL(x)>>

IsStraight(j) ==
  \/ j.j = "atom" /\ j.n \in Nat
  \/ j.j = "crash"
  \/ j.j = "limb" /\ IsName(j.limbs)
  \/ j.j = "cell" /\ Within(j.p, j) /\ Within(j.q, j)
  \/ j.j \in {"increment", "cell_check"} /\ Within(j.val, j)
  \/ j.j \in {"eq", "ne"} /\ Within(j.a, j) /\ Within(j.b, j)
  \/ j.j = "if" /\ Within(j.cond, j) /\ Within(j.then, j) /\ Within(j.after, j)
  \/ j.j = "assert" /\ Within(j.cond, j) /\ Within(j.then, j)
  \/ j.j = "print" /\ Within(j.body, j) /\ Within(j.next, j)
  \/ /\ j.j = "edit" /\ Within([j |-> "limb", limbs |-> j.limb], j)
     /\ Within(j.val, j) /\ Within(j.next, j)
  \/ /\ j.j = "let" /\ \E x \in Name : j.typ = Named(NoneJ, x)
     /\ Within(j.val, j) /\ Within(j.next, j) /\ Nest[j.next] < Nest[j]

ASSUME StraightAssumption ==
  /\ "" \notin Name
  /\ Size \in [Expr -> Nat] /\ Nest \in [Expr -> Nat]
  /\ \A j \in Expr : IsStraight(j)

\* The program given is one of them, and the axes of its names have no more bits
\* than an axis has.
GivenStraight == program \in Expr /\ Nest[program] + 1 <= AxisBits

\* Every assignment is of a value of the type that its name has there: what the
\* compiler does not check.
KeepsTypes(j, t) ==
  LET keeps(e) == RecKeepsTypes(e, t)
      below == CellJ(Named(RecMint(j.val, t).typ, j.typ.name), t)
  IN  CASE j.j = "cell" -> keeps(j.p) /\ keeps(j.q)
        [] j.j \in {"increment", "cell_check"} -> keeps(j.val)
        [] j.j \in {"eq", "ne"} -> keeps(j.a) /\ keeps(j.b)
        [] j.j = "if" -> keeps(j.cond) /\ keeps(j.then) /\ keeps(j.after)
        [] j.j = "assert" -> keeps(j.cond) /\ keeps(j.then)
        [] j.j = "print" -> keeps(j.body) /\ keeps(j.next)
        [] j.j = "let" -> keeps(j.val) /\ RecKeepsTypes(j.next, below)
        [] j.j = "edit" -> /\ RecMint(j.val, t).typ = MintLimb(j.limb, t).typ
                           /\ keeps(j.val) /\ keeps(j.next)
        [] OTHER -> TRUE
=============================================================================
