------------------------------ MODULE Compiler ------------------------------
(***************************************************************************)
(* compile (crates/jock-compiler/src/lib.rs) and the run of the Nock it    *)
(* makes: a program is compiled against the default subject type, and the  *)
(* formula is then run on a subject of that type, an atom, as jockc does.  *)
(*                                                                         *)
(* The properties compare the run with Meaning, where a program is given a *)
(* value without Nock, axes and subject types.                             *)
(***************************************************************************)
EXTENDS Meaning

CONSTANTS
  \* The properties below, where they call themselves.
  RecIsNoun(_), RecClosed(_, _), RecNotALoop(_), RecHasType(_, _)

CONSTANTS
  Sources,    \* the programs that may be given
  Parsed(_),  \* the expression the parser makes of one
  Fuel        \* how deep the calls of a run may be nested

ASSUME FuelAssumption == Fuel \in Nat

VARIABLES
  source,   \* the program given
  phase,    \* "given", "compiled", "refused" or "ran"
  minted,   \* its code and the type of its value
  outcome   \* what running the code came to

vars == <<source, phase, minted, outcome>>

program == Parsed(source)

Init ==
  /\ source \in Sources
  /\ phase = "given"
  /\ minted = Failed
  /\ outcome = Crash

Compile ==
  /\ phase = "given"
  /\ minted' = Mint(program, AtomJ)
  /\ phase' = IF HasError(minted'.nock) THEN "refused" ELSE "compiled"
  /\ UNCHANGED <<source, outcome>>

\* The code nests calls deeper than the program does: a loop is entered by one.
Run ==
  /\ phase = "compiled"
  /\ outcome' = Tar(Atom(0), minted.nock, 3 * Fuel)
  /\ phase' = "ran"
  /\ UNCHANGED <<source, minted>>

Next == Compile \/ Run

Spec == Init /\ [][Next]_vars
-----------------------------------------------------------------------------
(* Properties.                                                             *)

IsNoun(n) == CASE n.kind = "cell" -> RecIsNoun(n.p) /\ RecIsNoun(n.q)
               [] OTHER -> n.kind = "atom" /\ n.n \in Nat

\* Every formula and every result is a noun.
TypeOK ==
  /\ source \in Sources
  /\ phase \in {"given", "compiled", "refused", "ran"}
  /\ phase \in {"compiled", "ran"} => IsNoun(minted.nock)
  /\ outcome = Crash \/ IsNoun(outcome)

Meant == Means(program, <<>>, Fuel)

\* The formula computes what the program means, and crashes where the program
\* does: across shadowing, assignment, closures, recursion, loops and objects,
\* every name is compiled to the axis at which its value is when the code runs.
Computes ==
  phase = "ran" /\ (Meant = Crash \/ IsData(Meant)) => outcome = Meant

\* Whether every name of an expression is bound, given the types of the bindings
\* in scope; "$" is one.
Closed(j, types) ==
  LET in(name) == \E k \in DOMAIN types : FieldPath(types[k], name) # Nothing
      latest == CHOOSE k \in DOMAIN types :
                  /\ FieldPath(types[k], j.limbs[1].of) # Nothing
                  /\ \A i \in 1..(k - 1) : FieldPath(types[i], j.limbs[1].of) = Nothing
      bound(typ) == <<typ>> \o types
      buc == bound(Named(NoneJ, "$"))
      target == [j |-> "limb", limbs |-> j.limb]
      arms == [i \in DOMAIN j.p.p |-> Named(NoneJ, j.p.p[i].name)] \o types
  IN  CASE j.j \in {"atom", "crash"} -> TRUE
        [] j.j = "limb" ->
             IF j.limbs[1].sort = "axis" THEN j.limbs[1].of # 0 \/ in("$")
             ELSE in(j.limbs[1].of) /\ FieldsPath(types[latest], j.limbs) # Nothing
        [] j.j = "cell" -> RecClosed(j.p, types) /\ RecClosed(j.q, types)
        [] j.j = "let" -> RecClosed(j.val, types) /\ RecClosed(j.next, bound(j.typ))
        [] j.j = "func" ->
             RecClosed(j.body, types) /\ RecClosed(j.next, bound(Named(NoneJ, j.typ.name)))
        [] j.j = "lambda" -> RecClosed(j.body, <<Named(NoneJ, "$"), j.inp[1]>> \o types)
        [] j.j = "edit" -> /\ RecClosed(target, types)
                           /\ RecClosed(j.val, types) /\ RecClosed(j.next, types)
        [] j.j \in {"increment", "cell_check"} -> RecClosed(j.val, types)
        [] j.j \in {"eq", "ne"} -> RecClosed(j.a, types) /\ RecClosed(j.b, types)
        [] j.j = "if" -> /\ RecClosed(j.cond, types)
                         /\ RecClosed(j.then, types) /\ RecClosed(j.after, types)
        [] j.j = "assert" -> RecClosed(j.cond, types) /\ RecClosed(j.then, types)
        [] j.j = "loop" -> RecClosed(j.next, buc)
        [] j.j = "call" -> /\ RecClosed(j.func, types)
                           /\ j.arg = Nothing \/ RecClosed(j.arg[1], types)
        [] j.j = "print" -> RecClosed(j.body, types) /\ RecClosed(j.next, types)
        [] j.j = "compose" -> /\ \A i \in DOMAIN j.p.p : RecClosed(j.p.p[i].body, arms)
                              /\ RecClosed(j.q, arms)

\* The compiler refuses exactly the programs that use a name, a field or a $
\* that is not in scope, wherever in the program it stands.
RefusesUnbound ==
  phase # "given" => (phase = "refused" <=> ~Closed(program, <<>>))

\* The value of the program is not that of a loop: mint gives a loop the type of
\* the subject it was entered with.
NotALoop(j) ==
  CASE j.j = "loop" -> FALSE
    [] j.j \in {"let", "func", "edit", "print"} -> RecNotALoop(j.next)
    [] j.j = "assert" -> RecNotALoop(j.then)
    [] j.j = "compose" -> RecNotALoop(j.q)
    [] OTHER -> TRUE

HasType(v, t) ==
  CASE t.kind = "cell" -> IsCell(v) /\ RecHasType(v.p, t.p) /\ RecHasType(v.q, t.q)
    [] t.kind = "fork" -> RecHasType(v, t.p) \/ RecHasType(v, t.q)
    [] t.kind = "atom" -> IsAtom(v)
    [] OTHER -> TRUE

\* The type mint gives a program describes the noun its formula makes: every
\* axis the type says is there, is there, with an atom or a cell as it says.
TypeDescribes ==
  phase = "ran" /\ outcome # Crash /\ NotALoop(program) => HasType(outcome, minted.typ)
=============================================================================
