----------------------------- MODULE Environment -----------------------------
(***************************************************************************)
(* What the statements of a Jock program promise to whoever reads it: the  *)
(* names in scope and their values, without a subject, axes or Nock.       *)
(*                                                                         *)
(* A behaviour is a path through a program: it binds and assigns names,    *)
(* enters loops and functions, goes back to where the latest of them was   *)
(* entered, and yields a value.  The value of a let or of an assignment    *)
(* may be computed by statements of its own, in a scope of their own.      *)
(* What a path depends on (if, match) is left open, so that every path is  *)
(* one of the behaviours.  A function is a number, with its parameter and  *)
(* the scope it was made in kept in closures.                              *)
(***************************************************************************)
EXTENDS Integers, Sequences

CONSTANTS
  Name,      \* the names of a program
  Value,     \* its values, but for functions
  Entry,     \* in place of a name: a loop or a function was entered here
  MaxDepth,  \* bound: how many bindings and entries are in scope at once
  MaxNested, \* bound: how many values are being computed within one another
  MaxFuncs   \* bound: how many functions are made

VARIABLES
  bindings,  \* the names in scope with their values, the latest first
  pending,   \* the statements whose value is being computed, the innermost first
  closures,  \* the functions made
  answer     \* the value of the program, or Unknown

vars == <<bindings, pending, closures, answer>>

Unknown == <<>>

Binding(name, val) == [name |-> name, val |-> val]

\* The place of the latest binding of a name, or of the latest entry.
Latest(scope, name) ==
  CHOOSE k \in DOMAIN scope :
    scope[k].name = name /\ \A i \in 1..(k - 1) : scope[i].name # name

InScope(scope, name) == \E k \in DOMAIN scope : scope[k].name = name

\* An expression is a value or a name.
Expression == Name \cup Value
Closed(e) == e \in Name => InScope(bindings, e)
ValueOf(e) == IF e \in Name THEN bindings[Latest(bindings, e)].val ELSE e

\* From the latest entry on.
Entered == SubSeq(bindings, Latest(bindings, Entry), Len(bindings))
-----------------------------------------------------------------------------
Init ==
  /\ bindings = <<>>
  /\ pending = <<>>
  /\ closures = <<>>
  /\ answer = Unknown

\* let name = ..., or name = ... where the name is in scope.
Begin(statement, name) ==
  /\ answer = Unknown
  /\ Len(pending) < MaxNested
  /\ statement = "edit" => InScope(bindings, name)
  /\ pending' = <<[statement |-> statement, name |-> name, bindings |-> bindings]>> \o pending
  /\ UNCHANGED <<bindings, closures, answer>>

\* The value is known: what was bound to compute it goes out of scope.
YieldLet(e) ==
  /\ answer = Unknown
  /\ pending # <<>> /\ pending[1].statement = "let"
  /\ Closed(e)
  /\ Len(pending[1].bindings) < MaxDepth
  /\ bindings' = <<Binding(pending[1].name, ValueOf(e))>> \o pending[1].bindings
  /\ pending' = Tail(pending)
  /\ UNCHANGED <<closures, answer>>

YieldEdit(e) ==
  /\ answer = Unknown
  /\ pending # <<>> /\ pending[1].statement = "edit"
  /\ Closed(e)
  /\ bindings' = [pending[1].bindings EXCEPT
                    ![Latest(pending[1].bindings, pending[1].name)].val = ValueOf(e)]
  /\ pending' = Tail(pending)
  /\ UNCHANGED <<closures, answer>>

EnterLoop ==
  /\ answer = Unknown
  /\ Len(bindings) < MaxDepth
  /\ bindings' = <<Binding(Entry, Entry)>> \o bindings
  /\ UNCHANGED <<pending, closures, answer>>

\* func name(param): it knows what is in scope where it is made, and not itself.
Func(name, param) ==
  /\ answer = Unknown
  /\ Len(bindings) < MaxDepth /\ Len(closures) < MaxFuncs
  /\ closures' = Append(closures, [param |-> param, bindings |-> bindings])
  /\ bindings' = <<Binding(name, Len(closures) + 1)>> \o bindings
  /\ UNCHANGED <<pending, answer>>

\* name(e): the body, with its parameter, in the scope where it was made.
Call(name, e) ==
  /\ answer = Unknown
  /\ Closed(name) /\ ValueOf(name) \in DOMAIN closures
  /\ Closed(e)
  /\ LET f == closures[ValueOf(name)]
     IN  /\ Len(f.bindings) + 2 <= MaxDepth
         /\ bindings' = <<Binding(Entry, Entry), Binding(f.param, ValueOf(e))>> \o f.bindings
  /\ UNCHANGED <<pending, closures, answer>>

\* $: what was bound since the latest entry goes out of scope; what was assigned
\* stays.
Again ==
  /\ answer = Unknown
  /\ InScope(bindings, Entry)
  /\ bindings' = Entered
  /\ UNCHANGED <<pending, closures, answer>>

\* $(e): the same, with e in the place of the parameter of a function, or of the
\* latest binding before a loop.
AgainWith(e) ==
  /\ answer = Unknown
  /\ InScope(bindings, Entry)
  /\ Closed(e)
  /\ 2 \in DOMAIN Entered
  /\ bindings' = [Entered EXCEPT ![2].val = ValueOf(e)]
  /\ UNCHANGED <<pending, closures, answer>>

Answer(e) ==
  /\ answer = Unknown
  /\ pending = <<>>
  /\ Closed(e)
  /\ answer' = <<ValueOf(e)>>
  /\ UNCHANGED <<bindings, pending, closures>>

Next ==
  \/ \E statement \in {"let", "edit"}, name \in Name : Begin(statement, name)
  \/ \E e \in Expression : YieldLet(e) \/ YieldEdit(e) \/ Answer(e) \/ AgainWith(e)
  \/ \E name \in Name, e \in Expression : Call(name, e)
  \/ \E name, param \in Name : Func(name, param)
  \/ EnterLoop \/ Again

Spec == Init /\ [][Next]_vars
=============================================================================
