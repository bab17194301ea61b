-------------------------------- MODULE Scope --------------------------------
(***************************************************************************)
(* The spine of the compiler: how let, assignment, functions, calls, loops *)
(* and $ are compiled to axes of a subject (mint in                        *)
(* crates/jock-compiler/src/compiler.rs, axis_at_name and find_buc in      *)
(* subject.rs), and what the code does to the subject when it runs.        *)
(*                                                                         *)
(* One action compiles a statement for the type of the subject and runs    *)
(* its formula on the subject; as in Environment, a behaviour is a path    *)
(* through a program.  A subject [v1 [v2 ... [vn base]]] is the sequence   *)
(* of its values; that of a loop is [code subject] and that of a function  *)
(* [code [argument subject]].  A gate is a number, and what it is made of  *)
(* is kept in gates.  Of the type of a value remains what the search for a *)
(* name can see: its name and, if it is a function, that of its parameter. *)
(***************************************************************************)
EXTENDS Integers, Sequences

CONSTANTS
  Name,      \* the names of a program
  Value,     \* its values, but for functions
  Core,      \* in place of a name and of a value: the code of a loop or a function
  AxisLimit, \* 2^64: what an axis is less than
  MaxDepth,  \* bound: how many values there are in a subject
  MaxNested, \* bound: how many values are being computed within one another
  MaxFuncs   \* bound: how many functions are made

VARIABLES
  types,    \* jyp: the type of the subject
  subject,  \* the noun that the code runs on
  place,    \* what the code here is: the value of a "let" or an "edit", or a "body"
  frames,   \* the statements whose value is being computed, with their subjects
  gates,    \* the functions made
  answer    \* what the program made, or Unknown

vars == <<types, subject, place, frames, gates, answer>>

Unknown == <<>>
NoParam == <<>>

\* The type of a value: a name, and of a function the name of its parameter.
Typed(name, param) == [name |-> name, param |-> param]
CoreType == Typed(Core, NoParam)
Type == [name : Name \cup {Core}, param : Seq(Name)]

\* The values of a subject.
Noun == Value \cup {Core} \cup Nat

\* Axes are doubled in 64 bits.
Wrap(a) == a % AxisLimit

\* The axis axis_at_name and find_buc have reached behind k values: the other
\* half of a cell each time.
TailAxis[k \in Nat] == IF k = 0 THEN 1 ELSE Wrap(2 * TailAxis[k - 1] + 1)

HeadAxis(k) == Wrap(2 * TailAxis[k - 1])

\* What really stands behind k values of a noun.
Spine[k \in Nat] == IF k = 0 THEN 1 ELSE 2 * Spine[k - 1] + 1

\* No program has so many names in scope that an axis outgrows 64 bits; nothing
\* in the compiler checks it (CompileError::AxisOverflow is never made).
ASSUME ScopeAssumption ==
  /\ AxisLimit \in Nat \ {0}
  /\ MaxDepth \in Nat /\ MaxNested \in Nat /\ MaxFuncs \in Nat
  /\ Spine[MaxDepth] < AxisLimit
  /\ Core \notin Name /\ Core \notin Value /\ Core \notin Nat
  /\ Name \cap Value = {} /\ Value \cap Nat = {}
-----------------------------------------------------------------------------
(* Looking up.                                                             *)

\* The search enters a function, and sees its parameter from outside.
Shows(type, name) == type.name = name \/ type.param = <<name>>
IsFunction(type) == type.param # NoParam
IsLambda(type) == type.name = Core \/ IsFunction(type)

\* Types are searched from left to right.
FirstShows(ts, name) ==
  CHOOSE k \in DOMAIN ts : Shows(ts[k], name) /\ \A i \in 1..(k - 1) : ~Shows(ts[i], name)

FirstLambda(ts) ==
  CHOOSE k \in DOMAIN ts : IsLambda(ts[k]) /\ \A i \in 1..(k - 1) : ~IsLambda(ts[i])

\* A program is one of those considered here if every name it uses is bound, and
\* is not that of the parameter of a function bound later (which would be found
\* instead); and if no function is bound between an entry and its $.
InScope(ts, name) ==
  \E k \in DOMAIN ts : ts[k].name = name /\ \A i \in 1..(k - 1) : ~Shows(ts[i], name)
BucInScope(ts) ==
  \E k \in DOMAIN ts : ts[k].name = Core /\ \A i \in 1..(k - 1) : ~IsLambda(ts[i])

AxisAtName(ts, name) == HeadAxis(FirstShows(ts, name))

\* A core is not beside the values behind it but holds them: its own axis.
FindBuc(ts) == TailAxis[FirstLambda(ts) - 1]
-----------------------------------------------------------------------------
(* Nock, on a subject.                                                     *)

\* axis is that of value k of s.
IsAt(axis, k, s) == k \in DOMAIN s /\ axis = 2 * Spine[k - 1]

\* [0 axis]
Slot(axis, s) == s[CHOOSE k \in DOMAIN s : IsAt(axis, k, s)]

\* [10 [axis ...] [0 1]]
Edited(axis, s, v) == [k \in DOMAIN s |-> IF IsAt(axis, k, s) THEN v ELSE s[k]]

\* [0 axis], where the axis is that of what is behind k values.
Rest(axis, s) ==
  LET k == CHOOSE k \in 0..Len(s) : axis = Spine[k]
  IN  SubSeq(s, k + 1, Len(s))

\* An expression is a value or a name: [1 v] or [0 axis].
Expression == Name \cup Value
Compiles(e) == e \in Name => InScope(types, e)
ParamOf(e) == IF e \in Name THEN types[FirstShows(types, e)].param ELSE NoParam
Run(e) == IF e \in Name THEN Slot(AxisAtName(types, e), subject) ELSE e
-----------------------------------------------------------------------------
Init ==
  /\ types = <<>>
  /\ subject = <<>>
  /\ place = "body"
  /\ frames = <<>>
  /\ gates = <<>>
  /\ answer = Unknown

\* The value of a let or of an edit is compiled for the subject it stands in and
\* runs on it.  The name assigned to must be found.
Begin(statement, name) ==
  /\ answer = Unknown
  /\ Len(frames) < MaxNested
  /\ statement = "edit" => InScope(types, name)
  /\ frames' = <<[statement |-> statement, name |-> name, place |-> place,
                  types |-> types, subject |-> subject]>> \o frames
  /\ place' = statement
  /\ UNCHANGED <<types, subject, gates, answer>>

\* [8 val next].  The value of a call or a loop has no type of its own: it is an
\* atom here.
YieldLet(e) ==
  /\ answer = Unknown
  /\ frames # <<>> /\ frames[1].statement = "let"
  /\ Compiles(e) /\ (place = "body" => ParamOf(e) = NoParam)
  /\ Len(frames[1].types) < MaxDepth
  /\ types' = <<Typed(frames[1].name, ParamOf(e))>> \o frames[1].types
  /\ subject' = <<Run(e)>> \o frames[1].subject
  /\ place' = frames[1].place
  /\ frames' = Tail(frames)
  /\ UNCHANGED <<gates, answer>>

\* Mutant of YieldEdit: what follows is not composed with the edit.
YieldEditLost(e) ==
  /\ answer = Unknown
  /\ frames # <<>> /\ frames[1].statement = "edit"
  /\ Compiles(e) /\ (place = "body" => ParamOf(e) = NoParam)
  /\ LET ts == frames[1].types
     IN  /\ (ParamOf(e) = NoParam) <=> ~IsFunction(ts[FirstShows(ts, frames[1].name)])
         /\ types' = ts
         /\ subject' = frames[1].subject
  /\ place' = frames[1].place
  /\ frames' = Tail(frames)
  /\ UNCHANGED <<gates, answer>>

\* [7 [10 [axis val] [0 1]] next]: the type of the subject stays.  Nothing checks
\* that the value has the type of the name; here it is a function if that was one.
YieldEdit(e) ==
  /\ answer = Unknown
  /\ frames # <<>> /\ frames[1].statement = "edit"
  /\ Compiles(e) /\ (place = "body" => ParamOf(e) = NoParam)
  /\ LET ts == frames[1].types
         name == frames[1].name
     IN  /\ (ParamOf(e) = NoParam) <=> ~IsFunction(ts[FirstShows(ts, name)])
         /\ types' = ts
         /\ subject' = Edited(AxisAtName(ts, name), frames[1].subject, Run(e))
  /\ place' = frames[1].place
  /\ frames' = Tail(frames)
  /\ UNCHANGED <<gates, answer>>

\* [8 [1 code] [9 2 [0 1]]].  A loop that is itself the value of a let would give
\* the name the type of the subject.
EnterLoop ==
  /\ answer = Unknown
  /\ place # "let"
  /\ Len(types) < MaxDepth
  /\ types' = <<CoreType>> \o types
  /\ subject' = <<Core>> \o subject
  /\ place' = "body"
  /\ UNCHANGED <<frames, gates, answer>>

\* [8 gate next], where the gate [code [default subject]] is compiled for the
\* subject it stands in.  The type of the function does not hold that subject.
Func(name, param) ==
  /\ answer = Unknown
  /\ Len(types) < MaxDepth /\ Len(gates) < MaxFuncs
  /\ gates' = Append(gates, [param |-> param, types |-> types, subject |-> subject])
  /\ types' = <<Typed(name, <<param>>)>> \o types
  /\ subject' = <<Len(gates) + 1>> \o subject
  /\ UNCHANGED <<place, frames, answer>>

\* Mutant of Call: the code runs on the subject of the call.
CallHere(name, e) ==
  /\ answer = Unknown
  /\ InScope(types, name) /\ ParamOf(name) # NoParam
  /\ Compiles(e) /\ ParamOf(e) = NoParam
  /\ LET gate == gates[Run(name)]
     IN  /\ Len(gate.types) + 2 <= MaxDepth
         /\ types' = <<CoreType, Typed(gate.param, NoParam)>> \o gate.types
         /\ subject' = <<Core, Run(e)>> \o subject
  /\ place' = "body"
  /\ UNCHANGED <<frames, gates, answer>>

\* [8 [0 axis] [9 2 [10 [6 [7 [0 3] e]] [0 2]]]]: the gate's code, on the gate
\* with the argument as its sample.
Call(name, e) ==
  /\ answer = Unknown
  /\ InScope(types, name) /\ ParamOf(name) # NoParam
  /\ Compiles(e) /\ ParamOf(e) = NoParam
  /\ LET gate == gates[Run(name)]
     IN  /\ Len(gate.types) + 2 <= MaxDepth
         /\ types' = <<CoreType, Typed(gate.param, NoParam)>> \o gate.types
         /\ subject' = <<Core, Run(e)>> \o gate.subject
  /\ place' = "body"
  /\ UNCHANGED <<frames, gates, answer>>

\* [9 2 [0 axis]]: the code runs again, on the core where find_buc found it.
Again ==
  /\ answer = Unknown
  /\ BucInScope(types)
  /\ types' = SubSeq(types, FirstLambda(types), Len(types))
  /\ subject' = Rest(FindBuc(types), subject)
  /\ place' = "body"
  /\ UNCHANGED <<frames, gates, answer>>

\* [9 2 [10 [6 [7 [0 1] e]] [0 1]]]: axis 6 of the whole subject, which is the core
\* only where nothing was bound since it was entered.
AgainWith(e) ==
  /\ answer = Unknown
  /\ Len(types) >= 2 /\ types[1].name = Core
  /\ Compiles(e) /\ types[2].name # Core /\ (ParamOf(e) = NoParam <=> ~IsFunction(types[2]))
  /\ subject' = Edited(6, subject, Run(e))
  /\ place' = "body"
  /\ UNCHANGED <<types, frames, gates, answer>>

Answer(e) ==
  /\ answer = Unknown
  /\ frames = <<>>
  /\ Compiles(e)
  /\ answer' = <<Run(e)>>
  /\ UNCHANGED <<types, subject, place, frames, gates>>

Next ==
  \/ \E statement \in {"let", "edit"}, name \in Name : Begin(statement, name)
  \/ \E e \in Expression : YieldLet(e) \/ YieldEdit(e) \/ Answer(e) \/ AgainWith(e)
  \/ \E name \in Name, e \in Expression : Call(name, e)
  \/ \E name, param \in Name : Func(name, param)
  \/ EnterLoop \/ Again

Spec == Init /\ [][Next]_vars
-----------------------------------------------------------------------------
(* Properties.                                                             *)

\* ts describes s, where functions 1 to made exist: the same length, within the
\* bound, with code and functions where it says.
Describes(ts, s, made) ==
  /\ ts \in Seq(Type)
  /\ s \in Seq(Value \cup {Core} \cup (1..made))
  /\ Len(s) = Len(ts)
  /\ Len(ts) <= MaxDepth
  /\ \A k \in 1..Len(ts) : /\ ts[k].name = Core <=> s[k] = Core
                           /\ IsFunction(ts[k]) <=> s[k] \in 1..made

Frame == [statement : {"let", "edit"}, name : Name, place : {"let", "edit", "body"},
          types : Seq(Type), subject : Seq(Noun)]
Gate == [param : Name, types : Seq(Type), subject : Seq(Noun)]

\* At every moment, inside of the value of a statement, in the body of a function
\* and after $, the type that the code was compiled for describes the subject
\* that it runs on; and a name that is being assigned is still where it was found.
TypeOK ==
  /\ Describes(types, subject, Len(gates))
  /\ place \in {"let", "edit", "body"}
  /\ frames \in Seq(Frame)
  /\ \A i \in 1..Len(frames) :
       /\ Describes(frames[i].types, frames[i].subject, Len(gates))
       /\ frames[i].statement = "edit" => InScope(frames[i].types, frames[i].name)
  /\ gates \in Seq(Gate)
  /\ \A i \in 1..Len(gates) : Describes(gates[i].types, gates[i].subject, Len(gates))
  /\ answer \in Seq(Value \cup (1..Len(gates)))

\* The names of a type with the values of a subject.
Zip(ts, s) == [k \in DOMAIN ts |-> [name |-> ts[k].name, val |-> s[k]]]

Pending(fs) == [i \in DOMAIN fs |->
                  [statement |-> fs[i].statement, name |-> fs[i].name,
                   bindings |-> Zip(fs[i].types, fs[i].subject)]]
Closures(gs) == [i \in DOMAIN gs |->
                   [param |-> gs[i].param, bindings |-> Zip(gs[i].types, gs[i].subject)]]

Env == INSTANCE Environment WITH
         Entry <- Core,
         bindings <- Zip(types, subject),
         pending <- Pending(frames),
         closures <- Closures(gates)

\* The axes do what the names promise: a name is read and assigned where it was
\* last bound, an assignment survives $ and a binding does not, what a nested
\* expression or a call binds or assigns is gone when it has its value, and a
\* function finds its scope as it was when the function was made.
ImplementsEnvironment == Env!Spec
=============================================================================
