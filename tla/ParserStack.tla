----------------------------- MODULE ParserStack -----------------------------
(***************************************************************************)
(* What the calls under way owe: the values that each of them will find    *)
(* and leave, and the brackets that it will take.                          *)
(***************************************************************************)
EXTENDS Parser

\* The values that an entry of todo takes from those read before.
Needs(item) ==
  CASE item.do = "expect" -> 0
    [] item.do = "build" -> item.n
    [] item.do = "rename" -> 1
    [] item.do = "call" ->
         CASE item.what \in {"infix", "inner-infix", "after-name", "axis-call", "lambda-call",
                             "second-jype", "unreserved"} -> 1
           [] item.what \in {"tuple", "set", "list", "wing", "cases"} -> item.n
           [] item.what \in {"fields", "methods"} -> item.n + 1
           [] item.what = "attach" -> 2
           [] OTHER -> 0

\* Those that it leaves.  But for "last-case", which looks at a token, and what
\* a loop or a build leaves, that is one value, the one of the function.
Leaves(item) ==
  CASE item.do = "expect" -> 0
    [] item.do = "call" /\ item.what = "last-case" -> 0
    [] OTHER -> 1

\* How many values there will be after the first k entries.
Values ==
  LET n[k \in Nat] == IF k = 0 THEN Len(vals)
                      ELSE n[k - 1] - Needs(todo[k]) + Leaves(todo[k])
  IN  n
-----------------------------------------------------------------------------
(* Brackets.  What closes those still open is a pair of the innermost and  *)
(* what closes the others.                                                 *)

Closing == [b \in {"(", "((", LBrace, "["} |->
              CASE b \in {"(", "(("} -> ")" [] b = LBrace -> RBrace [] b = "[" -> "]"]

\* After one more token.  What closes nothing stays.
Take(open, t) ==
  CASE t \in DOMAIN Closing -> <<Closing[t], open>>
    [] t \in {")", RBrace, "]"} ->
         IF open # <<>> /\ open[1] = t THEN open[2] ELSE <<"mismatch", open>>
    [] OTHER -> open

\* After the first k of ts.
Opened(ts, open) ==
  LET o[k \in Nat] == IF k = 0 THEN open ELSE Take(o[k - 1], ts[k])
  IN  o

\* The bracket that an entry of todo will take, if any.
Owes(item) ==
  CASE item.do = "expect" -> item.what
    [] item.do = "call" /\ item.what \in DOMAIN Closer -> Closer[item.what]
    [] item.do = "call" /\ item.what \in {"fields", "methods"} -> RBrace
    [] item.do = "call" /\ item.what \in {"argument", "parameter", "result"} -> ")"
    [] OTHER -> "none"

\* A "(" that may have been read as that of the call whose "((" it follows.
Swallowed == \E i \in 1..(pos - 1) : input[i] = "((" /\ Token(i + 1) = "("
-----------------------------------------------------------------------------
(* Progress.  A function that takes no token before it calls another has a *)
(* higher rank than what it calls.                                         *)

Rank(item) ==
  CASE item.do # "call" -> 1
    [] item.do = "call" /\ item.what \in {"tuple", "set", "list", "argument", "parameter"} -> 6
    [] item.do = "call" /\ item.what \in {"inner", "cases", "methods", "second-jype"} -> 5
    [] item.do = "call" /\ item.what \in {"jock", "body"} -> 4
    [] item.do = "call" /\ item.what \in {"punctuator", "jype", "wing"} -> 3
    [] item.do = "call" /\ item.what \in {"lambda", "result", "axis-call", "lambda-call"} -> 2
    [] OTHER -> 1

\* May an entry be done with without a token?
Tokenless(item) ==
  \/ item.do \in {"build", "rename"}
  \/ item.do = "call" /\ item.what \in {"infix", "inner-infix", "wing", "after-name", "axis-call",
                                        "lambda-call", "jype", "leaf", "second-jype",
                                        "unreserved", "attach", "cases", "last-case"}

\* The ranks of the entries up to the first that takes a token.
Ranks(entries) ==
  LET ranks[k \in Nat] ==
        IF k = 0 THEN 0
        ELSE LET item == entries[Len(entries) + 1 - k]
             IN  Rank(item) + (IF Tokenless(item) THEN ranks[k - 1] ELSE 0)
  IN  ranks[Len(entries)]
-----------------------------------------------------------------------------
(* Properties.                                                             *)

Kinds == {"parsing", "parsed", "unexpected", "end", "reserved"}

\* Every function under way will find the values of those it calls, whatever
\* is still to be read: none is lost and none is left over, so that a parser that
\* succeeds has made one expression of all the tokens.
TypeOK ==
  /\ pos \in 1..(Len(input) + 1)
  /\ outcome.kind \in Kinds /\ outcome.at \in 0..(Len(input) + 1)
  /\ \A k \in DOMAIN todo : /\ todo[k].do \in {"call", "expect", "build", "rename"}
                            /\ Values[k - 1] >= Needs(todo[k])
  /\ Values[Len(todo)] = 1
  /\ outcome.kind = "parsed" => todo = <<>> /\ pos = Len(input) + 1

\* The tokens read so far, followed by the brackets that the calls under way will
\* take, are balanced: no function leaves a bracket to its caller or takes one of
\* its caller's.
Nested ==
  LET read == Opened(input, <<>>)[pos - 1]
      owed == [k \in DOMAIN todo |-> Owes(todo[k])]
  IN  ~Swallowed => Opened(owed, read)[Len(todo)] = <<>>

\* The descent comes down.  From one token to the next there is only so much to call:
\* no function calls itself before it has taken a token, and no loop goes round
\* without one, whatever the tokens are.
Nearer ==
  \/ pos' > pos
  \/ pos' = pos /\ Ranks(todo') < Ranks(todo)
  \/ outcome'.kind # "parsing"
Descends == [][Nearer]_vars
=============================================================================
