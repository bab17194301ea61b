----------------------------- MODULE Preprocess -----------------------------
(***************************************************************************)
(* ++preprocess of crates/jockc/hoon/main.hoon: the numeric arguments of   *)
(* the command line replace #0, #1, ... in the text of the program before  *)
(* it is compiled.  The trap of the code is a machine here, one step a     *)
(* round.  A text is a sequence of characters; arguments arrive printed.   *)
(***************************************************************************)
EXTENDS Integers, Sequences

CONSTANTS
  Char,      \* the characters of texts
  Bodies,    \* the texts of programs
  Arguments, \* the lists of printed arguments (scot %ud)
  Numeral    \* the characters of the ten digits, by value

ASSUME PreprocessAssumption ==
  /\ Numeral \in [0..9 -> Char]
  /\ Bodies \subseteq Seq(Char) /\ Arguments \subseteq Seq(Seq(Char))
  /\ \A list \in Arguments : \A i \in 1..Len(list) :  \* printed numbers
       \A k \in 1..Len(list[i]) : list[i][k] # "#"

VARIABLES
  text,  \* the text of the program
  args,  \* arg, the printed arguments
  body,  \* the text so far
  idx,   \* the argument to insert next
  done   \* has the trap returned?

vars == <<text, args, body, idx, done>>

Digits(n) ==
  LET d[m \in Nat] == IF m < 10 THEN <<Numeral[m]>>
                                ELSE Append(d[m \div 10], Numeral[m % 10])
  IN  d[n]

\* scow %ud puts a dot before every group of three digits.  Only the length of
\* a printed offset matters, and the digits of an index below one thousand.
PrintedLen(n) == LET k == Len(Digits(n)) IN k + (k - 1) \div 3

Key(i) == <<"#">> \o Digits(i)

\* off \in {find Key(i) in b}: the offset, from 0, of the first occurrence.
Occurs(b, off, key) ==
  /\ off + Len(key) <= Len(b)
  /\ \A k \in 1..Len(key) : b[off + k] = key[k]

Find(b, key, off) ==
  Occurs(b, off, key) /\ \A o \in 0..(off - 1) : ~Occurs(b, o, key)

\* slag n: the text without its first n characters.
Slag(n, b) == SubSeq(b, n + 1, Len(b))

Init ==
  /\ text \in Bodies
  /\ args \in Arguments
  /\ body = text
  /\ idx = 0
  /\ done = FALSE

Return ==
  /\ ~done
  /\ idx = Len(args)
  /\ done' = TRUE
  /\ UNCHANGED <<text, args, body, idx>>

\* No placeholder for this argument.
Absent ==
  /\ ~done /\ idx < Len(args)
  /\ ~\E off \in 0..Len(body) : Occurs(body, off, Key(idx))
  /\ idx' = idx + 1
  /\ UNCHANGED <<text, args, body, done>>

\* Mutant of Insert: the first occurrence is looked for from the second on.
InsertLate ==
  /\ ~done /\ idx < Len(args)
  /\ \E off \in 0..Len(body) :
       /\ Occurs(body, off, Key(idx))
       /\ \A o \in (off + 1)..Len(body) : ~Occurs(body, o, Key(idx))
       /\ body' = SubSeq(body, 1, off) \o args[idx + 1]
                    \o Slag(off + PrintedLen(off) - 1, body)
  /\ idx' = idx + 1
  /\ UNCHANGED <<text, args, done>>

\* Mutant of Insert: one character too few is kept before the placeholder.
InsertEarly ==
  /\ ~done /\ idx < Len(args)
  /\ \E off \in 0..Len(body) :
       /\ Find(body, Key(idx), off)
       /\ body' = SubSeq(body, 1, off - 1) \o args[idx + 1]
                    \o Slag(off + PrintedLen(off) - 1, body)
  /\ idx' = idx + 1
  /\ UNCHANGED <<text, args, done>>

\* bot drops as many characters as the printed offset has, not as many as the
\* placeholder has.
Insert ==
  /\ ~done /\ idx < Len(args)
  /\ \E off \in 0..Len(body) :
       /\ Find(body, Key(idx), off)
       /\ body' = SubSeq(body, 1, off) \o args[idx + 1]
                    \o Slag(off + PrintedLen(off) - 1, body)
  /\ idx' = idx + 1
  /\ UNCHANGED <<text, args, done>>

Next == Return \/ Absent \/ Insert

Spec == Init /\ [][Next]_vars
-----------------------------------------------------------------------------
(* Properties.                                                             *)

\* What is meant: the first placeholder of an argument, and nothing else of
\* the text, is replaced; then that of the next argument.
Replaced(b, i) ==
  LET at == {off \in 0..Len(b) : Find(b, Key(i), off)}
      off == CHOOSE o \in at : TRUE
  IN  IF at = {} THEN b
      ELSE SubSeq(b, 1, off) \o args[i + 1] \o Slag(off + Len(Key(i)), b)

After[n \in 0..Len(args)] == IF n = 0 THEN text ELSE Replaced(After[n - 1], n - 1)

\* The result is the text with its arguments inserted.
Substituted == done => body = After[Len(args)]

\* The characters of the first n arguments, which move a "#" behind them by
\* that much at most.
Width[n \in 0..Len(args)] == IF n = 0 THEN 0 ELSE Width[n - 1] + Len(args[n])

\* Every "#" is at an offset that prints in three digits, also with room more
\* characters before it.
Middle(b, room) ==
  \A off \in 0..(Len(b) - 1) : b[off + 1] = "#" => off \in 100..(999 - room)

\* It is where every "#" stands at an offset printed in three digits, one more
\* than the characters of a placeholder, whatever has been inserted before it,
\* and an index is one digit: then the length that is cut out is right by accident.
SubstitutedMiddle ==
  Middle(text, Width[Len(args)]) /\ Len(args) <= 10 => Substituted

\* Characters before every "#" are never touched, however often and wherever
\* arguments are inserted.  A "#" before the first placeholder is not safe: with
\* the argument inserted after it, it can make a placeholder of another one.
PrefixKept ==
  LET marks == {j \in 1..Len(text) : text[j] = "#"}
  IN  \A k \in 1..Len(text) :
        (\A j \in marks : k < j) => Len(body) >= k /\ body[k] = text[k]
=============================================================================
