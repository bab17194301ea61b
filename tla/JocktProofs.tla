---------------------------- MODULE JocktProofs ----------------------------
(***************************************************************************)
(* The safety of jockt for any number of libraries, programs and runs.     *)
(***************************************************************************)
EXTENDS JocktKernel, TLAPS

LEMMA EmptyMap == NoLibs \in LibMap
<1>1. NoLibs \in [{} -> Text] /\ {} \in SUBSET Name
  BY DEF NoLibs
<1> QED
  BY <1>1 DEF LibMap

LEMMA InitTyped == Init => TypeOK
<1> SUFFICES ASSUME Init PROVE TypeOK
  OBVIOUS
<1>1. runs \in 0..MaxRuns /\ command \in Command
  BY JocktAssumption DEF Init, Command
<1>2. Len(inbox) = 0 /\ inbox \in Seq(Drivers) /\ 1..Len(inbox) = {}
  BY DEF Init
<1>3. /\ \A d \in Drivers : driver[d] = "done"
      /\ driver \in [Drivers -> {"send", "wait", "done"}]
  BY DEF Init
<1>4. running \in BOOLEAN /\ found \in LibMap /\ booted \in LibMap /\ libs \in LibMap
      /\ saved \in LibMap /\ outcome.libs \in LibMap
      /\ outcome.result = "pending"
  BY EmptyMap DEF Init, Pending
<1>5. /\ \A i, j \in 1..Len(inbox) : inbox[i] = inbox[j] => i = j
      /\ \A d \in Drivers :
           driver[d] = "wait" <=> \E i \in 1..Len(inbox) : inbox[i] = d
  BY <1>2, <1>3
<1> QED
  BY <1>1, <1>2, <1>3, <1>4, <1>5 DEF TypeOK

\* Every command has a result, and it is not the one of a command not yet run.
LEMMA ResultTyped ==
  ASSUME TypeOK
  PROVE  \A result \in Result : result \in {"ran", "crashed", "range"}
<1>1. CASE command.kind = "all"
  BY <1>1 DEF Result
<1>2. CASE command.kind = "exec" /\ command.n \in Nat
  <2>1. CASE command.n >= NumJocks
    BY <1>2, <2>1 DEF Result
  <2>2. CASE ~(command.n >= NumJocks)
    <3>1. command.n < NumJocks
      BY <1>2, <2>2, JocktAssumption
    <3> QED
      BY <1>2, <2>2, <3>1 DEF Result
  <2> QED
    BY <2>1, <2>2
<1>3. CASE command.kind = "test" /\ command.n \in Nat
  <2>1. CASE command.n >= NumTests
    BY <1>3, <2>1 DEF Result
  <2>2. CASE ~(command.n >= NumTests)
    <3>1. command.n < NumTests
      BY <1>3, <2>2, JocktAssumption
    <3> QED
      BY <1>3, <2>2, <3>1 DEF Result
  <2> QED
    BY <2>1, <2>2
<1> QED
  BY <1>1, <1>2, <1>3 DEF TypeOK, Command

\* The answer to a driver takes its one poke out of the inbox.
LEMMA AnswerTyped ==
  ASSUME TypeOK, NEW d \in Drivers, Answer(d)
  PROVE  /\ inbox' \in Seq(Drivers)
         /\ driver[d] = "wait"
         /\ driver' \in [Drivers -> {"send", "wait", "done"}]
         /\ \A e \in Drivers :
              driver'[e] = "wait" <=> \E i \in 1..Len(inbox') : inbox'[i] = e
         /\ \A i, j \in 1..Len(inbox') : inbox'[i] = inbox'[j] => i = j
<1>1. /\ inbox \in Seq(Drivers) /\ Len(inbox) > 0 /\ inbox[1] = d
      /\ inbox' = Tail(inbox) /\ driver' = [driver EXCEPT ![d] = "done"]
      /\ driver \in [Drivers -> {"send", "wait", "done"}]
  BY DEF TypeOK, Answer
<1>2. /\ inbox' \in Seq(Drivers) /\ Len(inbox') = Len(inbox) - 1
      /\ \A i \in 1..Len(inbox') : inbox'[i] = inbox[i + 1]
  BY <1>1
<1>3. \A i, j \in 1..Len(inbox) : inbox[i] = inbox[j] => i = j
  BY DEF TypeOK
<1>4. 1 \in 1..Len(inbox) /\ Len(inbox) \in Nat
  BY <1>1
<1>5. driver[d] = "wait"
  BY <1>1, <1>4 DEF TypeOK
<1>6. \A i, j \in 1..Len(inbox') : inbox'[i] = inbox'[j] => i = j
  <2> SUFFICES ASSUME NEW i \in 1..Len(inbox'), NEW j \in 1..Len(inbox'),
                      inbox'[i] = inbox'[j]
               PROVE  i = j
    OBVIOUS
  <2>1. i + 1 \in 1..Len(inbox) /\ j + 1 \in 1..Len(inbox)
    BY <1>2, <1>4
  <2>2. i + 1 = j + 1
    BY <1>2, <1>3, <2>1
  <2> QED
    BY <2>2
<1>7. ASSUME NEW e \in Drivers
      PROVE  driver'[e] = "wait" <=> \E i \in 1..Len(inbox') : inbox'[i] = e
  <2>1. CASE e = d
    <3>1. driver'[e] = "done"
      BY <1>1, <2>1
    <3>2. ASSUME NEW i \in 1..Len(inbox'), inbox'[i] = e
          PROVE  FALSE
      <4>1. i + 1 \in 1..Len(inbox) /\ i + 1 # 1 /\ inbox[i + 1] = inbox[1]
        BY <1>1, <1>2, <1>4, <2>1, <3>2
      <4> QED
        BY <1>3, <1>4, <4>1
    <3> QED
      BY <3>1, <3>2
  <2>2. CASE e # d
    <3>1. driver'[e] = driver[e]
      BY <1>1, <2>2
    <3>2. (\E i \in 1..Len(inbox) : inbox[i] = e)
            <=> (\E i \in 1..Len(inbox') : inbox'[i] = e)
      <4>1. ASSUME NEW i \in 1..Len(inbox), inbox[i] = e
            PROVE  \E k \in 1..Len(inbox') : inbox'[k] = e
        <5>1. i # 1
          BY <1>1, <2>2, <4>1
        <5>2. i - 1 \in 1..Len(inbox') /\ (i - 1) + 1 = i
          BY <1>2, <1>4, <5>1
        <5> QED
          BY <1>2, <4>1, <5>2
      <4>2. ASSUME NEW i \in 1..Len(inbox'), inbox'[i] = e
            PROVE  \E k \in 1..Len(inbox) : inbox[k] = e
        <5>1. i + 1 \in 1..Len(inbox)
          BY <1>2, <1>4
        <5> QED
          BY <1>2, <4>2, <5>1
      <4> QED
        BY <4>1, <4>2
    <3> QED
      BY <3>1, <3>2 DEF TypeOK
  <2> QED
    BY <2>1, <2>2
<1> QED
  BY <1>1, <1>2, <1>5, <1>6, <1>7

\* Every driver has at most one poke in flight, and the state has its types.
THEOREM JocktTypes == Spec => []TypeOK
<1>1. TypeOK /\ [Next]_vars => TypeOK'
  <2> SUFFICES ASSUME TypeOK, [Next]_vars
               PROVE  TypeOK'
    OBVIOUS
  <2>1. ASSUME NEW new \in BOOLEAN, NEW dir \in LibMap, NEW cmd \in Command,
               Start(new, dir, cmd)
        PROVE  TypeOK'
    <3>1. /\ found' \in LibMap /\ booted' \in LibMap /\ libs' \in LibMap
          /\ saved' \in LibMap /\ outcome'.libs \in LibMap
      BY <2>1, EmptyMap DEF Start, TypeOK, Pending
    <3>2. /\ runs' \in 0..MaxRuns /\ running' \in BOOLEAN /\ command' \in Command
          /\ outcome'.result = "pending"
      BY <2>1, JocktAssumption DEF Start, TypeOK, Pending
    <3>3. inbox' \in Seq(Drivers) /\ Len(inbox') = 0
      BY <2>1 DEF Start
    <3>4. driver' \in [Drivers -> {"send", "wait", "done"}]
      BY <2>1 DEF Start, Drivers
    <3>5. \A d \in Drivers : driver'[d] # "wait"
      BY <2>1 DEF Start, Drivers
    <3> QED
      BY <3>1, <3>2, <3>3, <3>4, <3>5 DEF TypeOK
  <2>2. ASSUME NEW d \in Drivers, Punch(d)
        PROVE  TypeOK'
    <3>1. /\ inbox \in Seq(Drivers) /\ Len(inbox) \in Nat
          /\ driver \in [Drivers -> {"send", "wait", "done"}]
      BY DEF TypeOK
    <3>2. /\ inbox' \in Seq(Drivers) /\ Len(inbox') = Len(inbox) + 1
          /\ inbox'[Len(inbox) + 1] = d
          /\ \A i \in 1..Len(inbox) : inbox'[i] = inbox[i]
      BY <2>2, <3>1 DEF Punch
    <3>3. /\ driver' \in [Drivers -> {"send", "wait", "done"}]
          /\ driver'[d] = "wait" /\ driver[d] = "send"
          /\ \A e \in Drivers \ {d} : driver'[e] = driver[e]
      BY <2>2, <3>1 DEF Punch
    <3>4. ~\E i \in 1..Len(inbox) : inbox[i] = d
      BY <3>3 DEF TypeOK
    <3>5. \A e \in Drivers :
            driver'[e] = "wait" <=> \E i \in 1..Len(inbox') : inbox'[i] = e
      <4> TAKE e \in Drivers
      <4>1. CASE e = d
        BY <3>1, <3>2, <3>3, <4>1
      <4>2. CASE e # d
        <5>1. (\E i \in 1..Len(inbox) : inbox[i] = e)
                <=> (\E i \in 1..Len(inbox') : inbox'[i] = e)
          BY <3>1, <3>2, <4>2
        <5> QED
          BY <3>3, <4>2, <5>1 DEF TypeOK
      <4> QED
        BY <4>1, <4>2
    <3>6. \A i, j \in 1..Len(inbox') : inbox'[i] = inbox'[j] => i = j
      BY <3>1, <3>2, <3>4 DEF TypeOK
    <3>7. UNCHANGED <<running, found, command, booted, libs, saved, outcome, runs>>
      BY <2>2 DEF Punch
    <3> QED
      BY <3>2, <3>3, <3>5, <3>6, <3>7 DEF TypeOK
  <2>3. CASE Finish \/ Checkpoint \/ Kill
    <3>1. /\ running' \in BOOLEAN /\ saved' \in LibMap
          /\ UNCHANGED <<found, command, booted, driver, inbox, libs, outcome, runs>>
      BY <2>3 DEF Finish, Checkpoint, Kill, TypeOK
    <3> QED
      BY <3>1 DEF TypeOK
  <2>4. CASE LoadLibs
    <3>1. "loader" \in Drivers /\ Answer("loader")
      BY <2>4 DEF LoadLibs, Drivers
    <3>2. /\ inbox' \in Seq(Drivers)
          /\ driver' \in [Drivers -> {"send", "wait", "done"}]
          /\ \A e \in Drivers :
               driver'[e] = "wait" <=> \E i \in 1..Len(inbox') : inbox'[i] = e
          /\ \A i, j \in 1..Len(inbox') : inbox'[i] = inbox'[j] => i = j
      BY <3>1, AnswerTyped
    <3>3. /\ libs' = found
          /\ UNCHANGED <<running, found, command, booted, saved, runs, outcome>>
      BY <2>4 DEF LoadLibs, Answer
    <3> QED
      BY <3>2, <3>3 DEF TypeOK
  <2>5. CASE RunCommand
    <3>1. "commander" \in Drivers /\ Answer("commander")
      BY <2>5 DEF RunCommand, Drivers
    <3>2. outcome'.result \in {"ran", "crashed", "range"} /\ outcome'.libs = libs
      BY <2>5, ResultTyped DEF RunCommand
    <3>3. /\ inbox' \in Seq(Drivers)
          /\ driver' \in [Drivers -> {"send", "wait", "done"}]
          /\ \A e \in Drivers :
               driver'[e] = "wait" <=> \E i \in 1..Len(inbox') : inbox'[i] = e
          /\ \A i, j \in 1..Len(inbox') : inbox'[i] = inbox'[j] => i = j
      BY <3>1, AnswerTyped
    <3>4. UNCHANGED <<running, found, command, booted, saved, runs, libs>>
      BY <2>5 DEF RunCommand, Answer
    <3> QED
      BY <3>2, <3>3, <3>4 DEF TypeOK
  <2>6. CASE UNCHANGED vars
    BY <2>6 DEF vars, TypeOK
  <2> QED
    BY <2>1, <2>2, <2>3, <2>4, <2>5, <2>6 DEF Next
<1> QED
  BY <1>1, InitTyped, PTL DEF Spec

\* A loader that is not done has something to load.
LoaderNeeded == running /\ driver["loader"] # "done" => found # NoLibs

\* Whatever is loaded, run, saved, killed and restarted, the kernel holds the
\* libraries of one run, and which run follows from the loader alone.
THEOREM JocktLibs == Spec => []LibsOfOneRun
<1> DEFINE Inv == LibsOfOneRun /\ LoaderNeeded
<1>1. Init => Inv
  BY DEF Init, LibsOfOneRun, LoaderNeeded
<1>2. TypeOK /\ Inv /\ [Next]_vars => Inv'
  <2> SUFFICES ASSUME TypeOK, LibsOfOneRun, LoaderNeeded, [Next]_vars
               PROVE  LibsOfOneRun' /\ LoaderNeeded'
    OBVIOUS
  <2>0. driver \in [Drivers -> {"send", "wait", "done"}] /\ "loader" \in Drivers
    BY DEF TypeOK, Drivers
  <2>1. ASSUME NEW new, NEW dir, NEW cmd, Start(new, dir, cmd)
        PROVE  LibsOfOneRun' /\ LoaderNeeded'
    BY <2>1 DEF Start, LibsOfOneRun, LoaderNeeded, Expected
  <2>2. ASSUME NEW d \in Drivers, Punch(d)
        PROVE  LibsOfOneRun' /\ LoaderNeeded'
    <3>1. driver'["loader"] = "done" <=> driver["loader"] = "done"
      BY <2>0, <2>2 DEF Punch
    <3> QED
      BY <2>2, <3>1 DEF Punch, LibsOfOneRun, LoaderNeeded, Expected
  <2>3. CASE Finish \/ Checkpoint \/ Kill
    BY <2>3 DEF Finish, Checkpoint, Kill, LibsOfOneRun, LoaderNeeded, Expected
  <2>4. CASE LoadLibs
    <3>1. driver["loader"] = "wait"
      BY <2>0, <2>4, AnswerTyped DEF LoadLibs
    <3>2. driver'["loader"] = "done"
      BY <2>0, <2>4 DEF LoadLibs, Answer
    <3> QED
      BY <2>4, <3>1, <3>2
      DEF LoadLibs, Answer, LibsOfOneRun, LoaderNeeded, Expected
  <2>5. CASE RunCommand
    <3>1. driver'["loader"] = driver["loader"]
      BY <2>0, <2>5 DEF RunCommand, Answer, Drivers
    <3> QED
      BY <2>5, <3>1 DEF RunCommand, Answer, LibsOfOneRun, LoaderNeeded, Expected
  <2>6. CASE UNCHANGED vars
    BY <2>6 DEF vars, LibsOfOneRun, LoaderNeeded, Expected
  <2> QED
    BY <2>1, <2>2, <2>3, <2>4, <2>5, <2>6 DEF Next
<1> QED
  BY <1>1, <1>2, JocktTypes, PTL DEF Spec

\* A commander that is done has an outcome.
THEOREM JocktAnswered == Spec => Answered
<1> DEFINE Done == running /\ driver["commander"] = "done"
                     => outcome.result # "pending"
<1>1. Init => Done
  BY DEF Init
<1>2. TypeOK /\ Done /\ [Next]_vars => Done'
  <2> SUFFICES ASSUME TypeOK, Done, [Next]_vars
               PROVE  Done'
    OBVIOUS
  <2>0. /\ driver \in [Drivers -> {"send", "wait", "done"}]
        /\ "commander" \in Drivers /\ "loader" \in Drivers
    BY DEF TypeOK, Drivers
  <2>1. CASE \E new \in BOOLEAN, dir \in LibMap, cmd \in Command : Start(new, dir, cmd)
    BY <2>1 DEF Start
  <2>2. CASE \E d \in Drivers : Punch(d)
    BY <2>0, <2>2 DEF Punch
  <2>3. CASE Finish \/ Checkpoint \/ Kill \/ UNCHANGED vars
    BY <2>3 DEF Finish, Checkpoint, Kill, vars
  <2>4. CASE LoadLibs
    BY <2>0, <2>4 DEF LoadLibs, Answer
  <2>5. CASE RunCommand
    BY <2>5, ResultTyped DEF RunCommand
  <2> QED
    BY <2>1, <2>2, <2>3, <2>4, <2>5 DEF Next
<1>3. Done /\ [Next]_vars => [Finish => outcome.result # "pending"]_vars
  BY DEF Finish, Drivers
<1> QED
  BY <1>1, <1>2, <1>3, JocktTypes, PTL DEF Spec, Answered
=============================================================================
