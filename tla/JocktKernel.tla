---------------------------- MODULE JocktKernel ----------------------------
(***************************************************************************)
(* The test framework jockt: crates/jockt/main.rs, the host process, and   *)
(* crates/jockt/hoon/main.hoon, the kernel it boots.                       *)
(*                                                                         *)
(* The host reads a directory of libraries and starts up to two            *)
(* one_punch drivers, each of which sends one poke: %loadlibs, when any    *)
(* library was found, and the command.  The drivers are concurrent tasks,  *)
(* so that nothing orders their pokes.  The kernel takes one poke at a     *)
(* time; its only state is the map of libraries, which survives in a       *)
(* checkpoint from one run of the host to the next.                        *)
(*                                                                         *)
(* Outside the repository: the NockApp that runs drivers and kernel.  It   *)
(* delivers pokes in the order they are sent, undoes the event of a poke   *)
(* that crashes, may write a checkpoint at any time and does so when all   *)
(* drivers are done; a process that is killed restarts from the last one.  *)
(***************************************************************************)
EXTENDS Naturals, Sequences

CONSTANTS
  Name,      \* names of libraries
  Text,      \* texts of libraries
  NumJocks,  \* lent list-jocks
  NumTests,  \* test-jocks, in groups of four
  MaxIndex,  \* bound: the largest index given on the command line
  MaxRuns    \* bound: how often the host is started

ASSUME JocktAssumption ==
  NumJocks \in Nat /\ NumTests \in Nat /\ MaxIndex \in Nat /\ MaxRuns \in Nat

\* (map term cord)
LibMap == UNION {[names -> Text] : names \in SUBSET Name}
NoLibs == [name \in {} |-> name]

Command == [kind : {"exec", "test"}, n : 0..MaxIndex] \cup [kind : {"all"}]

VARIABLES
  running,  \* is there a host process?
  found,    \* the libraries read from --import-dir
  command,  \* the command
  booted,   \* the libraries the kernel was booted with
  driver,   \* what each driver does next
  inbox,    \* pokes sent and not yet handled
  libs,     \* libs.k, the state of the kernel
  saved,    \* the checkpoint
  outcome,  \* how the command's poke went, and with which libraries
  runs      \* how many runs were started

vars == <<running, found, command, booted, driver, inbox, libs, saved, outcome, runs>>

Pending == [result |-> "pending", libs |-> NoLibs]
Drivers == {"loader", "commander"}

Init ==
  /\ running = FALSE
  /\ found = NoLibs
  /\ command = [kind |-> "all"]
  /\ booted = NoLibs
  /\ driver = [d \in Drivers |-> "done"]
  /\ inbox = <<>>
  /\ libs = NoLibs
  /\ saved = NoLibs
  /\ outcome = Pending
  /\ runs = 0
-----------------------------------------------------------------------------
(* The host.                                                               *)

\* Mutant of Start: a loader that was never started is waited for.
StartAwaitsLoader(new, dir, cmd) ==
  /\ ~running
  /\ runs < MaxRuns
  /\ running' = TRUE
  /\ found' = dir
  /\ command' = cmd
  /\ libs' = IF new THEN NoLibs ELSE saved
  /\ booted' = libs'
  /\ driver' = [loader |-> IF dir = NoLibs THEN "wait" ELSE "send",
                commander |-> "send"]
  /\ inbox' = <<>>
  /\ outcome' = Pending
  /\ runs' = runs + 1
  /\ UNCHANGED saved

\* main: boot from the checkpoint, or from nothing with --new.  There is a
\* loader only if a library was found.
Start(new, dir, cmd) ==
  /\ ~running
  /\ runs < MaxRuns
  /\ running' = TRUE
  /\ found' = dir
  /\ command' = cmd
  /\ libs' = IF new THEN NoLibs ELSE saved
  /\ booted' = libs'
  /\ driver' = [loader |-> IF dir = NoLibs THEN "done" ELSE "send",
                commander |-> "send"]
  /\ inbox' = <<>>
  /\ outcome' = Pending
  /\ runs' = runs + 1
  /\ UNCHANGED saved

\* A one_punch driver sends its poke and waits for the answer.
\* Mutant of Punch: the poke is sent again, as if the answer had been lost.
PunchTwice(d) ==
  /\ running
  /\ driver[d] = "send"
  /\ driver' = [driver EXCEPT ![d] = "wait"]
  /\ inbox' = inbox \o <<d, d>>
  /\ UNCHANGED <<running, found, command, booted, libs, saved, outcome, runs>>

Punch(d) ==
  /\ running
  /\ driver[d] = "send"
  /\ driver' = [driver EXCEPT ![d] = "wait"]
  /\ inbox' = Append(inbox, d)
  /\ UNCHANGED <<running, found, command, booted, libs, saved, outcome, runs>>

\* Mutant of Finish: the first driver that is done ends the run.
FinishFirst ==
  /\ running
  /\ \E d \in Drivers : driver[d] = "done"
  /\ running' = FALSE
  /\ saved' = libs
  /\ UNCHANGED <<found, command, booted, driver, inbox, libs, outcome, runs>>

\* run() returns when the drivers are done.
Finish ==
  /\ running
  /\ \A d \in Drivers : driver[d] = "done"
  /\ running' = FALSE
  /\ saved' = libs
  /\ UNCHANGED <<found, command, booted, driver, inbox, libs, outcome, runs>>

Checkpoint ==
  /\ running
  /\ saved' = libs
  /\ UNCHANGED <<running, found, command, booted, driver, inbox, libs, outcome, runs>>

Kill ==
  /\ running
  /\ running' = FALSE
  /\ UNCHANGED <<found, command, booted, driver, inbox, libs, saved, outcome, runs>>
-----------------------------------------------------------------------------
(* The kernel: one poke at a time.                                         *)

Answer(d) ==
  /\ running
  /\ inbox # <<>> /\ Head(inbox) = d
  /\ inbox' = Tail(inbox)
  /\ driver' = [driver EXCEPT ![d] = "done"]
  /\ UNCHANGED <<running, found, command, booted, saved, runs>>

\* Mutant of LoadLibs: the libraries are added to the map.
LoadLibsMerge ==
  /\ Answer("loader")
  /\ libs' = [x \in DOMAIN libs \cup DOMAIN found |->
                IF x \in DOMAIN found THEN found[x] ELSE libs[x]]
  /\ UNCHANGED outcome

LoadLibs ==
  /\ Answer("loader")
  /\ libs' = found
  /\ UNCHANGED outcome

\* %exec checks its index; %test snags four tests, which are taken to pass, and
\* crashes beyond the last group; the others take no index.  A program that
\* does not parse crashes its command (parse is not wrapped in mole).  None
\* changes the state.
Result ==
  CASE command.kind = "exec" /\ command.n >= NumJocks -> {"range"}
    [] command.kind = "exec" /\ command.n < NumJocks -> {"ran", "crashed"}
    [] command.kind = "test" /\ command.n >= NumTests -> {"crashed"}
    [] command.kind = "test" /\ command.n < NumTests -> {"ran"}
    [] command.kind = "all" -> {"ran", "crashed"}

RunCommand ==
  /\ Answer("commander")
  /\ \E result \in Result : outcome' = [result |-> result, libs |-> libs]
  /\ UNCHANGED libs

Next ==
  \/ \E new \in BOOLEAN, dir \in LibMap, cmd \in Command : Start(new, dir, cmd)
  \/ \E d \in Drivers : Punch(d)
  \/ Finish \/ Checkpoint \/ Kill
  \/ LoadLibs \/ RunCommand

Spec == Init /\ [][Next]_vars

\* Drivers are tasks of the runtime and the kernel serves its inbox: each
\* proceeds when it can.  Nobody has to start a run, to save or to kill.
FairSpec ==
  /\ Spec
  /\ \A d \in Drivers : WF_vars(Punch(d))
  /\ WF_vars(LoadLibs \/ RunCommand)
  /\ WF_vars(Finish)
-----------------------------------------------------------------------------
(* Properties.                                                             *)

\* A driver has a poke in the inbox exactly while it waits for its answer.
TypeOK ==
  /\ running \in BOOLEAN
  /\ found \in LibMap /\ booted \in LibMap /\ libs \in LibMap
  /\ saved \in LibMap /\ outcome.libs \in LibMap
  /\ command \in Command
  /\ driver \in [Drivers -> {"send", "wait", "done"}]
  /\ inbox \in Seq(Drivers)
  /\ outcome.result \in {"pending", "ran", "crashed", "range"}
  /\ runs \in 0..MaxRuns
  /\ \A d \in Drivers :
       driver[d] = "wait" <=> \E i \in 1..Len(inbox) : inbox[i] = d
  /\ \A i, j \in 1..Len(inbox) : inbox[i] = inbox[j] => i = j

\* What the kernel must hold: the libraries of this run once its loader is
\* done, and those of the checkpoint until then or if there is no loader.
Expected == IF driver["loader"] = "done" /\ found # NoLibs THEN found ELSE booted

\* At any moment of a run the kernel holds the libraries of one run, never a
\* mixture, and it is the loader that decides which: no command, crash of a
\* command or checkpoint has a say.
LibsOfOneRun == running => libs = Expected

\* No run hangs: with or without a loader, the drivers all get their answers.
RunsEnd == running ~> ~running

\* The host never reports success for a command that was not run.
Answered == [][Finish => outcome.result # "pending"]_vars

\* What the documents say, and the code does not do.

\* main.rs:71, "Load libraries from path if provided.": the command has them.
OwnLibs ==
  outcome.result # "pending" /\ found # NoLibs => outcome.libs = found
=============================================================================
