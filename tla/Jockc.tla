-------------------------------- MODULE Jockc --------------------------------
(***************************************************************************)
(* The compiler's command line, from its arguments to what it prints: the  *)
(* host crates/jockc/main.rs, the kernel crates/jockc/hoon/main.hoon with  *)
(* its wrapper (lib/wrapper.hoon) and runner (lib/runner.hoon).            *)
(*                                                                         *)
(* The host boots the kernel, reads the program and a directory of         *)
(* libraries in the order in which the file system lists it, turns all of  *)
(* it to nouns and sends one poke.  The kernel inserts the arguments in    *)
(* the text (Preprocess, whose trap runs here round by round), makes a map *)
(* of the libraries, and parses, compiles and runs the program, once for   *)
(* each thing it prints.  Its state does not change.                       *)
(*                                                                         *)
(* Outside the repository: the file system, and the NockApp, which turns   *)
(* the crash of a poke into an event that reports it.                      *)
(***************************************************************************)
EXTENDS Preprocess, FiniteSets

CONSTANTS
  Inputs,    \* command lines: a program, arguments, and a directory of libraries
  SourceExt, \* hoon, jock, txt
  Hoon,      \* the library that every program imports
  MaxLength  \* bound: how many arguments or libraries there are

VARIABLES
  given,   \* the command line and the files it leads to
  host,    \* what the host does next
  left,    \* the entries of the directory still to be visited
  libTexts,\* lib_texts, the libraries read
  poke,    \* the noun sent, or NoPoke
  kernel,  \* what the kernel does next
  libs,    \* the map of libraries
  means,   \* how far the program can be taken
  printed  \* what has been printed, by stage

hostVars == <<given, host, left, libTexts, poke>>
kernelVars == <<kernel, libs, means, printed>>
allVars == <<vars, hostVars, kernelVars>>

\* What a program is: not even tokens; tokens; a syntax tree; Nock that crashes,
\* has a value, or never ends.
Meanings == {"garbage", "tokens", "jock", "crashes", "ends", "loops"}
-----------------------------------------------------------------------------
(* Nouns: a cell is a pair, and D(0) ends a list.                          *)

D0 == <<>>
NoPoke == [text |-> <<>>, args |-> D0, libs |-> D0]

\* Mutant of HoonList: the vector is not reversed.
HoonListForth(vec) ==
  LET list[k \in Nat] == IF k = 0 THEN D0 ELSE <<vec[k], list[k - 1]>>
  IN  list[Len(vec)]

\* Cells are put in front, the last element first.
HoonList(vec) ==
  LET list[k \in Nat] == IF k = 0 THEN D0 ELSE <<vec[Len(vec) + 1 - k], list[k - 1]>>
  IN  list[Len(vec)]

\* Each element is a cell of two atoms.
HoonTupleList(vec) == HoonList([k \in DOMAIN vec |-> <<vec[k].stem, vec[k].text>>])

\* The noun behind n cells of a list.
Behind(list, n) ==
  LET tail[k \in Nat] == IF k = 0 THEN list ELSE tail[k - 1][2]
  IN  tail[n]

\* n is the number of cells of a list.
IsLength(list, n) ==
  /\ \A k \in 0..(n - 1) : Behind(list, k) # D0
  /\ Behind(list, n) = D0

\* The elements of a list of at most bound: head after head, up to the atom.
\* This is also how the kernel walks the lists that it gets.
HoonListToVec(list, bound) ==
  LET n == CHOOSE n \in 0..bound : IsLength(list, n)
  IN  [k \in 1..n |-> Behind(list, k - 1)[1]]

\* scot %ud: a dot before every group of three digits.
ScotUd(n) ==
  LET pad(k) == <<Numeral[k \div 100], Numeral[(k \div 10) % 10], Numeral[k % 10]>>
      s[k \in Nat] == IF k < 1000 THEN Digits(k) ELSE s[k \div 1000] \o <<".">> \o pad(k % 1000)
  IN  s[n]

\* malt: of two pairs with one name, the later one of the list is kept.
Malt(pairs) ==
  [name \in {pairs[k][1] : k \in DOMAIN pairs} |->
     LET k == CHOOSE k \in DOMAIN pairs :
                pairs[k][1] = name /\ \A i \in (k + 1)..Len(pairs) : pairs[i][1] # name
     IN  pairs[k][2]]

\* A command line and the files that it leads to.  The texts of the program and
\* its printed arguments are those that Preprocess is about.
ASSUME JockcAssumption ==
  /\ MaxLength \in Nat
  /\ \A input \in Inputs :
       /\ input.program.text \in Bodies
       /\ input.args \in Seq(Nat) /\ Len(input.args) <= MaxLength
       /\ [k \in DOMAIN input.args |-> ScotUd(input.args[k])] \in Arguments
       /\ IsFiniteSet(input.dir) /\ Cardinality(input.dir) <= MaxLength
-----------------------------------------------------------------------------
(* The host.                                                               *)

HostInit ==
  /\ given \in Inputs
  /\ host = "boot"
  /\ left = {}
  /\ libTexts = <<>>
  /\ poke = NoPoke

Boot ==
  /\ host = "boot"
  /\ host' = "program"
  /\ UNCHANGED <<vars, given, left, libTexts, poke, kernelVars>>

\* expect("Unable to read file")
ReadProgram ==
  /\ host = "program"
  /\ host' = IF given.program.readable THEN "dir" ELSE "panicked"
  /\ UNCHANGED <<vars, given, left, libTexts, poke, kernelVars>>

\* A directory that cannot be read has no entries.
OpenDir ==
  /\ host = "dir"
  /\ host' = "entries"
  /\ left' = given.dir
  /\ UNCHANGED <<vars, given, libTexts, poke, kernelVars>>

\* Mutant of ReadEntry: a library that cannot be read is passed over.
ReadEntrySkip(file) ==
  /\ host = "entries"
  /\ file \in left
  /\ left' = left \ {file}
  /\ libTexts' = IF file.ext \in SourceExt /\ file.readable THEN Append(libTexts, file) ELSE libTexts
  /\ UNCHANGED <<vars, host, given, poke, kernelVars>>

\* Mutant of ReadEntry: every file is taken for a library.
ReadEntryAny(file) ==
  /\ host = "entries"
  /\ file \in left
  /\ left' = left \ {file}
  /\ host' = IF file.readable THEN host ELSE "panicked"
  /\ libTexts' = IF file.readable THEN Append(libTexts, file) ELSE libTexts
  /\ UNCHANGED <<vars, given, poke, kernelVars>>

\* Files with another extension are passed over.  expect("Unable to read library
\* file") ends the host on one that cannot be read.
ReadEntry(file) ==
  /\ host = "entries"
  /\ file \in left
  /\ left' = left \ {file}
  /\ IF file.ext \notin SourceExt
       THEN UNCHANGED <<host, libTexts>>
       ELSE /\ host' = IF file.readable THEN host ELSE "panicked"
            /\ libTexts' = IF file.readable THEN Append(libTexts, file) ELSE libTexts
  /\ UNCHANGED <<vars, given, poke, kernelVars>>

\* The driver sends its poke once the directory is read.
Punch ==
  /\ host = "entries"
  /\ left = {}
  /\ host' = "wait"
  /\ poke' = [text |-> given.program.text, args |-> HoonList(given.args),
              libs |-> HoonTupleList(libTexts)]
  /\ UNCHANGED <<vars, given, left, libTexts, kernelVars>>

\* Mutant of Finish: a poke that crashes is not answered.
FinishAcked ==
  /\ host = "wait"
  /\ kernel = "acked"
  /\ host' = "ended"
  /\ UNCHANGED <<vars, given, left, libTexts, poke, kernelVars>>

\* run() returns when the driver has its answer, whatever it is.
Finish ==
  /\ host = "wait"
  /\ kernel \in {"acked", "nacked"}
  /\ host' = "ended"
  /\ UNCHANGED <<vars, given, left, libTexts, poke, kernelVars>>
-----------------------------------------------------------------------------
(* The kernel.                                                             *)

\* The variables of Preprocess belong to the kernel and are set by the poke.
KernelInit ==
  /\ text = <<>> /\ args = <<>> /\ body = <<>> /\ idx = 0 /\ done = FALSE
  /\ kernel = "idle"
  /\ libs = [name \in {} |-> name]
  /\ means = "garbage"
  /\ printed = [stage \in {} |-> stage]

\* ++poke of the wrapper hands a %one-punch poke to the kernel, which prints the
\* arguments and calls ++preprocess.
Poke ==
  /\ host = "wait" /\ kernel = "idle"
  /\ LET list == HoonListToVec(poke.args, MaxLength)
     IN  args' = [k \in DOMAIN list |-> ScotUd(list[k])]
  /\ text' = poke.text /\ body' = poke.text
  /\ kernel' = "trap"
  /\ UNCHANGED <<idx, done, hostVars, libs, means, printed>>

\* A round of the trap; after the last one, the map of libraries is made.
Round ==
  /\ kernel = "trap"
  /\ Return \/ Absent \/ Insert
  /\ IF done'
       THEN /\ kernel' = "parse"
            /\ libs' = Malt(HoonListToVec(poke.libs, MaxLength))
            /\ means' \in Meanings
       ELSE UNCHANGED <<kernel, libs, means>>
  /\ UNCHANGED <<hostVars, printed>>

Prints(stage, what) ==
  printed' = [s \in DOMAIN printed \cup {stage} |-> IF s = stage THEN what ELSE printed[s]]

\* rash crashes on a text that is not one of tokens, and with it the poke.
Parse ==
  /\ kernel = "parse"
  /\ IF means = "garbage"
       THEN kernel' = "crashed" /\ UNCHANGED printed
       ELSE kernel' = "jeam" /\ Prints("parse", "value")
  /\ UNCHANGED <<vars, hostVars, libs, means>>

\* The other stages are wrapped in mole: where one crashes, the bunt of its type
\* is printed in place of a value.
Stage(stage, next, succeeds) ==
  /\ kernel = stage
  /\ kernel' = next
  /\ Prints(stage, IF succeeds THEN "value" ELSE "bunt")
  /\ UNCHANGED <<vars, hostVars, libs, means>>

\* The text alone is parsed here; mint, jype and nock put "import hoon" before it.
Jeam == Stage("jeam", "mint", means \notin {"garbage", "tokens"})
Imported == Hoon \in DOMAIN libs
Compiles == means \in {"crashes", "ends", "loops"} /\ Imported
Mint == Stage("mint", "jype", Compiles)
Jype == Stage("jype", "nock", Compiles)

\* The program runs: here the poke may never end.
Nock ==
  /\ ~(Compiles /\ means = "loops")
  /\ Stage("nock", "acked", Compiles /\ means = "ends")

\* The wrapper is given the crash as an event, which it prints.
Crud ==
  /\ kernel = "crashed"
  /\ kernel' = "nacked"
  /\ UNCHANGED <<vars, hostVars, libs, means, printed>>
-----------------------------------------------------------------------------
HostNext ==
  \/ Boot \/ ReadProgram \/ OpenDir
  \/ \E file \in left : ReadEntry(file)
  \/ Punch \/ Finish
KernelNext == Poke \/ Round \/ Parse \/ Jeam \/ Mint \/ Jype \/ Nock \/ Crud

JockcInit == HostInit /\ KernelInit
JockcNext == HostNext \/ KernelNext

\* The host is one task, and the kernel handles its event without waiting.
JockcSpec ==
  /\ JockcInit /\ [][JockcNext]_allVars
  /\ WF_allVars(HostNext) /\ WF_allVars(KernelNext)
-----------------------------------------------------------------------------
(* Properties.                                                             *)

Sources(dir) == {file \in dir : file.ext \in SourceExt}
Past == kernel \notin {"idle", "trap"}  \* has the program been preprocessed?

\* What each variable holds, and how far the two sides can be apart: the kernel
\* works only while the host waits, and what it has printed tells its stage.
TypeOK ==
  /\ given \in Inputs
  /\ host \in {"boot", "program", "dir", "entries", "wait", "ended", "panicked"}
  /\ left \subseteq given.dir
  /\ {libTexts[k] : k \in DOMAIN libTexts} \subseteq Sources(given.dir) \ left
  /\ kernel \in {"idle", "trap", "parse", "jeam", "mint", "jype", "nock",
                 "acked", "crashed", "nacked"}
  /\ kernel # "idle" => host \in {"wait", "ended"}
  /\ host = "ended" => kernel \in {"acked", "nacked"}
  /\ idx \in 0..Len(args) /\ done \in BOOLEAN
  /\ done <=> Past
  /\ means \in Meanings
  /\ \A stage \in DOMAIN printed : printed[stage] \in {"value", "bunt"}
  /\ kernel = "acked" => DOMAIN printed = {"parse", "jeam", "mint", "jype", "nock"}

\* A program is compiled with every library of the directory or not at all: one
\* for each name that a source file has, with the text of a file of that name.
\* Which one, where two files share a name, is up to the file system.
LibsByStem ==
  Past =>
    /\ DOMAIN libs = {file.stem : file \in Sources(given.dir)}
    /\ \A name \in DOMAIN libs : \E file \in Sources(given.dir) :
         file.stem = name /\ file.readable /\ libs[name] = file.text

\* The preprocessor run by itself on the program and the arguments of the
\* command line: what it starts from, before the poke, is what was given.
Program ==
  INSTANCE Preprocess WITH
    text <- given.program.text,
    args <- [k \in DOMAIN given.args |-> ScotUd(given.args[k])],
    body <- IF kernel = "idle" THEN given.program.text ELSE body

\* The host hands over the program and its arguments whole and in order: the
\* nouns that it builds make the kernel take the steps of that run.
HandsOver == Program!Spec

\* Every command line comes to an end, also the one with a library that cannot
\* be read and the one whose text is not even tokens, unless the program that
\* it compiles does not.
Ends ==
  <>(host \in {"ended", "panicked"} \/ (kernel = "nock" /\ Compiles /\ means = "loops"))
=============================================================================
