# Verification of jock-lang

Jock is a language that compiles to Nock. The repository has two
implementations of it: the reference, written in Hoon
(`common/hoon/lib/jock.hoon`), which runs inside two NockApp kernels (`jockc`,
the compiler driver, and `jockt`, the test driver), and a port to Rust, in three
crates (`jock-tokenizer`, `jock-parser`, `jock-compiler`). This directory holds
TLA+ models of both sides, checked with TLC, and theorems about them, proved
with TLAPS.

All paths below are relative to `src/`.

## Inventory

| Component | Source | State | Operations | Interacts with | What is hard |
|---|---|---|---|---|---|
| Tokenizer (Rust) | `crates/jock-tokenizer/src/lexer.rs`, `token.rs`, `error.rs` | cursor, `fun` flag, tokens | skip trivia, one rule per kind of token | gives tokens to the parser | a flag carried across tokens and trivia; ordered choice; committed choices; ends of text; 64-bit numbers |
| Tokenizer (Hoon) | `jock.hoon:45-219` | none: a grammar | backtracking choice | same | must agree with the port |
| Parser (Rust) | `crates/jock-parser/src/parser.rs` | position in the tokens | recursive descent, with back-ups and rewinds | gives a tree to the compiler | steps back, lookahead, parentheses in call arguments |
| Subject types | `crates/jock-compiler/src/subject.rs` | none: types | axes, name search, wings, `$`, unification | used by the compiler | which of several names is found; axis arithmetic that wraps |
| Compiler (`mint`) | `crates/jock-compiler/src/compiler.rs` | none: recursion on the tree | one arm for each variant | emits Nock | the formula must run on the subject that it was compiled for |
| Nock | `crates/jock-compiler/src/nock.rs` | none | `to_noun` | run by nockvm | formulas embedded in formulas |
| `jockc` kernel | `crates/jockc/hoon/main.hoon` | text, index of the argument | `++preprocess`: insert arguments for placeholders | gives text to the compiler | lengths that depend on offsets |
| `jockc` host, wrapper and runner | `crates/jockc/main.rs`, `crates/jockc/hoon/lib/{wrapper,runner}.hoon` | libraries read; one poke | read the program and the libraries, make nouns, poke; parse, compile and run the program stage by stage | one host, one kernel | order of lists; files of one name; failures in the middle; crashes |
| `jockt` host and kernel | `crates/jockt/main.rs`, `crates/jockt/hoon/main.hoon` | libraries in the kernel; two drivers | start, poke, checkpoint, finish | one host, one kernel, two concurrent drivers | race of the drivers, checkpoints, kills |
| Reference compiler | rest of `jock.hoon` | subject type | as the Rust crates | run in the kernels | reference for the port |
| Libraries, samples | `*/lib/*.hoon`, `common/` | none | vendored, or examples | Jock programs | - |

What makes each correct:

* **Tokenizer**: it returns on every text, loses and re-reads nothing, reports
  an error where it is, marks exactly the calls, never reads a keyword as a
  name (but in the one case the code allows), and takes the same tokens as the
  Hoon grammar.
* **Parser**: it returns; each function takes the brackets it opened, and no
  other; a program is read as the tree it was written from; what is accepted
  loses no token.
* **Compiler**: the formula computes what the program means; exactly the
  programs with unbound names are refused; the type says what the value is, and
  at every step what the subject is; a name is the binding its reader sees.
* **`jockc`**: the placeholders, and nothing else, are replaced; the kernel works on
  the program, the arguments and all the libraries of the command line; the command
  ends unless the program it runs does not.
* **`jockt`**: a command runs with the libraries of its own run; a run ends, and
  does not report success before its command was answered.

## Modules

| Module | Models | How it corresponds |
|---|---|---|
| `Lexemes` | helpers of `lexer.rs` | `XAt(s, p, q)`: rule X reads the text from p up to q |
| `Lexer` | `tokenize_all`, `next_token` | one action for each rule; `pos`, `fun`, `tokens` are the fields of the lexer |
| `HoonTokenizer` | `jock.hoon:45-219` | the same state; one action for each alternative of the grammar |
| `LexerRefinesHoon` | - | `Lexer` as an implementation of `HoonTokenizer`, on the texts where they should agree (`Agreed`) |
| `JocktKernel` | host and kernel of `jockt` | `Start`, `Punch` (a driver sends), `Answer`, `LoadLibs`, `RunCommand` (the kernel), `Checkpoint`, `Kill`, `Finish` |
| `Preprocess` | the trap of `++preprocess` | one action for each branch: `Return`, `Absent`, `Insert` |
| `Jockc` | the command `jockc`: host, wrapper, kernel and runner | composes with `Preprocess`, whose round is the action `Round` of the kernel; the host's steps are `Boot`, `ReadProgram`, `OpenDir`, `ReadEntry`, `Punch`, `Finish`, and the kernel's `Poke`, `Round`, `Parse`, `Jeam`, `Mint`, `Jype`, `Nock`, `Crud` |
| `Parser` | `parser.rs` | `todo` is the call stack of the recursive descent, with what each function still has to call, expect and build; `vals` are the values returned; one action for each function or branch of one |
| `ParserStack` | nothing: the stack of calls | what each entry of `todo` needs, leaves and owes, and how far it may go without a token, with the properties `TypeOK`, `Nested` and `Descends` |
| `ParserSyntax` | nothing: the syntax | `Show` writes a tree as tokens; the properties relate it to what the parser does |
| `Nock` | `nock.rs`; the interpreter of nockvm (external) | a formula is the noun that `to_noun` makes of it |
| `Subject` | `subject.rs` | types as records; an axis is a number modulo `2^AxisBits` |
| `Mint` | `compiler.rs` | `Mint(j, t)` is the code and type of an expression, with one definition for each function of the file |
| `Meaning` | nothing: the specification of the compiler | the value of an expression in an environment of bindings, without Nock, axes or subject types |
| `Compiler` | `compile` in `lib.rs`, and a run | `Compile`, then `Run` |
| `Straight` | nothing: the programs without functions, loops and objects | what the theorems of `CompilerProofs` are about: a set of expressions that holds the parts of each |
| `Environment` | nothing: the specification of the spine | names in scope with their values; a behaviour is a path through a program |
| `Scope` | the spine of the compiler: `let`, assignment, functions, calls, loops, `$` | one action compiles a statement for the type and runs its formula on the subject; implements `Environment` |
| `MCLexer`, `MCParser`, `MCJocktKernel`, `MCPreprocess`, `MCJockc`, `MCCompiler`, `MCScope` | - | instances for TLC |
| `Iteration` | - | that recursions on the naturals have solutions, for the proofs |
| `LexerProofs`, `ParserProofs`, `JocktProofs`, `PreprocessProofs`, `JockcProofs`, `ScopeProofs`, `CompilerProofs` | - | theorems |

Three refinements tie them together: `Lexer` implements `HoonTokenizer`, `Scope`
implements `Environment`, and `Jockc`, seen without its host, implements `Preprocess`
on what the command line gives.

Definitions named "Mutant of ..." (or "Mutant:") are not part of a model: each is
a plausible bug in the operation that follows it, and shows that a property
can fail. An invariant that no mutant of the code breaks is not kept.

### Abstractions

* A character is a member of a class that the tokenizer tells apart. Non-ASCII
  text is left out: the lexer reads the bytes of the text, and its positions count
  bytes, which are characters in ASCII only.
* Keywords and the numeric limit are parameters; an instance takes few and
  short ones, with one a prefix of another.
* A token of the parser is its spelling, names and literals being members of
  small sets. A tree is a node with children; the types that the parser copies
  (the parameter of a function in both its type and its lambda) are kept once.
* `Show` writes each kind of node in one way: with the parentheses that are needed
  and no other, a lambda without its keyword, `$` for `recur`.
* In `Mint`, the sort of an atom and the texts of names in errors are left
  out. An error is a piece of code that no noun is; the `?` after each call makes
  an error of any part an error of the whole, and `HasError` says the same.
* `Nock`, `Subject`, `Mint`, `Meaning` and `Compiler` define recursions over trees. The
  prover knows nothing of `RECURSIVE` operators, so a definition `F` that calls itself
  calls a constant `RecF`. Every instance gives `RecF` the value `F` (`RecF <- MCF`, where
  `MCF` is `F`), so that what TLC runs is the recursion; the theorems have `Tied`,
  which says that `RecF` and `F` agree, among their hypotheses.
* Names are strings, and the names of classes are a set (`is_type` looks at the
  first letter).
* `mint_hoon_library_call` is not modelled: `get_limb` never returns the result
  that leads to it. An operator is therefore a call of a name `hoon` that is
  found only where the program imports it.
* `Scope` keeps of a type what the search for a name can see: its name and, of a
  function, the name of its parameter. A value is an atom or the number of a gate.
  `if` and `match` choose between paths, and every path is a behaviour. The guards
  `InScope`, `BucInScope`, those on `ParamOf`, and `place # "let"` are conditions on
  the program: that names are bound, that none is the parameter of a function bound
  later, that no function is bound between an entry and its `$`, that a value has the
  shape of what it is assigned to, and that a loop is not the value of a `let`. The
  compiler checks only the first; what it does outside of them is listed under
  Bounds.
* In `Jockc`, what becomes of a program is one of six outcomes, `means`, chosen when
  its text is known: parsing and compiling are the subject of other modules. The
  directory is read in any order. `vec_to_hoon_atom_list` and `hoon_list_to_vec` of
  `crates/jockc/main.rs` are not called; the second is kept since it walks a list as
  the kernel does.
* `Meaning` says `Unspecified` of what is not compared: class instances, match
  and switch, axes, `eval`, comparisons of functions, and computations that
  nest more than `Fuel` calls.

## Runs

| Run | Question | Result |
|---|---|---|
| `Lexer` | types, calls, reserved words, losslessness, error places; termination | holds |
| `LexerHoon` | does the Rust tokenizer refine the Hoon grammar where neither an unclosed comment, nor the boundary of a keyword, nor a large number is involved? | holds |
| `Parser` | `Nested`, `ReadsBack`, `NothingLost` on printed programs and on what is one edit away from a program; is a token read in so many steps (`Descends`); termination | holds |
| `ParserCalls` | is a call read back whose argument begins with a parenthesis? `parser.rs:633` says that it handles `(a)` and `(a b)` | violated: `f((2 3) 2)`, `f((a + 2) * 3)`, `f((x:@) -> @ {x})` are rejected |
| `Jockt` | libraries of one run only; every run ends; success only when answered | holds |
| `JocktOwnLibs` | does a command run with its own libraries? `main.rs:71` says they are loaded | violated: the command overtakes the loader |
| `Jockc` | the kernel runs the preprocessor on what the command line gave (`HandsOver`) and compiles with all its libraries or not at all; the command ends; the text before the first `#` is kept; substitution is right where offsets print in three digits and stay so (`SubstitutedMiddle`) | holds |
| `PreprocessShort` | is substitution right at every offset? | violated at offsets that print in fewer digits |
| `Compiler` | `Computes`, `RefusesUnbound`, `TypeDescribes` on small programs | holds |
| `Scope` | does the type describe the subject at every step, and does every path compute what the names say (`ImplementsEnvironment`)? | holds |
| `CompilerInline` | `Computes` where an inline lambda is called on a variable | violated |
| `CompilerObjects` | `Computes` for objects with more than one arm, or an arm that is a lambda | violated |

Outside of `Agreed` the two tokenizers do differ, whatever `lexer.rs:6` says: on an
unclosed `/*`, on a keyword that runs into what follows it, and on numbers beyond 64
bits.

### Bounds

* `Lexer`: every text of up to 4 characters over the alphabets of words and of
  literals, and up to 6 over those of comments. Every lexical decision looks at
  a start, a run and the character after it; a keyword, its boundary and a call
  fit in 4, and the shortest text with a comment between a name and its call in 6.
* `Parser`: every kind of expression inside every other one, in every place of every
  statement; statements in statements; fifteen types in each place of a type; and ten
  programs, of every construct, with one token removed, inserted or replaced by each
  of 15 others. A wrong decision of a recursive descent shows in the call in
  which it is taken or in its caller, so two levels are enough to meet it. Every
  place where an error is reported is reached.
* `Jockt`: two runs, two libraries, three programs, indices up to one past the
  last. Two runs are what it takes for one to find what another left; a third
  would find the same.
* `Jockc`, `PreprocessShort`: programs of up to about a thousand characters, so that
  an offset is printed with one, two, three digits and with a dot; two
  placeholders, with or without a `#` before the first, among them one that the first
  insertion moves to the last offset of three digits; up to three arguments, one
  of them with two dots. That `SubstitutedMiddle` needs an index of one digit, so at
  most ten arguments, is beyond these bounds; the theorem has it as a condition. Every directory of up to three of six files (`MaxLength`),
  of which two pairs share a name, one is no source and one cannot be read.
* `Scope`: two names, two values, three values in a subject (`MaxDepth`), one value
  computed inside another (`MaxNested`), two functions (`MaxFuncs`). So a function is
  called in the scope it was made in, which has a binding; a binding follows an entry;
  and a name hides another. Axes have four bits, so that the deepest value of
  a subject has the largest axis there is. `MCScope` assumes, and TLC evaluates, that
  the axes of `Scope` are those of `Subject` on every type of up to five values, past the
  width as well, and that Nock does with them what `Scope` says. The theorems hold
  for all bounds, and for axes of 64 bits.
* `Compiler`: a `let`, then up to three of 22 kinds of statement (the third one of
  the 13 that depend most on what precedes), then one of nine expressions: 61191
  programs, of which about 9000 compile and run. Three statements are the least that
  bind, capture and then change or hide a name. `Fuel` is 8 nested calls; the loops
  turn at most four times.
  Axes have 16 bits, more than these programs use. `MCCompiler` also says which
  expressions and numbers `Straight` stands for (114 of the programs and their parts), and TLC
  evaluates that they are as assumed, that the programs are among them
  (`GivenStraight`), and that their assignments keep types (`KeepsTypes`): the theorems speak
  of programs that the run has. `AnotherShape` shows a program whose assignment does not, and
  whose type is wrong. `MCCompiler` assumes
  as well, and TLC evaluates, that seven programs of `tests.rs` and one of the
  Hoon tests (`dec.hoon`) are compiled to the Nock those tests expect.

The programs of `MCSources` keep to what the compiler gets right. `MCCompiler`
lists what they avoid; each of these was found by running programs outside it:

* a parameter with the name of a variable, and a lambda bound by `let`:
  `axis_at_name` searches the types of cores, so that a parameter is found
  outside of its function, and the captured copy of a name before the name itself;
* `$` with an argument after a `let`: `mint_self_call` edits the whole subject;
* assignment of a value of another shape, which no check prevents;
* objects with several arms or with a lambda as an arm (`CompilerObjects`);
* variables in the argument of an inline lambda (`CompilerInline`);
* lists and sets, whose elements are embedded as formulas.

`MCParser` prints no program of a kind the parser cannot read, as the language
seems to mean it:

* a call of a name whose argument begins with a parenthesis (`ParserCalls`);
* a lambda that takes a `List(...)` or another type with arguments: the scan for
  the end of its parameter does not count the parenthesis of the type;
* a case whose key is a tuple (taken for a lambda) or an infix expression (which
  takes the minus of the arrow);
* the body of a `func` that ends in an infix expression, without parentheses;
* elements side by side of which the second begins with `+` or, after a name,
  with a parenthesis: `(2 +(a))` is a sum and `(a (2 3))` a call;
* `$` and `&2` called with more than one argument.

`NothingLost` does not speak of inputs where the tree keeps less than the text (`Untold`):

* `as` and `recur`;
* a name given to a type that has one (`x:a:@`, `x:Foo(@)`), or that is a type itself
  (`Uint:@`);
* `*`, which makes the node of a type that is absent;
* a type in front of the parameters of a `func` or a method: of `func a b(x:@)` the code
  keeps `a` and drops `b`.

And no input has two `with` in a row, of which the first is dropped.

Deadlock is not checked in these models because each of them stops when it is
done. That a run ends where it should is a property (`Terminates`, `Returns`,
`RunsEnd`, `Ends`), except in `Compiler`, which takes two steps, and in `Scope`,
whose paths may loop.

### Fairness

* `Lexer`, `Parser`: `WF_vars(Next)`. Each is one sequential loop, which steps
  as long as it can.
* `JocktKernel`: weak fairness of the drivers' steps, of the kernel's pokes and of
  the host's end: tokio polls every driver, and the kernel takes its pokes one after
  the other. Nothing is assumed of `Kill` and `Checkpoint`, which need not happen,
  nor of the start of a further run.
* `Jockc`: weak fairness of the host's steps and of the kernel's. The host is one
  task, and the kernel handles its event without waiting for anything. A program
  that never ends is an outcome of its own, in which `Nock` is not enabled.
* `Scope`, `Compiler`, `Preprocess`: none; only safety is stated of them.

## Proofs

All theorems hold for every value of the constants that satisfies the named
assumptions.

* `LexerProofs` (assumptions: `LexemesAssumption`, `InputsAssumption`, and `GahAssumption`
  for the refinement).
  `LexerTypes`: the cursor stays in the text. `TypeOK` is inductive.
  `LexerCallMark`: needs the strengthening `FunFlag`, which says that `fun` holds
  exactly when the last token is a name or a type, across trivia.
  `LexerLossless`: by `TypeOK` and the lemma that trivia can be joined;
  `LexerErrorPlace` follows from it. `LexerReservedWords`: by the lemma that
  a keyword's spelling followed by anything but a capital is read as the keyword.
  `LexerImplementsHoon`: on inputs that are `Agreed`, every behaviour of `Lexer` is one
  of `HoonTokenizer`. The initial
  states are equal, and each action maps to the alternative of the grammar that
  reads the same text, or to a stutter; the lemmas show that in agreed texts the
  longest match and the ordered choice are the same.
* `ParserProofs` (assumption `TokensAssumption`: the kinds of tokens are disjoint, and an
  input is a sequence of them; which names, numbers and texts there are, and which
  inputs, is left open, so the theorems also hold of inputs that are no program).
  `ParserTypes`: `TypeOK`, which says that every function under way will find the values
  of those it calls and that one value is left at the end. `ParserNested`: `Nested`, that
  what is read and what the calls under way will take is balanced, but for a parenthesis that
  is taken for that of a call. `ParserWhole`: what parses is all of the input, as one
  expression, and with the same exception its brackets are balanced (the code accepts
  `f((2 3)`).
  `ParserDescends`: each step takes a token, or lowers the ranks of the entries up to the
  next one that must take one, or ends.

  Neither `TypeOK` nor `Nested` is inductive. Both are folds over `todo`, one of numbers and
  one of stacks of brackets, and an action replaces the head of `todo`: the two folds must
  come to the same before and after. So `Inv` states them by `Height` and `Shut`,
  for which one equation speaks of all entries, because a failure anywhere shows
  at the end: an entry that does not find its values, or what else it relies on (`Fits`),
  makes the height -1, which no entry changes (`HeightsSink`), and a bracket that closes
  nothing leaves a mark that none removes. What an entry relies on are the tokens around
  it: `name` is only met at a name, `argument` just behind a `((`. They are known
  for the head of `todo` (`Here`); the entries behind it must do without
  (`Anywhere`). `HeightConcat` and `ShutConcat` cut a fold at the place where an action
  cuts `todo`, and there is a lemma `...Keeps` for each action, in which the two
  folds are done apart. `Swallowed`, the exception of `Nested`, is where the code
  may take the bracket of a call for that of its argument (`ParserCalls`): there nothing is
  claimed of brackets, but of values it is.

  `Descends` needs no more of the invariant than that `todo` and `pos` are what they should
  be. A function that takes a token has any rank; one that calls another first has a
  higher rank than that (`Rank`), which is possible because the grammar has no left
  recursion: `inner` calls `jock`, `jock` calls `punctuator`, and that calls `lambda` or
  `pair`, which take a parenthesis. Entries that may take nothing (`Tokenless`) are
  added up. `LowerRanks` says when what an action puts in the place of the head lowers
  the sum, and there is a lemma `...Nearer` for each action that takes no token.
  As `pos` never passes the end of the input (`ParserTypes`), the position and the ranks
  come down lexicographically, so that no input keeps the parser running; that they
  come down is the theorem, that it therefore returns (`Returns`) is left to TLC,
  because it is a liveness property.
* `JocktProofs` (assumption `JocktAssumption`). `JocktTypes`; `JocktLibs`, by
  the strengthening `LoaderNeeded` (a loader that has something to load has not
  been skipped); `JocktAnswered`, by the strengthening `Done` (a commander that
  is done has an answer).
* `ScopeProofs` (assumption `ScopeAssumption`: axes of `MaxDepth` values are below
  `AxisLimit`, and names, values and numbers differ). `ScopeTypes`: `TypeOK` is
  inductive; the two halves of a step are that the search in the type finds a place
  of the right kind, and that the axis computed for this place is that of its
  value. `ScopeImplementsEnvironment`: by `TypeOK`, each action maps to the action
  of `Environment` with its name. It rests on the lemmas that an axis below the
  limit does not wrap (`TailAxis` is `Spine`), that axes of different places differ,
  and so that a slot reads, and an edit changes, one binding.
* `CompilerProofs` (assumptions `StraightAssumption`, `MintAssumption`, `FuelAssumption`,
  `AxisBitsAssumption`; hypothesis `Tied`). Four theorems about the programs that are
  made of numbers, names, cells, increments, cell checks, `==`, `!=`, `let`, assignment, `if`,
  `assert`, `print` and `crash`, of any size and any nesting, whose axes fit the width of an
  axis (`GivenStraight`: at most `AxisBits - 1` lets within one another, so 63 in the code).
  `UnboundRefused`: they are refused exactly if they use a name that is not bound.
  `ComputedAsMeant`: the code computes what the program means, and crashes where the
  program does. `CompilerTypes`: no error is left in code that runs, and what it makes is
  a noun. `TypeSaysWhatIsMade`: the type of the program describes that noun, if every
  assignment is of a value of the type of its name (`KeepsTypes`).

  The invariant (`Inv`) only says that the state is what `Mint` and `Tar` make of the program;
  the argument is one about trees, by induction on `Size` as a least counterexample, since
  an induction theorem cannot be instantiated. Three relations tie a place in a program
  to what the compiler knows of it. `Describes`: the type of the subject is a spine of
  cells, one for each name in scope. `Holds`: the subject is a spine of the values of the
  environment in the same order. `Typed`: the values have the types of their cells. The search
  for a name goes down the first spine and finds its latest binding at `HeadAt(m)` (`FindBound`,
  `TypeAtHead`), or nothing (`FindUnbound`); the axis leads to the value there (`SlotHead`); an
  edit at it replaces that value and nothing else (`HoldsEdited`); and a `let` adds a cell to all
  three (`DescribesBound`, `HoldsBound`, `TypedBound`). Then there is a lemma for each form of
  expression: what it is compiled to (`Compiles...`), what that comes to (`Runs...`), and that its
  type suits it (`Suits...`), by induction put together in `CompilesStraight`, `RunsStraight` and
  `SuitsStraight`. The width matters: without `Nest[program] + 1 <= AxisBits` an axis wraps, and a
  name is found where another is.

  Without the restriction to these programs `Computes`, `RefusesUnbound` and `TypeDescribes`
  are false (Bounds lists where); functions and loops are in `ScopeProofs`, for programs that
  avoid these cases.
* `PreprocessProofs` (`PreprocessAssumption`: digits and texts are of characters).
  `PreprocessPrefix`: `PrefixKept` is inductive together with the fact that the text
  is a sequence; what is inserted begins at the place where a placeholder was found,
  which is a `#`, so that nothing before the first one moves.
  `PreprocessMiddle`: `SubstitutedMiddle`, for every text and at most ten arguments. The
  invariant `MiddleInv` says that the text so far is `After[idx]`, and that every `#` of it
  has room for the arguments to come (`Middle`): an insertion moves a `#` behind it by less
  than the argument is long, and arguments, which are printed numbers, bring none
  (`PreprocessAssumption`). It rests on the lemmas that a number from 100 to 999 prints
  in three characters, that the placeholder of an index below ten has two, and that
  there is at most one first occurrence. At other offsets the property is false, as
  `PreprocessShort` shows, and for an index of two digits too.
* `JockcProofs` (and `JockcAssumption`). The invariant `Inv` says where the host and
  the kernel are with respect to each other, that the poke holds what was given, and
  that the texts of the kernel are those of the poke. `JockcTypes` and `JockcLibs`
  follow; `JockcPrefix` and `JockcMiddle` are `PreprocessPrefix` and
  `PreprocessMiddle` of the composed command, where a poke starts the invariant anew
  (`Fresh`); and `JockcHandsOver` maps `Poke` to a stutter, `Round` to a step of `Preprocess`, and the
  rest to stutters. Its core is `RoundTrip`: a vector made into a list of nouns, and
  read by walking it, is the vector.

Only model-checked:

* liveness (`Terminates`, `Returns`, `RunsEnd`, `Ends`), which is out of the prover's
  reach;
* `ReadsBack` and `NothingLost` of the parser, which compare trees with tokens by `Show`,
  a `RECURSIVE` operator on trees, for inputs that `MCParser` prints: `NothingLost` is false of
  inputs with the exceptions named under Bounds, and `ReadsBack` of programs that the parser
  reads otherwise;
* the properties of `Compiler` on programs with functions, loops and objects, which the run
  `Compiler` takes from `MCSources`: outside of the restrictions there they are false.

## Plan

Done: the tokenizers and their refinement; the parser; the compiler on whole
programs; its spine as a machine, with its refinement; both command lines; the proofs
above, among them that of the compiler on programs without functions. Left:

1. The parser against the `match-*` arms of `jock.hoon`, which read the argument of a
   call and the key of a case otherwise.
2. Objects, `match` and `switch` in `Scope`, as statements of their own.
3. Functions and declared types in `Straight`: a gate is data in the subject and a closure in
   `Meaning`, so that `Same` becomes a relation on values.
4. The pipeline: text, tokens, tree, Nock, with an error at each stage.

## Not modelled

* The parser and compiler parts of `jock.hoon`, except through the Nock that its tests expect.
* NockApp and nockvm, apart from how the code uses them (pokes, checkpoints,
  and the Nock instructions).
* Of the kernel wrappers, the moulds that check an event, and the assertions of
  the test suite.
* The classification of types in `ast.rs` (but for what `Mint` asks of it) and all
  display code, which no decision depends on.
* The vendored Hoon libraries, the samples and the build files.
