----------------------------- MODULE JockcProofs -----------------------------
(***************************************************************************)
(* For every program, all arguments and all directories: what the host     *)
(* hands to the kernel is what the kernel works on.                        *)
(***************************************************************************)
EXTENDS Jockc, PreprocessProofs, FiniteSetTheorems

(* Lists of nouns.                                                         *)

\* The two recursions on lists: one that walks a list from its start, and one
\* that builds the list of a vector.
NextNoun(walk, vec, start, f, k) ==
  IF k = 0 THEN start
  ELSE IF walk THEN f[k - 1][2] ELSE <<vec[Len(vec) + 1 - k], f[k - 1]>>

\* Each of them has a solution.
LEMMA NounsUnfold ==
  ASSUME NEW walk, NEW vec, NEW start
  PROVE  \E f : f = [k \in Nat |-> NextNoun(walk, vec, start, f, k)]
<1> DEFINE Step(f, k) == NextNoun(walk, vec, start, f, k)
           IsPrefix(g, n) == g = [i \in 0..n |-> Step(g, i)]
<1>0. ASSUME NEW f, NEW g, NEW k \in Nat, k # 0 => f[k - 1] = g[k - 1]
      PROVE  Step(f, k) = Step(g, k)
  BY <1>0 DEF NextNoun
<1> HIDE DEF Step
<1>1. \A n \in Nat : \E g : IsPrefix(g, n)
  <2> DEFINE Missing == {n \in Nat : ~\E g : IsPrefix(g, n)}
  <2>1. SUFFICES ASSUME Missing # {} PROVE FALSE
    OBVIOUS
  <2>2. PICK n \in Missing : \A m \in Missing : n <= m
    <3>1. Missing \in SUBSET Nat
      OBVIOUS
    <3> HIDE DEF Missing
    <3> QED BY <2>1, <3>1, LeastNat
  <2>3. n \in Nat
    BY <2>2
  <2>4. CASE n = 0
    <3> DEFINE none == [i \in {} |-> i]
               g == [i \in 0..n |-> Step(none, i)]
    <3>1. ASSUME NEW i \in 0..n PROVE Step(none, i) = Step(g, i)
      <4>1. i \in Nat /\ i = 0
        BY <2>4
      <4> HIDE DEF g, none
      <4> QED BY <1>0, <4>1
    <3>2. IsPrefix(g, n)
      BY <3>1
    <3> QED BY <2>2, <3>2
  <2>5. CASE n # 0
    <3>1. n - 1 \in Nat /\ ~(n <= n - 1)
      BY <2>3, <2>5
    <3>2. PICK h : IsPrefix(h, n - 1)
      BY <2>2, <3>1
    <3> DEFINE g == [i \in 0..n |-> Step(h, i)]
    <3>3. ASSUME NEW i \in 0..(n - 1) PROVE h[i] = g[i]
      <4>1. i \in 0..n
        BY <3>1
      <4>2. h[i] = Step(h, i)
        BY <3>2
      <4> QED BY <4>1, <4>2
    <3>4. ASSUME NEW i \in 0..n PROVE Step(h, i) = Step(g, i)
      <4>1. i \in Nat /\ (i # 0 => i - 1 \in 0..(n - 1))
        BY <2>3
      <4>2. i # 0 => h[i - 1] = g[i - 1]
        BY <3>3, <4>1
      <4> HIDE DEF g
      <4> QED BY <1>0, <4>1, <4>2
    <3>5. IsPrefix(g, n)
      BY <3>4
    <3> QED BY <2>2, <3>5
  <2> QED BY <2>4, <2>5
<1>2. ASSUME NEW m \in Nat, NEW n \in Nat, NEW g, NEW h, IsPrefix(g, m), IsPrefix(h, n), m <= n
      PROVE  \A i \in 0..m : g[i] = h[i]
  <2> DEFINE Differ == {i \in 0..m : g[i] # h[i]}
  <2>1. SUFFICES ASSUME Differ # {} PROVE FALSE
    OBVIOUS
  <2>2. Differ \in SUBSET Nat
    OBVIOUS
  <2>3. PICK i \in Differ : \A j \in Differ : i <= j
    BY <2>1, <2>2, LeastNat
  <2>4. i \in Nat /\ i \in 0..m /\ i \in 0..n
    BY <1>2, <2>3
  <2>5. i # 0 => i - 1 \in 0..m /\ ~(i <= i - 1)
    BY <2>4
  <2>6. i # 0 => g[i - 1] = h[i - 1]
    BY <2>3, <2>5
  <2>7. Step(g, i) = Step(h, i)
    BY <1>0, <2>4, <2>6
  <2>8. g[i] = Step(g, i) /\ h[i] = Step(h, i)
    BY <1>2, <2>4
  <2> QED BY <2>3, <2>7, <2>8
<1> DEFINE choice(n) == CHOOSE g : IsPrefix(g, n)
<1>3. ASSUME NEW n \in Nat PROVE IsPrefix(choice(n), n)
  <2> HIDE DEF IsPrefix
  <2> QED BY <1>1
<1> DEFINE f == [n \in Nat |-> choice(n)[n]]
<1> HIDE DEF choice
<1>4. ASSUME NEW k \in Nat PROVE f[k] = Step(f, k)
  <2>1. k # 0 => k - 1 \in Nat /\ k - 1 <= k /\ k - 1 \in 0..(k - 1)
    OBVIOUS
  <2>2. k # 0 => choice(k - 1)[k - 1] = choice(k)[k - 1]
    <3> HIDE DEF IsPrefix
    <3> QED BY <1>2, <1>3, <2>1
  <2>3. k # 0 => f[k - 1] = choice(k)[k - 1]
    BY <2>1, <2>2
  <2>4. Step(f, k) = Step(choice(k), k)
    <3> HIDE DEF f, IsPrefix
    <3> QED BY <1>0, <2>3
  <2>5. choice(k)[k] = Step(choice(k), k)
    <3>1. IsPrefix(choice(k), k) /\ k \in 0..k
      BY <1>3
    <3> QED BY <3>1
  <2> QED BY <2>4, <2>5
<1>5. f = [k \in Nat |-> f[k]]
  OBVIOUS
<1> HIDE DEF f
<1>6. f = [k \in Nat |-> Step(f, k)]
  BY <1>4, <1>5
<1> QED BY <1>6 DEF Step

\* Walking one cell further.
LEMMA BehindUnfolds ==
  ASSUME NEW list
  PROVE  /\ Behind(list, 0) = list
         /\ \A n \in Nat : Behind(list, n + 1) = Behind(list, n)[2]
<1> DEFINE Unfolds(f) == f = [k \in Nat |-> IF k = 0 THEN list ELSE f[k - 1][2]]
           tail == CHOOSE f : Unfolds(f)
<1>1. PICK f : f = [k \in Nat |-> NextNoun(TRUE, <<>>, list, f, k)]
  BY NounsUnfold
<1>2. Unfolds(f)
  BY <1>1 DEF NextNoun
<1>3. Unfolds(tail)
  <2> HIDE DEF Unfolds
  <2> QED BY <1>2
<1>4. \A n : Behind(list, n) = tail[n]
  BY DEF Behind
<1> HIDE DEF tail
<1>5. \A k \in Nat : tail[k] = IF k = 0 THEN list ELSE tail[k - 1][2]
  BY <1>3
<1>6. \A n \in Nat : n + 1 \in Nat /\ n + 1 # 0 /\ (n + 1) - 1 = n
  OBVIOUS
<1> HIDE DEF Unfolds
<1>7. ASSUME NEW n \in Nat PROVE tail[n + 1] = tail[n][2]
  BY <1>5, <1>6
<1> QED BY <1>4, <1>5, <1>7

\* The list of a vector, by the lists of its last elements.
LEMMA HoonListUnfolds ==
  ASSUME NEW vec
  PROVE  \E l : /\ HoonList(vec) = l[Len(vec)]
                /\ l[0] = D0
                /\ \A k \in Nat : k # 0 => l[k] = <<vec[Len(vec) + 1 - k], l[k - 1]>>
<1> DEFINE Unfolds(f) == f = [k \in Nat |-> IF k = 0 THEN D0
                                            ELSE <<vec[Len(vec) + 1 - k], f[k - 1]>>]
           list == CHOOSE f : Unfolds(f)
<1>1. PICK f : f = [k \in Nat |-> NextNoun(FALSE, vec, D0, f, k)]
  BY NounsUnfold
<1>2. Unfolds(f)
  BY <1>1 DEF NextNoun
<1>3. Unfolds(list)
  <2> HIDE DEF Unfolds
  <2> QED BY <1>2
<1>4. HoonList(vec) = list[Len(vec)]
  BY DEF HoonList
<1> HIDE DEF list
<1>5. \A k \in Nat : list[k] = IF k = 0 THEN D0 ELSE <<vec[Len(vec) + 1 - k], list[k - 1]>>
  BY <1>3
<1> HIDE DEF Unfolds
<1> QED BY <1>4, <1>5

\* A list is read back as the vector it was made of.
LEMMA RoundTrip ==
  ASSUME NEW S, NEW vec \in Seq(S), NEW bound \in Nat, Len(vec) <= bound
  PROVE  HoonListToVec(HoonList(vec), bound) = vec
<1> DEFINE n == Len(vec)
           list == HoonList(vec)
<1>1. n \in Nat /\ n \in 0..bound /\ vec = [k \in 1..n |-> vec[k]]
  BY LenProperties
<1>2. PICK l : /\ list = l[n]
               /\ l[0] = D0
               /\ \A k \in Nat : k # 0 => l[k] = <<vec[n + 1 - k], l[k - 1]>>
  BY HoonListUnfolds
<1> HIDE DEF n, list
<1>3. \A k \in 0..n : Behind(list, k) = l[n - k]
  <2> DEFINE Bad == {k \in 0..n : Behind(list, k) # l[n - k]}
  <2>1. SUFFICES ASSUME Bad # {} PROVE FALSE
    OBVIOUS
  <2>2. Bad \in SUBSET Nat
    BY <1>1
  <2>3. PICK k \in Bad : \A j \in Bad : k <= j
    BY <2>1, <2>2, LeastNat
  <2>4. k # 0
    <3>1. Behind(list, 0) = l[n - 0]
      BY <1>1, <1>2, BehindUnfolds
    <3> QED BY <2>3, <3>1
  <2>5. k - 1 \in Nat /\ k - 1 \in 0..n /\ ~(k <= k - 1) /\ (k - 1) + 1 = k
        /\ n - (k - 1) \in Nat /\ n - (k - 1) # 0 /\ n - (k - 1) - 1 = n - k
    BY <1>1, <2>3, <2>4
  <2>6. Behind(list, k - 1) = l[n - (k - 1)]
    BY <2>3, <2>5
  <2>7. l[n - (k - 1)] = <<vec[n + 1 - (n - (k - 1))], l[n - (k - 1) - 1]>>
    BY <1>2, <2>5
  <2>8. Behind(list, (k - 1) + 1) = Behind(list, k - 1)[2]
    BY <2>5, BehindUnfolds
  <2>9. Behind(list, k) = l[n - k]
    BY <2>5, <2>6, <2>7, <2>8
  <2> QED BY <2>3, <2>9
<1>4. ASSUME NEW k \in 0..(n - 1)
      PROVE  Behind(list, k) # D0 /\ Behind(list, k)[1] = vec[k + 1]
  <2>1. k \in 0..n /\ n - k \in Nat /\ n - k # 0 /\ n + 1 - (n - k) = k + 1
    BY <1>1
  <2>2. Behind(list, k) = <<vec[n + 1 - (n - k)], l[n - k - 1]>>
    BY <1>2, <1>3, <2>1
  <2> QED BY <2>1, <2>2 DEF D0
<1>5. Behind(list, n) = D0
  <2>1. n \in 0..n /\ n - n = 0
    BY <1>1
  <2> QED BY <1>2, <1>3, <2>1
<1>6. IsLength(list, n)
  BY <1>4, <1>5 DEF IsLength
<1>7. ASSUME NEW m \in 0..bound, IsLength(list, m) PROVE m = n
  <2>1. ~(m < n)
    <3>1. m < n => m \in 0..(n - 1)
      BY <1>1
    <3> QED BY <1>4, <1>7, <3>1 DEF IsLength
  <2>2. ~(n < m)
    <3>1. n < m => n \in 0..(m - 1)
      BY <1>1
    <3> QED BY <1>5, <1>7, <3>1 DEF IsLength
  <2> QED BY <1>1, <2>1, <2>2
<1>8. (CHOOSE m \in 0..bound : IsLength(list, m)) = n
  BY <1>1, <1>6, <1>7
<1>9. HoonListToVec(list, bound) = [k \in 1..n |-> Behind(list, k - 1)[1]]
  BY <1>8 DEF HoonListToVec
<1>10. ASSUME NEW k \in 1..n PROVE Behind(list, k - 1)[1] = vec[k]
  <2>1. k - 1 \in 0..(n - 1) /\ (k - 1) + 1 = k
    BY <1>1
  <2> QED BY <1>4, <2>1
<1>11. HoonListToVec(list, bound) = vec
  BY <1>1, <1>9, <1>10
<1> QED BY <1>11 DEF list

\* The map of a list of pairs has its names, each with the value of one of its pairs.
LEMMA MaltPairs ==
  ASSUME NEW S, NEW pairs \in Seq(S)
  PROVE  /\ DOMAIN Malt(pairs) = {pairs[k][1] : k \in DOMAIN pairs}
         /\ \A name \in DOMAIN Malt(pairs) : \E k \in DOMAIN pairs :
              pairs[k][1] = name /\ Malt(pairs)[name] = pairs[k][2]
<1> DEFINE n == Len(pairs)
           Last(name, k) == /\ pairs[k][1] = name
                            /\ \A i \in (k + 1)..n : pairs[i][1] # name
           Value(name) == LET k == CHOOSE k \in DOMAIN pairs : Last(name, k) IN pairs[k][2]
<1>1. n \in Nat /\ DOMAIN pairs = 1..n
  BY LenProperties
<1>2. Malt(pairs) = [name \in {pairs[k][1] : k \in DOMAIN pairs} |-> Value(name)]
  BY DEF Malt
<1>3. ASSUME NEW name \in {pairs[k][1] : k \in DOMAIN pairs}
      PROVE  \E k \in DOMAIN pairs : Last(name, k)
  <2> DEFINE Back == {n - k : k \in {k \in 1..n : pairs[k][1] = name}}
  <2>1. Back \in SUBSET Nat /\ Back # {}
    BY <1>1, <1>3
  <2>2. PICK b \in Back : \A c \in Back : b <= c
    <3> HIDE DEF Back
    <3> QED BY <2>1, LeastNat
  <2>3. PICK k \in 1..n : pairs[k][1] = name /\ b = n - k
    BY <2>2
  <2>4. ASSUME NEW i \in (k + 1)..n, pairs[i][1] = name PROVE FALSE
    <3>1. i \in 1..n /\ n - i \in Back /\ n - i < n - k
      BY <1>1, <2>3, <2>4
    <3> HIDE DEF Back, n
    <3>2. n - k <= n - i
      BY <2>2, <2>3, <3>1
    <3>3. n \in Nat /\ i \in Nat /\ k \in Nat
      BY <1>1, <2>3, <3>1
    <3> QED BY <3>1, <3>2, <3>3
  <2> QED BY <1>1, <2>3, <2>4
<1>4. ASSUME NEW name \in {pairs[k][1] : k \in DOMAIN pairs}
      PROVE  \E k \in DOMAIN pairs : pairs[k][1] = name /\ Value(name) = pairs[k][2]
  <2> DEFINE k == CHOOSE k \in DOMAIN pairs : Last(name, k)
  <2>1. k \in DOMAIN pairs /\ Last(name, k)
    <3> HIDE DEF Last
    <3> QED BY <1>3
  <2>2. Value(name) = pairs[k][2]
    <3> HIDE DEF Last
    <3> QED OBVIOUS
  <2>3. pairs[k][1] = name
    <3> HIDE DEF k
    <3> QED BY <2>1
  <2> HIDE DEF k, Value, Last
  <2> QED BY <2>1, <2>2, <2>3
<1> DEFINE names == {pairs[k][1] : k \in DOMAIN pairs}
<1> HIDE DEF Value, Last
<1>5. DOMAIN Malt(pairs) = names /\ \A name \in names : Malt(pairs)[name] = Value(name)
  <2> HIDE DEF names
  <2>1. Malt(pairs) = [name \in names |-> Value(name)]
    BY <1>2 DEF names
  <2> QED BY <2>1
<1>6. \A name \in names : \E k \in DOMAIN pairs :
        pairs[k][1] = name /\ Value(name) = pairs[k][2]
  BY <1>4
<1>7. \A name \in DOMAIN Malt(pairs) : \E k \in DOMAIN pairs :
        pairs[k][1] = name /\ Malt(pairs)[name] = pairs[k][2]
  <2> HIDE DEF names
  <2> QED BY <1>5, <1>6
<1> QED BY <1>5, <1>7
-----------------------------------------------------------------------------
(* What the host has done.                                                 *)

Printed(numbers) == [k \in DOMAIN numbers |-> ScotUd(numbers[k])]
Message == [text |-> given.program.text, args |-> HoonList(given.args),
            libs |-> HoonTupleList(libTexts)]

HostInv ==
  /\ given \in Inputs
  /\ host \in {"boot", "program", "dir", "entries", "wait", "ended", "panicked"}
  /\ left \subseteq given.dir
  /\ libTexts \in Seq(Sources(given.dir))
  /\ \A k \in 1..Len(libTexts) : libTexts[k] \notin left
  /\ Len(libTexts) + Cardinality(left) <= Cardinality(given.dir)
  /\ host \in {"boot", "program", "dir"} => libTexts = <<>> /\ left = {}
  /\ host \in {"entries", "wait", "ended"} =>
       /\ \A file \in Sources(given.dir) \ left : \E k \in 1..Len(libTexts) : libTexts[k] = file
       /\ \A k \in 1..Len(libTexts) : libTexts[k].readable
  /\ host \in {"wait", "ended"} => left = {} /\ poke = Message

LEMMA DirFinite ==
  ASSUME HostInv
  PROVE  /\ IsFiniteSet(given.dir) /\ Cardinality(given.dir) \in Nat
         /\ Cardinality(given.dir) <= MaxLength /\ MaxLength \in Nat
         /\ IsFiniteSet(left) /\ Cardinality(left) \in Nat
         /\ Len(libTexts) \in Nat /\ DOMAIN libTexts = 1..Len(libTexts)
<1>1. given \in Inputs /\ left \subseteq given.dir /\ libTexts \in Seq(Sources(given.dir))
  BY DEF HostInv
<1>2. IsFiniteSet(given.dir) /\ Cardinality(given.dir) <= MaxLength /\ MaxLength \in Nat
  BY <1>1, JockcAssumption
<1>3. IsFiniteSet(left)
  BY <1>1, <1>2, FS_Subset
<1>4. Cardinality(given.dir) \in Nat /\ Cardinality(left) \in Nat
  BY <1>2, <1>3, FS_CardinalityType
<1> QED BY <1>1, <1>2, <1>3, <1>4, LenProperties

LEMMA HostStarts == HostInit => HostInv
<1> SUFFICES ASSUME HostInit PROVE HostInv
  OBVIOUS
<1>1. /\ given \in Inputs /\ host = "boot" /\ left = {} /\ libTexts = <<>>
      /\ Len(libTexts) = 0 /\ libTexts \in Seq(Sources(given.dir))
  BY DEF HostInit
<1>2. IsFiniteSet(given.dir)
  BY <1>1, JockcAssumption
<1>3. Cardinality(given.dir) \in Nat /\ Cardinality(left) = 0
  BY <1>1, <1>2, FS_CardinalityType, FS_EmptySet
<1>4. Len(libTexts) + Cardinality(left) <= Cardinality(given.dir)
  BY <1>1, <1>3
<1> QED BY <1>1, <1>4 DEF HostInv

\* Reading a file leaves one file less, and adds at most one library.
LEMMA ReadEntryKeeps ==
  ASSUME HostInv, NEW file \in left, ReadEntry(file)
  PROVE  HostInv'
<1> USE DirFinite
<1> DEFINE D == given.dir
           S == Sources(D)
<1>1. /\ given' = given /\ left' = left \ {file} /\ host = "entries"
      /\ left \subseteq D /\ libTexts \in Seq(S) /\ file \in D /\ given \in Inputs
      /\ \A k \in 1..Len(libTexts) : libTexts[k] \notin left
      /\ \A k \in 1..Len(libTexts) : libTexts[k].readable
      /\ \A f \in S \ left : \E k \in 1..Len(libTexts) : libTexts[k] = f
      /\ Len(libTexts) + Cardinality(left) <= Cardinality(D)
  BY DEF ReadEntry, HostInv
<1>2. Cardinality(left') = Cardinality(left) - 1
  BY <1>1, FS_RemoveElement
<1>3. CASE libTexts' = libTexts /\ host' \in {"entries", "panicked"}
           /\ (host' = "entries" => file.ext \notin SourceExt)
  <2>1. host' = "entries" => \A f \in S \ left' : \E k \in 1..Len(libTexts) : libTexts[k] = f
    <3>1. host' = "entries" => file \notin S
      BY <1>3 DEF Sources
    <3> QED BY <1>1, <3>1
  <2>2. Len(libTexts) + Cardinality(left') <= Cardinality(D)
    BY <1>1, <1>2
  <2> HIDE DEF D, S
  <2>3. /\ left' \subseteq D /\ libTexts' \in Seq(S)
        /\ \A k \in 1..Len(libTexts) : libTexts[k] \notin left'
    BY <1>1, <1>3
  <2> USE DEF D, S
  <2> QED BY <1>1, <1>3, <2>1, <2>2, <2>3 DEF HostInv
<1>4. CASE libTexts' = Append(libTexts, file) /\ host' = "entries"
           /\ file.ext \in SourceExt /\ file.readable
  <2>1. file \in S
    BY <1>1, <1>4 DEF Sources
  <2> HIDE DEF D, S
  <2>2. /\ libTexts' \in Seq(S) /\ Len(libTexts') = Len(libTexts) + 1
        /\ \A k \in 1..Len(libTexts) : libTexts'[k] = libTexts[k]
        /\ libTexts'[Len(libTexts) + 1] = file
    BY <1>1, <1>4, <2>1, AppendProperties
  <2>3. Len(libTexts') + Cardinality(left') <= Cardinality(D)
    BY <1>1, <1>2, <2>2 DEF D
  <2>4. ASSUME NEW k \in 1..Len(libTexts')
        PROVE  libTexts'[k] \notin left' /\ libTexts'[k].readable
    <3>1. CASE k = Len(libTexts) + 1
      BY <1>1, <1>4, <2>2, <3>1
    <3>2. CASE k # Len(libTexts) + 1
      <4>1. k \in 1..Len(libTexts)
        BY <2>2, <3>2
      <4> QED BY <1>1, <2>2, <4>1
    <3> QED BY <3>1, <3>2
  <2>5. ASSUME NEW f \in S \ left'
        PROVE  \E k \in 1..Len(libTexts') : libTexts'[k] = f
    <3>1. CASE f = file
      <4>1. Len(libTexts) + 1 \in 1..Len(libTexts')
        BY <2>2
      <4> QED BY <2>2, <3>1, <4>1
    <3>2. CASE f # file
      <4>1. f \in S \ left
        BY <1>1, <3>2
      <4>2. PICK k \in 1..Len(libTexts) : libTexts[k] = f
        BY <1>1, <4>1
      <4>3. k \in 1..Len(libTexts')
        BY <2>2
      <4> QED BY <2>2, <4>2, <4>3
    <3> QED BY <3>1, <3>2
  <2>6. left' \subseteq D
    BY <1>1
  <2> USE DEF D, S
  <2> QED BY <1>1, <1>4, <2>2, <2>3, <2>4, <2>5, <2>6 DEF HostInv
<1> QED BY <1>3, <1>4 DEF ReadEntry, HostInv

LEMMA HostKeeps ==
  ASSUME HostInv, HostNext \/ UNCHANGED hostVars
  PROVE  HostInv'
<1>1. CASE Boot
  BY <1>1 DEF Boot, HostInv
<1>2. CASE ReadProgram
  BY <1>2 DEF ReadProgram, HostInv
<1>3. CASE OpenDir
  <2>1. /\ given' = given /\ host' = "entries" /\ left' = given.dir /\ libTexts' = libTexts
        /\ libTexts = <<>> /\ Len(libTexts) = 0 /\ given \in Inputs
        /\ libTexts \in Seq(Sources(given.dir))
    BY <1>3 DEF OpenDir, HostInv
  <2>2. Sources(given.dir) \subseteq left'
    BY <2>1 DEF Sources
  <2>3. Len(libTexts') + Cardinality(left') <= Cardinality(given'.dir)
    BY <2>1, DirFinite
  <2> QED BY <2>1, <2>2, <2>3 DEF HostInv
<1>4. ASSUME NEW file \in left, ReadEntry(file) PROVE HostInv'
  BY <1>4, ReadEntryKeeps
<1>5. CASE Punch
  BY <1>5 DEF Punch, HostInv, Message
<1>6. CASE Finish
  BY <1>6 DEF Finish, HostInv, Message
<1>7. CASE UNCHANGED hostVars
  BY <1>7 DEF HostInv, Message, hostVars
<1> QED BY <1>1, <1>2, <1>3, <1>4, <1>5, <1>6, <1>7 DEF HostNext
-----------------------------------------------------------------------------
(* What the kernel has done.                                               *)

\* What has been printed when a stage begins.
Before(stage) ==
  CASE stage = "jeam" -> {"parse"}
    [] stage = "mint" -> {"parse", "jeam"}
    [] stage = "jype" -> {"parse", "jeam", "mint"}
    [] stage = "nock" -> {"parse", "jeam", "mint", "jype"}
    [] stage = "acked" -> {"parse", "jeam", "mint", "jype", "nock"}
    [] OTHER -> {}

Stages ==
  /\ \A stage \in DOMAIN printed : printed[stage] \in {"value", "bunt"}
  /\ DOMAIN printed = Before(kernel)

TextsGiven ==
  /\ TextsTyped /\ PrefixKept
  /\ kernel = "idle" => idx = 0
  /\ kernel # "idle" => text = given.program.text /\ args = Printed(given.args)

KernelInv ==
  /\ kernel \in {"idle", "trap", "parse", "jeam", "mint", "jype", "nock",
                 "acked", "crashed", "nacked"}
  /\ kernel # "idle" => host \in {"wait", "ended"}
  /\ host = "ended" => kernel \in {"acked", "nacked"}
  /\ done <=> Past
  /\ means \in Meanings
  /\ LibsByStem

Inv == HostInv /\ KernelInv /\ TextsGiven /\ Stages

LEMMA InvTypes == Inv => TypeOK
<1> SUFFICES ASSUME Inv PROVE TypeOK
  OBVIOUS
<1>1. /\ idx \in 0..Len(args) /\ done \in BOOLEAN
  BY DEF Inv, TextsGiven, TextsTyped
<1>2. {libTexts[k] : k \in DOMAIN libTexts} \subseteq Sources(given.dir) \ left
  <2>1. /\ libTexts \in Seq(Sources(given.dir))
        /\ \A k \in 1..Len(libTexts) : libTexts[k] \notin left
    BY DEF Inv, HostInv
  <2>2. DOMAIN libTexts = 1..Len(libTexts) /\ \A k \in 1..Len(libTexts) : libTexts[k] \in Sources(given.dir)
    BY <2>1, LenProperties, ElementOfSeq
  <2> QED BY <2>1, <2>2
<1>3. kernel = "acked" => DOMAIN printed = {"parse", "jeam", "mint", "jype", "nock"}
  BY DEF Inv, Stages, Before
<1> QED BY <1>1, <1>2, <1>3 DEF TypeOK, Inv, HostInv, KernelInv, Stages

LEMMA KernelStarts ==
  ASSUME HostInit, KernelInit
  PROVE  KernelInv /\ TextsGiven /\ Stages
<1>1. TextsTyped
  <2>1. <<>> \in Seq(Char) /\ <<>> \in Seq(Seq(Char)) /\ Len(<<>>) = 0
    OBVIOUS
  <2>2. text = <<>> /\ body = <<>> /\ args = <<>> /\ idx = 0 /\ done = FALSE
    BY DEF KernelInit
  <2>3. idx \in 0..Len(args)
    BY <2>1, <2>2
  <2> QED BY <2>1, <2>2, <2>3 DEF TextsTyped
<1>2. PrefixKept
  <2>1. text = <<>> /\ 1..Len(text) = {}
    BY DEF KernelInit
  <2> QED BY <2>1 DEF PrefixKept
<1>3. TextsGiven
  BY <1>1, <1>2 DEF TextsGiven, KernelInit
<1>4. KernelInv
  BY DEF KernelInit, HostInit, KernelInv, Past, LibsByStem, Meanings
<1>5. Stages
  BY DEF KernelInit, Stages, Before
<1> QED BY <1>3, <1>4, <1>5

\* The host does not touch what the kernel has.
LEMMA HostLeavesKernel ==
  ASSUME Inv, HostNext
  PROVE  KernelInv' /\ TextsGiven' /\ Stages'
<1>1. UNCHANGED <<vars, kernelVars>> /\ given' = given
  BY DEF HostNext, Boot, ReadProgram, OpenDir, ReadEntry, Punch, Finish
<1>2. TextsGiven' /\ Stages'
  BY <1>1 DEF Inv, TextsGiven, TextsTyped, PrefixKept, Stages, Before, vars, kernelVars
<1>3. /\ kernel # "idle" => host' \in {"wait", "ended"}
      /\ host' = "ended" => kernel \in {"acked", "nacked"}
  BY DEF Inv, KernelInv, HostNext, Boot, ReadProgram, OpenDir, ReadEntry, Punch, Finish
<1>4. KernelInv'
  BY <1>1, <1>3 DEF Inv, KernelInv, Past, LibsByStem, vars, kernelVars
<1> QED BY <1>2, <1>4

\* What the poke hands over is what was given.
LEMMA PokeKeeps ==
  ASSUME Inv, Poke
  PROVE  KernelInv' /\ TextsGiven' /\ Stages'
<1>1. /\ given \in Inputs /\ poke = Message
      /\ host = "wait" /\ kernel = "idle" /\ kernel' = "trap" /\ idx = 0
      /\ UNCHANGED <<idx, done, hostVars, libs, means, printed>>
      /\ text' = poke.text /\ body' = poke.text
  BY DEF Poke, Inv, HostInv, TextsGiven
<1>2. /\ given.args \in Seq(Nat) /\ Len(given.args) <= MaxLength /\ MaxLength \in Nat
      /\ given.program.text \in Seq(Char)
      /\ Printed(given.args) \in Seq(Seq(Char))
  BY <1>1, JockcAssumption, PreprocessAssumption DEF Printed
<1>3. args' = Printed(given.args)
  <2>1. poke.args = HoonList(given.args)
    BY <1>1 DEF Message
  <2>2. HoonListToVec(poke.args, MaxLength) = given.args
    BY <1>2, <2>1, RoundTrip
  <2> QED BY <2>2 DEF Poke, Printed
<1>4. text' = given.program.text /\ body' = text' /\ given' = given
  BY <1>1 DEF Message, hostVars
<1>5. TextsTyped' /\ PrefixKept'
  <2>1. Len(Printed(given.args)) \in Nat /\ Len(given.program.text) \in Nat
    BY <1>2, LenProperties
  <2>2. idx' \in 0..Len(args') /\ done' \in BOOLEAN
    BY <1>1, <1>3, <2>1 DEF Inv, TextsGiven, TextsTyped
  <2>3. TextsTyped'
    BY <1>2, <1>3, <1>4, <2>2 DEF TextsTyped
  <2>4. PrefixKept'
    <3> SUFFICES ASSUME NEW k \in 1..Len(text')
                 PROVE  Len(body') >= k /\ body'[k] = text'[k]
      BY DEF PrefixKept
    <3> QED BY <1>4, <2>1
  <2> QED BY <2>3, <2>4
<1>6. TextsGiven'
  BY <1>1, <1>3, <1>4, <1>5 DEF TextsGiven
<1>7. KernelInv'
  BY <1>1 DEF Inv, KernelInv, Past, LibsByStem, hostVars
<1>8. Stages'
  BY <1>1 DEF Inv, Stages, Before
<1> QED BY <1>6, <1>7, <1>8

\* The map that the kernel makes of the libraries it was sent.
LEMMA LibsMade ==
  ASSUME HostInv, host = "wait"
  PROVE  LET map == Malt(HoonListToVec(poke.libs, MaxLength))
         IN  /\ DOMAIN map = {file.stem : file \in Sources(given.dir)}
             /\ \A name \in DOMAIN map : \E file \in Sources(given.dir) :
                  file.stem = name /\ file.readable /\ map[name] = file.text
<1> DEFINE S == Sources(given.dir)
           T == {<<file.stem, file.text>> : file \in S}
           n == Len(libTexts)
           pairs == [k \in DOMAIN libTexts |-> <<libTexts[k].stem, libTexts[k].text>>]
           map == Malt(pairs)
<1>1. /\ libTexts \in Seq(S) /\ left = {} /\ poke = Message
      /\ \A file \in S \ left : \E k \in 1..n : libTexts[k] = file
      /\ \A k \in 1..n : libTexts[k].readable
      /\ n + Cardinality(left) <= Cardinality(given.dir)
  BY DEF HostInv
<1>2. n \in Nat /\ DOMAIN libTexts = 1..n /\ n <= MaxLength /\ MaxLength \in Nat
  BY <1>1, DirFinite
<1>3. \A k \in 1..n : libTexts[k] \in S
  BY <1>1, ElementOfSeq
<1>4. pairs \in [1..n -> T] /\ \A k \in 1..n : pairs[k] = <<libTexts[k].stem, libTexts[k].text>>
  BY <1>2, <1>3
<1> HIDE DEF pairs, T, n, S
<1>5. pairs \in Seq(T) /\ Len(pairs) = n /\ DOMAIN pairs = 1..n
  BY <1>2, <1>4
<1>6. HoonListToVec(poke.libs, MaxLength) = pairs
  <2>1. poke.libs = HoonList(pairs)
    BY <1>1 DEF Message, HoonTupleList, pairs
  <2> QED BY <1>2, <1>5, <2>1, RoundTrip
<1> HIDE DEF map
<1>7. /\ DOMAIN map = {pairs[k][1] : k \in 1..n}
      /\ \A name \in DOMAIN map : \E k \in 1..n : pairs[k][1] = name /\ map[name] = pairs[k][2]
  <2>1. /\ DOMAIN Malt(pairs) = {pairs[k][1] : k \in DOMAIN pairs}
        /\ \A name \in DOMAIN Malt(pairs) : \E k \in DOMAIN pairs :
             pairs[k][1] = name /\ Malt(pairs)[name] = pairs[k][2]
    BY <1>5, MaltPairs
  <2>2. map = Malt(pairs)
    BY DEF map
  <2> QED BY <1>5, <2>1, <2>2
<1>8. \A k \in 1..n : pairs[k][1] = libTexts[k].stem /\ pairs[k][2] = libTexts[k].text
  BY <1>4
<1>9. DOMAIN map = {file.stem : file \in S}
  BY <1>1, <1>3, <1>7, <1>8
<1>10. ASSUME NEW name \in DOMAIN map
       PROVE  \E file \in S : file.stem = name /\ file.readable /\ map[name] = file.text
  <2>1. PICK k \in 1..n : pairs[k][1] = name /\ map[name] = pairs[k][2]
    BY <1>7
  <2> QED BY <1>1, <1>3, <1>8, <2>1 DEF n
<1> QED BY <1>6, <1>9, <1>10 DEF map, S

LEMMA RoundOfKernelKeeps ==
  ASSUME Inv, Round
  PROVE  KernelInv' /\ TextsGiven' /\ Stages'
<1>1. /\ kernel = "trap" /\ kernel' \in {"trap", "parse"} /\ given' = given /\ host' = host
      /\ printed' = printed /\ host = "wait" /\ text' = text /\ args' = args
      /\ done' <=> kernel' = "parse"
      /\ done' \in BOOLEAN
      /\ TextsTyped /\ PrefixKept /\ Next
  BY DEF Round, hostVars, Inv, KernelInv, TextsGiven, Return, Absent, Insert, Next, TextsTyped
<1>2. TextsTyped' /\ PrefixKept'
  BY <1>1, RoundKeeps
<1>3. TextsGiven'
  BY <1>1, <1>2 DEF Inv, TextsGiven
<1>4. means' \in Meanings /\ (done' => libs' = Malt(HoonListToVec(poke.libs, MaxLength)))
  BY DEF Round, Inv, KernelInv
<1>5. LibsByStem'
  <2>1. CASE done'
    <3> DEFINE map == Malt(HoonListToVec(poke.libs, MaxLength))
    <3>1. /\ DOMAIN map = {file.stem : file \in Sources(given.dir)}
          /\ \A name \in DOMAIN map : \E file \in Sources(given.dir) :
               file.stem = name /\ file.readable /\ map[name] = file.text
      BY <1>1, LibsMade DEF Inv
    <3> HIDE DEF map
    <3>2. libs' = map /\ given' = given
      BY <1>1, <1>4, <2>1 DEF map
    <3> QED BY <3>1, <3>2 DEF LibsByStem
  <2>2. CASE ~done'
    BY <1>1, <2>2 DEF LibsByStem, Past
  <2> QED BY <2>1, <2>2
<1>6. KernelInv'
  BY <1>1, <1>4, <1>5 DEF Inv, KernelInv, Past
<1>7. Stages'
  BY <1>1 DEF Inv, Stages, Before
<1> QED BY <1>3, <1>6, <1>7

\* From the first stage on, only what is printed changes.
LEMMA StagesKeep ==
  ASSUME Inv, Parse \/ Jeam \/ Mint \/ Jype \/ Nock \/ Crud
  PROVE  KernelInv' /\ TextsGiven' /\ Stages'
<1>1. /\ UNCHANGED <<vars, hostVars, libs, means>> /\ kernel # "idle" /\ kernel # "trap"
      /\ kernel' \in {"jeam", "mint", "jype", "nock", "acked", "crashed", "nacked"}
      /\ kernel \in {"parse", "jeam", "mint", "jype", "nock", "crashed"}
  BY DEF Parse, Jeam, Mint, Jype, Nock, Crud, Stage
<1>2. host = "wait"
  BY <1>1 DEF Inv, KernelInv
<1>3. KernelInv'
  BY <1>1, <1>2 DEF Inv, KernelInv, Past, LibsByStem, vars, hostVars
<1>4. TextsGiven'
  BY <1>1 DEF Inv, TextsGiven, TextsTyped, PrefixKept, vars, hostVars
<1>5. Stages'
  <2>1. ASSUME NEW stage, NEW what \in {"value", "bunt"}, Prints(stage, what)
        PROVE  /\ DOMAIN printed' = DOMAIN printed \cup {stage}
               /\ \A s \in DOMAIN printed' : printed'[s] \in {"value", "bunt"}
    BY <2>1 DEF Prints, Inv, Stages
  <2>2. /\ Before("parse") = {} /\ Before("jeam") = {"parse"} /\ Before("crashed") = {}
        /\ Before("nacked") = {} /\ Before("mint") = Before("jeam") \cup {"jeam"}
        /\ Before("jype") = Before("mint") \cup {"mint"}
        /\ Before("nock") = Before("jype") \cup {"jype"}
        /\ Before("acked") = Before("nock") \cup {"nock"}
    BY DEF Before
  <2>3. ASSUME NEW stage, NEW next, NEW what \in {"value", "bunt"}, Prints(stage, what),
               kernel = stage, kernel' = next, Before(next) = Before(stage) \cup {stage}
        PROVE  Stages'
    <3>1. DOMAIN printed' = Before(next)
      BY <2>1, <2>3 DEF Inv, Stages
    <3> QED BY <2>1, <2>3, <3>1 DEF Stages, Before
  <2>4. CASE Parse
    <3>1. CASE means = "garbage"
      BY <2>2, <2>4, <3>1 DEF Parse, Inv, Stages
    <3>2. CASE means # "garbage"
      BY <2>2, <2>3, <2>4, <3>2 DEF Parse
    <3> QED BY <3>1, <3>2
  <2>5. CASE Jeam
    BY <2>2, <2>3, <2>5 DEF Jeam, Stage
  <2>6. CASE Mint
    BY <2>2, <2>3, <2>6 DEF Mint, Stage
  <2>7. CASE Jype
    BY <2>2, <2>3, <2>7 DEF Jype, Stage
  <2>8. CASE Nock
    BY <2>2, <2>3, <2>8 DEF Nock, Stage
  <2>9. CASE Crud
    BY <2>2, <2>9 DEF Crud, Inv, Stages
  <2> QED BY <2>4, <2>5, <2>6, <2>7, <2>8, <2>9
<1> QED BY <1>3, <1>4, <1>5

LEMMA InvKeeps == Inv /\ [JockcNext]_allVars => Inv'
<1> SUFFICES ASSUME Inv, [JockcNext]_allVars PROVE Inv'
  OBVIOUS
<1>1. CASE HostNext
  BY <1>1, HostKeeps, HostLeavesKernel DEF Inv
<1>2. CASE KernelNext
  <2>1. UNCHANGED hostVars
    BY <1>2 DEF KernelNext, Poke, Round, Parse, Jeam, Mint, Jype, Nock, Crud, Stage
  <2>2. HostInv'
    BY <2>1, HostKeeps DEF Inv
  <2>3. KernelInv' /\ TextsGiven' /\ Stages'
    BY <1>2, PokeKeeps, RoundOfKernelKeeps, StagesKeep DEF KernelNext
  <2> QED BY <2>2, <2>3 DEF Inv
<1>3. CASE UNCHANGED allVars
  <2>1. UNCHANGED <<vars, hostVars, kernelVars>>
    BY <1>3 DEF allVars
  <2>2. HostInv'
    BY <2>1, HostKeeps DEF Inv
  <2>3. KernelInv' /\ TextsGiven' /\ Stages'
    BY <2>1 DEF Inv, KernelInv, TextsGiven, TextsTyped, PrefixKept, Stages, Before, Past,
                LibsByStem, vars, hostVars, kernelVars
  <2> QED BY <2>2, <2>3 DEF Inv
<1> QED BY <1>1, <1>2, <1>3 DEF JockcNext

LEMMA InvHolds == JockcSpec => []Inv
<1>1. JockcInit => Inv
  BY HostStarts, KernelStarts DEF JockcInit, Inv
<1> QED BY <1>1, InvKeeps, PTL DEF JockcSpec

\* The two sides of the command are never further apart than the driver lets
\* them be: the kernel works only while the host waits.
THEOREM JockcTypes == JockcSpec => []TypeOK
BY InvHolds, InvTypes, PTL

\* A program is compiled with all libraries of its directory.
THEOREM JockcLibs == JockcSpec => []LibsByStem
<1>1. Inv => LibsByStem
  BY DEF Inv, KernelInv
<1> QED BY <1>1, InvHolds, PTL

\* No argument, however often inserted, reaches what stands before the first "#".
THEOREM JockcPrefix == JockcSpec => []PrefixKept
<1>1. Inv => PrefixKept
  BY DEF Inv, TextsGiven
<1> QED BY <1>1, InvHolds, PTL

\* A poke begins the run on texts that are as the preprocessor expects them, and
\* no other step than a round changes them.
LEMMA MiddleLasts ==
  ASSUME Inv, Inv', MiddleInv, [JockcNext]_allVars
  PROVE  Fresh' \/ MiddleInv'
<1>1. CASE Round
  <2>1. TextsTyped /\ Next
    BY <1>1 DEF Round, Inv, TextsGiven, Next
  <2> QED BY <2>1, MiddleKeeps
<1>2. CASE Poke
  <2>1. /\ given \in Inputs /\ given' = given /\ kernel' = "trap"
        /\ idx' = idx /\ idx = 0 /\ done' = done /\ ~done /\ body' = text'
    BY <1>2 DEF Poke, hostVars, Inv, HostInv, TextsGiven, KernelInv, Past
  <2>2. TextsTyped' /\ args' = Printed(given.args)
    BY <2>1 DEF Inv, TextsGiven
  <2>3. args' \in Arguments
    BY <2>1, <2>2, JockcAssumption DEF Printed
  <2>4. \A i \in 1..Len(args') : \A k \in 1..Len(args'[i]) : args'[i][k] # "#"
    BY <2>3, PreprocessAssumption
  <2> QED BY <2>1, <2>2, <2>4 DEF Fresh
<1>3. CASE UNCHANGED vars
  BY <1>3, MiddleStays
<1>4. ASSUME ~Round, ~Poke PROVE UNCHANGED vars
  BY <1>4 DEF JockcNext, KernelNext, HostNext, Boot, ReadProgram, OpenDir, ReadEntry, Punch,
              Finish, Parse, Jeam, Mint, Jype, Nock, Crud, Stage, allVars
<1> QED BY <1>1, <1>2, <1>3, <1>4

\* With at most ten arguments, and placeholders where offsets print with three
\* digits, the kernel compiles what is meant.
THEOREM JockcMiddle == JockcSpec => []SubstitutedMiddle
<1>1. JockcInit => Fresh
  <2> SUFFICES ASSUME JockcInit PROVE Fresh
    OBVIOUS
  <2>1. TextsTyped
    BY KernelStarts DEF JockcInit, TextsGiven
  <2>2. body = text /\ idx = 0 /\ ~done /\ Len(args) = 0
    BY DEF JockcInit, KernelInit
  <2> QED BY <2>1, <2>2 DEF Fresh
<1>2. Inv /\ Inv' /\ MiddleInv /\ [JockcNext]_allVars => Fresh' \/ MiddleInv'
  BY MiddleLasts
<1> QED BY <1>1, <1>2, InvHolds, MiddleStarts, MiddleMeans, PTL DEF JockcSpec
-----------------------------------------------------------------------------
(* What is run is the program that was given.                              *)

\* The operators on texts are those of the preprocessor.
LEMMA SameTexts ==
  /\ \A i : Program!Key(i) = Key(i)
  /\ \A n : Program!PrintedLen(n) = PrintedLen(n)
  /\ \A b, off, key : Program!Occurs(b, off, key) = Occurs(b, off, key)
  /\ \A b, off, key : Program!Find(b, key, off) = Find(b, key, off)
  /\ \A n, b : Program!Slag(n, b) = Slag(n, b)
<1>1. \A n : Program!Digits(n) = Digits(n)
  BY DEF Program!Digits, Digits
<1>2. \A b, off, key : Program!Occurs(b, off, key) = Occurs(b, off, key)
  BY DEF Program!Occurs, Occurs
<1>3. \A i : Program!Key(i) = Key(i)
  BY <1>1 DEF Program!Key, Key
<1>4. \A n : Program!PrintedLen(n) = PrintedLen(n)
  BY <1>1 DEF Program!PrintedLen, PrintedLen
<1>5. \A b, off, key : Program!Find(b, key, off) = Find(b, key, off)
  BY <1>2 DEF Program!Find, Find
<1>6. \A n, b : Program!Slag(n, b) = Slag(n, b)
  BY DEF Program!Slag, Slag
<1> QED BY <1>2, <1>3, <1>4, <1>5, <1>6

\* A round of the kernel is a round of the preprocessor.
LEMMA RoundMaps ==
  ASSUME Inv, Round
  PROVE  Program!Next
<1>1. /\ given' = given /\ kernel # "idle" /\ kernel' # "idle"
      /\ text = given.program.text /\ args = Printed(given.args)
      /\ Return \/ Absent \/ Insert
  BY DEF Round, hostVars, Inv, TextsGiven
<1>2. /\ (IF kernel = "idle" THEN given.program.text ELSE body) = body
      /\ (IF kernel' = "idle" THEN given'.program.text ELSE body') = body'
      /\ [k \in DOMAIN given.args |-> ScotUd(given.args[k])] = args
      /\ [k \in DOMAIN given'.args |-> ScotUd(given'.args[k])] = args
      /\ given'.program.text = given.program.text
  BY <1>1 DEF Printed
<1>3. CASE Return
  BY <1>2, <1>3 DEF Return, Program!Return, Program!Next
<1>4. CASE Absent
  BY <1>2, <1>4, SameTexts DEF Absent, Program!Absent, Program!Next
<1>5. CASE Insert
  BY <1>2, <1>5, SameTexts DEF Insert, Program!Insert, Program!Next
<1> QED BY <1>1, <1>3, <1>4, <1>5

\* Every other step leaves the preprocessor as it is.
LEMMA OthersStutter ==
  ASSUME Inv, [JockcNext]_allVars, ~Round
  PROVE  UNCHANGED Program!vars
<1>1. CASE HostNext \/ UNCHANGED allVars
  <2>1. given' = given /\ kernel' = kernel /\ body' = body /\ idx' = idx /\ done' = done
    BY <1>1 DEF HostNext, Boot, ReadProgram, OpenDir, ReadEntry, Punch, Finish,
                allVars, vars, hostVars, kernelVars
  <2> QED BY <2>1 DEF Program!vars
<1>2. CASE Poke
  <2>1. /\ given' = given /\ idx' = idx /\ done' = done /\ kernel = "idle" /\ kernel' = "trap"
        /\ body' = poke.text /\ poke = Message
    BY <1>2 DEF Poke, hostVars, Inv, HostInv
  <2>2. body' = given.program.text
    BY <2>1 DEF Message
  <2> QED BY <2>1, <2>2 DEF Program!vars
<1>3. CASE Parse \/ Jeam \/ Mint \/ Jype \/ Nock \/ Crud
  <2>1. /\ given' = given /\ idx' = idx /\ done' = done /\ body' = body
        /\ kernel # "idle" /\ kernel' # "idle"
    BY <1>3 DEF Parse, Jeam, Mint, Jype, Nock, Crud, Stage, vars, hostVars
  <2> QED BY <2>1 DEF Program!vars
<1> QED BY <1>1, <1>2, <1>3 DEF JockcNext, KernelNext

\* The run that the kernel makes, seen without the host, is a run of the
\* preprocessor on the program and the arguments of the command line.
THEOREM JockcHandsOver == JockcSpec => HandsOver
<1>1. JockcInit => Program!Init
  <2> SUFFICES ASSUME JockcInit PROVE Program!Init
    OBVIOUS
  <2>1. /\ given \in Inputs /\ kernel = "idle" /\ idx = 0 /\ done = FALSE
    BY DEF JockcInit, HostInit, KernelInit
  <2>2. /\ given.program.text \in Bodies
        /\ [k \in DOMAIN given.args |-> ScotUd(given.args[k])] \in Arguments
    BY <2>1, JockcAssumption
  <2> QED BY <2>1, <2>2 DEF Program!Init
<1>2. Inv /\ [JockcNext]_allVars => [Program!Next]_(Program!vars)
  BY RoundMaps, OthersStutter
<1> QED BY <1>1, <1>2, InvHolds, PTL DEF JockcSpec, HandsOver, Program!Spec
=============================================================================
