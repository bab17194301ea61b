------------------------------ MODULE Iteration ------------------------------
(***************************************************************************)
(* Induction on numbers, without the operators that the library's          *)
(* theorems take as parameters: the least number of a set, and functions   *)
(* that are defined by iterating another.                                  *)
(***************************************************************************)
EXTENDS Integers, WellFoundedInduction, TLAPS

\* A non-empty set of natural numbers has a least element.
LEMMA LeastNat ==
  ASSUME NEW T \in SUBSET Nat, T # {}
  PROVE  \E x \in T : \A y \in T : x <= y
<1> DEFINE R == {ss \in Nat \X Nat : ss[1] < ss[2]}
<1>1. IsWellFoundedOn(R, Nat)
  BY NatLessThanWellFounded DEF OpToRel
<1>2. PICK x \in T : \A y \in T : ~(<<y, x>> \in R)
  BY <1>1, WFMin
<1>3. ASSUME NEW y \in T
      PROVE  x <= y
  <2>1. x \in Nat /\ y \in Nat
    OBVIOUS
  <2>2. <<y, x>> \in R <=> y < x
    BY <2>1
  <2> QED
    BY <1>2, <2>1, <2>2
<1> QED
  BY <1>3

\* f starts at x and goes on as step says.
Iterates(f, x, step) == f[0] = x /\ \A n \in Nat : n # 0 => f[n] = step[f[n - 1]]

\* There is such a function.
LEMMA Iterated ==
  ASSUME NEW X, NEW x \in X, NEW step \in [X -> X]
  PROVE  \E f \in [Nat -> X] : Iterates(f, x, step)
<1> DEFINE Prefix(n) == {g \in [0..n -> X] : g[0] = x /\ \A i \in 1..n : g[i] = step[g[i - 1]]}
<1>1. \A n \in Nat : Prefix(n) # {}
  <2> DEFINE Missing == {n \in Nat : Prefix(n) = {}}
  <2>1. SUFFICES ASSUME Missing # {} PROVE FALSE
    OBVIOUS
  <2>2. PICK n \in Missing : \A m \in Missing : n <= m
    BY <2>1, LeastNat
  <2>3. CASE n = 0
    <3>1. [i \in 0..0 |-> x] \in Prefix(0)
      OBVIOUS
    <3> QED BY <2>2, <2>3, <3>1
  <2>4. CASE n # 0
    <3> HIDE DEF Prefix
    <3>0. n \in Nat /\ n - 1 \in Nat /\ ~(n <= n - 1)
      BY <2>2, <2>4
    <3>1. n - 1 \in Nat /\ Prefix(n - 1) # {}
      BY <2>2, <3>0
    <3> USE DEF Prefix
    <3>2. PICK g \in Prefix(n - 1) : TRUE
      BY <3>1
    <3> DEFINE h == [i \in 0..n |-> IF i = n THEN step[g[n - 1]] ELSE g[i]]
    <3>3. h \in [0..n -> X] /\ h[0] = x
      BY <2>4, <3>1, <3>2
    <3>4. ASSUME NEW i \in 1..n PROVE h[i] = step[h[i - 1]]
      BY <2>4, <3>1, <3>2
    <3>5. h \in Prefix(n)
      BY <3>3, <3>4
    <3> QED BY <2>2, <3>5
  <2> QED BY <2>3, <2>4
<1>2. ASSUME NEW m \in Nat, NEW n \in Nat, NEW g \in Prefix(m), NEW h \in Prefix(n), m <= n
      PROVE  \A i \in 0..m : g[i] = h[i]
  <2> DEFINE Differ == {i \in 0..m : g[i] # h[i]}
  <2>1. SUFFICES ASSUME Differ # {} PROVE FALSE
    OBVIOUS
  <2>2. Differ \in SUBSET Nat
    OBVIOUS
  <2>3. PICK i \in Differ : \A j \in Differ : i <= j
    BY <2>1, <2>2, LeastNat
  <2>4. i # 0 /\ i \in 1..m /\ i \in 1..n
    BY <1>2, <2>3
  <2>5. i - 1 \in 0..m /\ i - 1 \notin Differ
    BY <2>3, <2>4
  <2> QED BY <2>3, <2>4, <2>5
<1> DEFINE choice(n) == CHOOSE g : g \in Prefix(n)
<1>3. ASSUME NEW n \in Nat PROVE choice(n) \in Prefix(n)
  BY <1>1
<1> DEFINE f == [n \in Nat |-> choice(n)[n]]
<1> HIDE DEF choice
<1>4. f \in [Nat -> X]
  BY <1>3
<1>5. f[0] = x
  BY <1>3
<1>6. ASSUME NEW n \in Nat, n # 0 PROVE f[n] = step[f[n - 1]]
  <2>1. choice(n) \in Prefix(n) /\ choice(n - 1) \in Prefix(n - 1)
    BY <1>3, <1>6
  <2>2. choice(n - 1)[n - 1] = choice(n)[n - 1]
    <3> HIDE DEF Prefix
    <3>1. n - 1 \in Nat /\ n - 1 <= n /\ n - 1 \in 0..(n - 1)
      BY <1>6
    <3> QED BY <1>2, <2>1, <3>1
  <2>3. choice(n)[n] = step[choice(n)[n - 1]]
    BY <1>6, <2>1
  <2> QED BY <1>6, <2>2, <2>3
<1> HIDE DEF f
<1> QED BY <1>4, <1>5, <1>6 DEF Iterates

\* The same up to N, with a step that may depend on the argument.
Recurs(f, N, x, step) == f[0] = x /\ \A n \in 1..N : f[n] = step[<<n, f[n - 1]>>]

LEMMA Recursive ==
  ASSUME NEW X, NEW x \in X, NEW N \in Nat, NEW step \in [(1..N) \X X -> X]
  PROVE  \E f \in [0..N -> X] : Recurs(f, N, x, step)
<1> DEFINE Prefix(n) == {g \in [0..n -> X] :
                           g[0] = x /\ \A i \in 1..n : g[i] = step[<<i, g[i - 1]>>]}
           Missing == {n \in 0..N : Prefix(n) = {}}
<1>1. SUFFICES ASSUME Missing # {} PROVE FALSE
  <2>1. N \in 0..N
    OBVIOUS
  <2>2. Prefix(N) = {} => N \in Missing
    BY <2>1
  <2>3. ASSUME NEW g \in Prefix(N) PROVE g \in [0..N -> X] /\ Recurs(g, N, x, step)
    BY DEF Recurs
  <2> QED BY <2>2, <2>3
<1>2. PICK n \in Missing : \A m \in Missing : n <= m
  <2>1. Missing \in SUBSET Nat
    OBVIOUS
  <2> QED BY <1>1, <2>1, LeastNat
<1>3. CASE n = 0
  <2>1. [i \in 0..0 |-> x] \in Prefix(0)
    OBVIOUS
  <2> QED BY <1>2, <1>3, <2>1
<1>4. CASE n # 0
  <2>1. n \in 1..N /\ n - 1 \in 0..N /\ ~(n <= n - 1)
    BY <1>2, <1>4
  <2>2. PICK g \in Prefix(n - 1) : TRUE
    <3> HIDE DEF Prefix
    <3>1. n \in Nat /\ n - 1 \notin Missing
      BY <1>2, <2>1
    <3> QED BY <2>1, <3>1
  <2> DEFINE h == [i \in 0..n |-> IF i = n THEN step[<<n, g[n - 1]>>] ELSE g[i]]
  <2>3. h \in [0..n -> X] /\ h[0] = x
    BY <2>1, <2>2
  <2>4. ASSUME NEW i \in 1..n PROVE h[i] = step[<<i, h[i - 1]>>]
    <3>1. i \in 0..n /\ i - 1 \in 0..n /\ i - 1 # n /\ (i # n => i \in 1..(n - 1))
      BY <2>1
    <3>2. h[i - 1] = g[i - 1]
      BY <3>1
    <3>3. h[i] = IF i = n THEN step[<<n, g[n - 1]>>] ELSE g[i]
      BY <3>1
    <3>4. i # n => g[i] = step[<<i, g[i - 1]>>]
      BY <2>2, <3>1
    <3> QED BY <3>2, <3>3, <3>4
  <2>5. h \in Prefix(n)
    BY <2>3, <2>4
  <2> QED BY <1>2, <2>5
<1> QED BY <1>3, <1>4
=============================================================================
