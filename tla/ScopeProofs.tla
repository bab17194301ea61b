----------------------------- MODULE ScopeProofs -----------------------------
(***************************************************************************)
(* For every set of names and values and all bounds: the type describes    *)
(* the subject at every step of a program, and the axes do what the names  *)
(* promise (Scope implements Environment).                                 *)
(***************************************************************************)
EXTENDS Scope, Iteration

(* Axes.                                                                   *)

\* What a number below the limit of an axis is in an axis of the code.
LEMMA WrapBelow ==
  ASSUME NEW x \in Nat
  PROVE  Wrap(x) \in Nat /\ (x < AxisLimit => Wrap(x) = x)
<1> DEFINE n == AxisLimit
<1>1. n \in Nat /\ n > 0
  BY ScopeAssumption
<1> HIDE DEF n
<1>2. x % n \in 0..(n - 1) /\ (x < n => x % n = x)
  BY <1>1
<1> QED BY <1>2 DEF Wrap, n

\* The axes behind the values of a noun, as they are defined.
LEMMA SpineUnfolds ==
  ASSUME NEW k \in Nat
  PROVE  Spine[k] = IF k = 0 THEN 1 ELSE 2 * Spine[k - 1] + 1
<1> DEFINE step == [m \in Nat |-> 2 * m + 1]
           Unfolds(f) == f = [n \in Nat |-> IF n = 0 THEN 1 ELSE 2 * f[n - 1] + 1]
<1>1. step \in [Nat -> Nat] /\ 1 \in Nat
  OBVIOUS
<1>2. PICK f \in [Nat -> Nat] : Iterates(f, 1, step)
  <2> HIDE DEF step
  <2> QED BY <1>1, Iterated
<1>3. ASSUME NEW n \in Nat
      PROVE  f[n] = IF n = 0 THEN 1 ELSE 2 * f[n - 1] + 1
  <2>1. f[n] = IF n = 0 THEN 1 ELSE step[f[n - 1]]
    BY <1>2 DEF Iterates
  <2>2. n # 0 => n - 1 \in Nat
    OBVIOUS
  <2>3. n # 0 => f[n - 1] \in Nat
    BY <2>2
  <2> QED BY <2>1, <2>3
<1>4. Unfolds(f)
  <2>1. f = [n \in Nat |-> f[n]]
    OBVIOUS
  <2> QED BY <1>3, <2>1
<1>5. Spine = CHOOSE g : Unfolds(g)
  BY DEF Spine
<1>6. Unfolds(Spine)
  <2> HIDE DEF Unfolds
  <2> QED BY <1>4, <1>5
<1> QED BY <1>6

\* The same of the axes of the code.
LEMMA TailAxisUnfolds ==
  ASSUME NEW k \in Nat
  PROVE  TailAxis[k] = IF k = 0 THEN 1 ELSE Wrap(2 * TailAxis[k - 1] + 1)
<1> DEFINE step == [m \in Nat |-> Wrap(2 * m + 1)]
           Unfolds(f) == f = [n \in Nat |-> IF n = 0 THEN 1 ELSE Wrap(2 * f[n - 1] + 1)]
<1>1. step \in [Nat -> Nat] /\ 1 \in Nat
  <2>1. ASSUME NEW m \in Nat PROVE Wrap(2 * m + 1) \in Nat
    <3>1. 2 * m + 1 \in Nat
      OBVIOUS
    <3> QED BY <3>1, WrapBelow
  <2> QED BY <2>1
<1>2. PICK f \in [Nat -> Nat] : Iterates(f, 1, step)
  <2> HIDE DEF step
  <2> QED BY <1>1, Iterated
<1>3. ASSUME NEW n \in Nat
      PROVE  f[n] = IF n = 0 THEN 1 ELSE Wrap(2 * f[n - 1] + 1)
  <2>1. f[n] = IF n = 0 THEN 1 ELSE step[f[n - 1]]
    BY <1>2 DEF Iterates
  <2>2. n # 0 => n - 1 \in Nat
    OBVIOUS
  <2>3. n # 0 => f[n - 1] \in Nat
    BY <2>2
  <2> QED BY <2>1, <2>3
<1>4. Unfolds(f)
  <2>1. f = [n \in Nat |-> f[n]]
    OBVIOUS
  <2> QED BY <1>3, <2>1
<1>5. TailAxis = CHOOSE g : Unfolds(g)
  BY DEF TailAxis
<1>6. Unfolds(TailAxis)
  <2> HIDE DEF Unfolds
  <2> QED BY <1>4, <1>5
<1> QED BY <1>6

\* They are numbers, the first is 1, and each is more than twice the one before.
LEMMA SpineFacts ==
  /\ Spine[0] = 1
  /\ \A k \in Nat : Spine[k] \in Nat /\ Spine[k + 1] = 2 * Spine[k] + 1
<1> DEFINE Outside == {n \in Nat : Spine[n] \notin Nat}
<1>1. Spine[0] = 1
  BY SpineUnfolds
<1>2. ASSUME NEW k \in Nat PROVE Spine[k + 1] = 2 * Spine[k] + 1
  <2>1. k + 1 \in Nat /\ k + 1 # 0 /\ (k + 1) - 1 = k
    OBVIOUS
  <2> QED BY <2>1, SpineUnfolds
<1>3. Outside = {}
  <2>1. SUFFICES ASSUME Outside # {} PROVE FALSE
    OBVIOUS
  <2>2. PICK n \in Outside : \A m \in Outside : n <= m
    <3>1. Outside \in SUBSET Nat
      OBVIOUS
    <3> QED BY <2>1, <3>1, LeastNat
  <2>3. n \in Nat /\ n # 0
    BY <1>1, <2>2
  <2>4. n - 1 \in Nat /\ ~(n <= n - 1) /\ (n - 1) + 1 = n
    BY <2>3
  <2>5. Spine[n - 1] \in Nat
    BY <2>2, <2>4
  <2>6. Spine[n] = 2 * Spine[n - 1] + 1
    BY <1>2, <2>4
  <2> QED BY <2>2, <2>5, <2>6
<1> QED BY <1>1, <1>2, <1>3

\* Every axis is larger than those before it.
LEMMA SpineGrows ==
  ASSUME NEW i \in Nat, NEW j \in Nat, i < j
  PROVE  2 * Spine[i] < Spine[j]
<1> DEFINE Bad == {n \in Nat : i < n /\ ~(2 * Spine[i] < Spine[n])}
<1>1. SUFFICES ASSUME Bad # {} PROVE FALSE
  OBVIOUS
<1>2. PICK n \in Bad : \A m \in Bad : n <= m
  <2>1. Bad \in SUBSET Nat
    OBVIOUS
  <2> QED BY <1>1, <2>1, LeastNat
<1>3. n \in Nat /\ i < n /\ n - 1 \in Nat /\ (n - 1) + 1 = n /\ ~(n <= n - 1)
  BY <1>2
<1>4. /\ Spine[n] = 2 * Spine[n - 1] + 1
      /\ Spine[n - 1] \in Nat /\ Spine[i] \in Nat
  BY <1>3, SpineFacts
<1>5. ~(2 * Spine[i] < Spine[n])
  BY <1>2
<1>6. CASE i = n - 1
  BY <1>4, <1>5, <1>6
<1>7. CASE i # n - 1
  <2>1. i < n - 1 /\ n - 1 \notin Bad
    BY <1>2, <1>3, <1>7
  <2>2. 2 * Spine[i] < Spine[n - 1]
    BY <1>3, <2>1
  <2> QED BY <1>4, <1>5, <2>2
<1> QED BY <1>6, <1>7

\* No axis of a subject within the bound wraps.
LEMMA AxesFit ==
  ASSUME NEW k \in 0..MaxDepth
  PROVE  /\ Spine[k] \in Nat
         /\ Spine[k] < AxisLimit
         /\ TailAxis[k] = Spine[k]
         /\ k # 0 => HeadAxis(k) = 2 * Spine[k - 1]
<1> DEFINE Bad == {n \in Nat : n <= MaxDepth /\ TailAxis[n] # Spine[n]}
<1>1. ASSUME NEW n \in Nat, n <= MaxDepth
      PROVE  Spine[n] \in Nat /\ Spine[n] < AxisLimit
  <2>1. /\ MaxDepth \in Nat /\ Spine[MaxDepth] < AxisLimit /\ AxisLimit \in Nat
        /\ Spine[n] \in Nat /\ Spine[MaxDepth] \in Nat
    BY ScopeAssumption, SpineFacts
  <2>2. CASE n = MaxDepth
    BY <2>1, <2>2
  <2>3. CASE n # MaxDepth
    <3>1. 2 * Spine[n] < Spine[MaxDepth]
      BY <1>1, <2>1, <2>3, SpineGrows
    <3> QED BY <2>1, <3>1
  <2> QED BY <2>2, <2>3
<1>2. Bad = {}
  <2>1. SUFFICES ASSUME Bad # {} PROVE FALSE
    OBVIOUS
  <2>2. PICK n \in Bad : \A m \in Bad : n <= m
    <3>1. Bad \in SUBSET Nat
      OBVIOUS
    <3> QED BY <2>1, <3>1, LeastNat
  <2>3. TailAxis[0] = 1 /\ Spine[0] = 1
    BY TailAxisUnfolds, SpineFacts
  <2>4. n \in Nat /\ n # 0 /\ n <= MaxDepth
    BY <2>2, <2>3
  <2>5. n - 1 \in Nat /\ (n - 1) + 1 = n /\ ~(n <= n - 1) /\ n - 1 <= MaxDepth
    BY <2>4, ScopeAssumption
  <2>6. TailAxis[n - 1] = Spine[n - 1]
    BY <2>2, <2>5
  <2>7. TailAxis[n] = Wrap(2 * TailAxis[n - 1] + 1) /\ Spine[n] = 2 * Spine[n - 1] + 1
    BY <2>4, <2>5, TailAxisUnfolds, SpineFacts
  <2>8. TailAxis[n] = Wrap(Spine[n])
    BY <2>6, <2>7
  <2>9. TailAxis[n] = Spine[n]
    BY <1>1, <2>4, <2>8, WrapBelow
  <2> QED BY <2>2, <2>9
<1>3. k \in Nat /\ k <= MaxDepth /\ MaxDepth \in Nat
  BY ScopeAssumption
<1>4. ASSUME k # 0 PROVE HeadAxis(k) = 2 * Spine[k - 1]
  <2>1. k - 1 \in Nat /\ k - 1 <= MaxDepth /\ (k - 1) + 1 = k
    BY <1>3, <1>4
  <2>2. Spine[k] = 2 * Spine[k - 1] + 1 /\ Spine[k - 1] \in Nat
    BY <2>1, SpineFacts
  <2>3. TailAxis[k - 1] = Spine[k - 1]
    BY <1>2, <2>1
  <2>4. Spine[k] < AxisLimit /\ AxisLimit \in Nat
    BY <1>1, <1>3, ScopeAssumption
  <2>5. 2 * Spine[k - 1] \in Nat /\ 2 * Spine[k - 1] < AxisLimit
    BY <2>2, <2>4
  <2>6. HeadAxis(k) = Wrap(2 * Spine[k - 1])
    BY <2>3 DEF HeadAxis
  <2> QED BY <2>5, <2>6, WrapBelow
<1> QED BY <1>1, <1>2, <1>3, <1>4
-----------------------------------------------------------------------------
(* What Nock does at an axis.                                              *)

\* No two values have the same axis.
LEMMA AxesDiffer ==
  ASSUME NEW i \in Nat, NEW k \in Nat, Spine[i] = Spine[k]
  PROVE  i = k
<1>1. Spine[i] \in Nat /\ Spine[k] \in Nat
  BY SpineFacts
<1>2. ~(i < k)
  <2>1. i < k => 2 * Spine[i] < Spine[k]
    BY SpineGrows
  <2> QED BY <1>1, <2>1
<1>3. ~(k < i)
  <2>1. k < i => 2 * Spine[k] < Spine[i]
    BY SpineGrows
  <2> QED BY <1>1, <2>1
<1> QED BY <1>2, <1>3

\* The axis of value k is not that of another value.
LEMMA IsAtOne ==
  ASSUME NEW S, NEW s \in Seq(S), NEW k \in 1..Len(s), NEW i \in 1..Len(s)
  PROVE  IsAt(2 * Spine[k - 1], i, s) <=> i = k
<1>1. i - 1 \in Nat /\ k - 1 \in Nat /\ DOMAIN s = 1..Len(s)
  OBVIOUS
<1>2. Spine[i - 1] \in Nat /\ Spine[k - 1] \in Nat
  BY <1>1, SpineFacts
<1>3. 2 * Spine[k - 1] = 2 * Spine[i - 1] => Spine[i - 1] = Spine[k - 1]
  BY <1>2
<1>4. Spine[i - 1] = Spine[k - 1] => i - 1 = k - 1
  BY <1>1, AxesDiffer
<1> QED BY <1>1, <1>3, <1>4 DEF IsAt

\* s with v at k.
With(s, k, v) == [i \in 1..Len(s) |-> IF i = k THEN v ELSE s[i]]

\* Reading and writing it do so.
LEMMA AtAxis ==
  ASSUME NEW S, NEW s \in Seq(S), NEW k \in 1..Len(s), NEW v
  PROVE  /\ Slot(2 * Spine[k - 1], s) = s[k]
         /\ Edited(2 * Spine[k - 1], s, v) = With(s, k, v)
<1> DEFINE axis == 2 * Spine[k - 1]
<1>1. DOMAIN s = 1..Len(s)
  OBVIOUS
<1>2. \A i \in 1..Len(s) : IsAt(axis, i, s) <=> i = k
  BY IsAtOne
<1> HIDE DEF axis
<1>3. Slot(axis, s) = s[k]
  BY <1>1, <1>2 DEF Slot
<1>4. Edited(axis, s, v) = With(s, k, v)
  BY <1>1, <1>2 DEF Edited, With
<1> QED BY <1>3, <1>4 DEF axis

\* The axis behind k values gives the values that follow.
LEMMA BehindAxis ==
  ASSUME NEW S, NEW s \in Seq(S), NEW k \in 0..Len(s)
  PROVE  Rest(Spine[k], s) = SubSeq(s, k + 1, Len(s))
<1>1. k \in Nat
  OBVIOUS
<1>2. \A i \in 0..Len(s) : Spine[k] = Spine[i] => i = k
  BY <1>1, AxesDiffer
<1>3. (CHOOSE i \in 0..Len(s) : Spine[k] = Spine[i]) = k
  BY <1>2
<1> QED BY <1>3 DEF Rest
-----------------------------------------------------------------------------
(* What a search finds.                                                    *)

\* The search for a name that is in scope ends where it was last bound.
LEMMA FirstShowsFound ==
  ASSUME NEW ts \in Seq(Type), NEW name \in Name, InScope(ts, name)
  PROVE  /\ FirstShows(ts, name) \in 1..Len(ts)
         /\ ts[FirstShows(ts, name)].name = name
         /\ \A i \in 1..(FirstShows(ts, name) - 1) : ts[i].name # name
<1> DEFINE first(k) == Shows(ts[k], name) /\ \A i \in 1..(k - 1) : ~Shows(ts[i], name)
<1>1. DOMAIN ts = 1..Len(ts)
  OBVIOUS
<1>2. PICK k \in 1..Len(ts) : ts[k].name = name /\ \A i \in 1..(k - 1) : ~Shows(ts[i], name)
  BY <1>1 DEF InScope
<1>3. first(k)
  BY <1>2 DEF Shows
<1>4. ASSUME NEW j \in 1..Len(ts), first(j)
      PROVE  j = k
  <2>1. ~(j < k)
    BY <1>2, <1>4
  <2>2. ~(k < j)
    BY <1>3, <1>4
  <2> QED BY <2>1, <2>2
<1>5. FirstShows(ts, name) = CHOOSE j \in 1..Len(ts) : first(j)
  BY <1>1 DEF FirstShows
<1>6. FirstShows(ts, name) = k
  <2> HIDE DEF first
  <2> QED BY <1>3, <1>4, <1>5
<1> QED BY <1>2, <1>6 DEF Shows

\* That for $ ends where a loop or a function was last entered.
LEMMA FirstLambdaFound ==
  ASSUME NEW ts \in Seq(Type), BucInScope(ts)
  PROVE  /\ FirstLambda(ts) \in 1..Len(ts)
         /\ ts[FirstLambda(ts)].name = Core
         /\ \A i \in 1..(FirstLambda(ts) - 1) : ts[i].name # Core
<1> DEFINE first(k) == IsLambda(ts[k]) /\ \A i \in 1..(k - 1) : ~IsLambda(ts[i])
<1>1. DOMAIN ts = 1..Len(ts)
  OBVIOUS
<1>2. PICK k \in 1..Len(ts) : ts[k].name = Core /\ \A i \in 1..(k - 1) : ~IsLambda(ts[i])
  BY <1>1 DEF BucInScope
<1>3. first(k)
  BY <1>2 DEF IsLambda
<1>4. ASSUME NEW j \in 1..Len(ts), first(j)
      PROVE  j = k
  <2>1. ~(j < k)
    BY <1>2, <1>4
  <2>2. ~(k < j)
    BY <1>3, <1>4
  <2> QED BY <2>1, <2>2
<1>5. FirstLambda(ts) = CHOOSE j \in 1..Len(ts) : first(j)
  BY <1>1 DEF FirstLambda
<1>6. FirstLambda(ts) = k
  <2> HIDE DEF first
  <2> QED BY <1>3, <1>4, <1>5
<1> QED BY <1>2, <1>6 DEF IsLambda

\* The axis of a name is that of the value the name was last bound to.
LEMMA NameAxis ==
  ASSUME NEW ts \in Seq(Type), NEW name \in Name, InScope(ts, name), Len(ts) <= MaxDepth
  PROVE  AxisAtName(ts, name) = 2 * Spine[FirstShows(ts, name) - 1]
<1>1. FirstShows(ts, name) \in 1..Len(ts)
  BY FirstShowsFound
<1>2. FirstShows(ts, name) \in 0..MaxDepth /\ FirstShows(ts, name) # 0
  BY <1>1, ScopeAssumption
<1> QED BY <1>2, AxesFit DEF AxisAtName
-----------------------------------------------------------------------------
(* Types that describe subjects.                                           *)

\* What a value may be, and what its type may be.
Fits(type, v, made) ==
  /\ type \in Type
  /\ v \in Value \cup {Core} \cup (1..made)
  /\ type.name = Core <=> v = Core
  /\ IsFunction(type) <=> v \in 1..made

LEMMA DescribesEach ==
  ASSUME NEW made \in Nat, NEW ts, NEW s
  PROVE  Describes(ts, s, made) <=>
           /\ ts \in Seq(Type)
           /\ s \in Seq(Value \cup {Core} \cup (1..made))
           /\ Len(s) = Len(ts)
           /\ Len(ts) <= MaxDepth
           /\ \A k \in 1..Len(ts) : Fits(ts[k], s[k], made)
BY DEF Describes, Fits

\* A value more.
LEMMA DescribesCons ==
  ASSUME NEW made \in Nat, NEW ts, NEW s, NEW type, NEW v,
         Describes(ts, s, made), Fits(type, v, made), Len(ts) < MaxDepth
  PROVE  Describes(<<type>> \o ts, <<v>> \o s, made)
<1> DEFINE N == Value \cup {Core} \cup (1..made)
<1>1. /\ ts \in Seq(Type) /\ s \in Seq(N) /\ Len(s) = Len(ts)
      /\ \A k \in 1..Len(ts) : Fits(ts[k], s[k], made)
  BY DescribesEach
<1>2. type \in Type /\ v \in N
  BY DEF Fits
<1> HIDE DEF N
<1>3. /\ <<type>> \o ts \in Seq(Type) /\ Len(<<type>> \o ts) = Len(ts) + 1
      /\ \A k \in 1..(Len(ts) + 1) : (<<type>> \o ts)[k] = IF k = 1 THEN type ELSE ts[k - 1]
  BY <1>1, <1>2
<1>4. /\ <<v>> \o s \in Seq(N) /\ Len(<<v>> \o s) = Len(s) + 1
      /\ \A k \in 1..(Len(s) + 1) : (<<v>> \o s)[k] = IF k = 1 THEN v ELSE s[k - 1]
  BY <1>1, <1>2
<1>5. ASSUME NEW k \in 1..(Len(ts) + 1)
      PROVE  Fits((<<type>> \o ts)[k], (<<v>> \o s)[k], made)
  <2>1. CASE k = 1
    BY <1>1, <1>3, <1>4, <2>1
  <2>2. CASE k # 1
    <3>1. k - 1 \in 1..Len(ts)
      BY <1>1, <2>2
    <3> QED BY <1>1, <1>3, <1>4, <2>2, <3>1
  <2> QED BY <2>1, <2>2
<1>6. Len(ts) + 1 <= MaxDepth
  BY <1>1, ScopeAssumption
<1> QED BY <1>1, <1>3, <1>4, <1>5, <1>6, DescribesEach DEF N

\* Another value of the same kind.
LEMMA DescribesEdit ==
  ASSUME NEW made \in Nat, NEW ts, NEW s, NEW k \in 1..Len(ts), NEW v,
         Describes(ts, s, made), Fits(ts[k], v, made)
  PROVE  Describes(ts, With(s, k, v), made)
<1> DEFINE N == Value \cup {Core} \cup (1..made)
           e == [i \in 1..Len(s) |-> IF i = k THEN v ELSE s[i]]
<1>1. /\ ts \in Seq(Type) /\ s \in Seq(N) /\ Len(s) = Len(ts) /\ Len(ts) <= MaxDepth
      /\ \A i \in 1..Len(ts) : Fits(ts[i], s[i], made)
  BY DescribesEach
<1>2. v \in N
  BY DEF Fits
<1> HIDE DEF N
<1>3. e \in Seq(N) /\ Len(e) = Len(s)
  BY <1>1, <1>2
<1>4. \A i \in 1..Len(ts) : Fits(ts[i], e[i], made)
  BY <1>1
<1> HIDE DEF e
<1>5. Describes(ts, e, made)
  BY <1>1, <1>3, <1>4, DescribesEach DEF N
<1> QED BY <1>5 DEF e, With

\* Some values less.
LEMMA DescribesRest ==
  ASSUME NEW made \in Nat, NEW ts, NEW s, NEW k \in 1..Len(ts), Describes(ts, s, made)
  PROVE  Describes(SubSeq(ts, k, Len(ts)), SubSeq(s, k, Len(s)), made)
<1> DEFINE N == Value \cup {Core} \cup (1..made)
<1>1. /\ ts \in Seq(Type) /\ s \in Seq(N) /\ Len(s) = Len(ts) /\ Len(ts) <= MaxDepth
      /\ \A i \in 1..Len(ts) : Fits(ts[i], s[i], made)
  BY DescribesEach
<1> HIDE DEF N
<1>2. /\ SubSeq(ts, k, Len(ts)) \in Seq(Type) /\ Len(SubSeq(ts, k, Len(ts))) = Len(ts) - k + 1
      /\ \A i \in 1..(Len(ts) - k + 1) : SubSeq(ts, k, Len(ts))[i] = ts[k + i - 1]
  BY <1>1
<1>3. /\ SubSeq(s, k, Len(s)) \in Seq(N) /\ Len(SubSeq(s, k, Len(s))) = Len(s) - k + 1
      /\ \A i \in 1..(Len(s) - k + 1) : SubSeq(s, k, Len(s))[i] = s[k + i - 1]
  BY <1>1
<1>4. ASSUME NEW i \in 1..(Len(ts) - k + 1)
      PROVE  Fits(SubSeq(ts, k, Len(ts))[i], SubSeq(s, k, Len(s))[i], made)
  <2>1. k + i - 1 \in 1..Len(ts)
    BY <1>1
  <2> QED BY <1>1, <1>2, <1>3, <2>1
<1>5. Len(ts) - k + 1 <= MaxDepth
  BY <1>1, ScopeAssumption
<1> QED BY <1>1, <1>2, <1>3, <1>4, <1>5, DescribesEach DEF N

\* More functions.
LEMMA DescribesMore ==
  ASSUME NEW made \in Nat, NEW more \in Nat, NEW ts, NEW s,
         made <= more, Describes(ts, s, made)
  PROVE  Describes(ts, s, more)
<1> DEFINE N == Value \cup {Core} \cup (1..made)
           M == Value \cup {Core} \cup (1..more)
<1>1. /\ ts \in Seq(Type) /\ s \in Seq(N) /\ Len(s) = Len(ts) /\ Len(ts) <= MaxDepth
      /\ \A i \in 1..Len(ts) : Fits(ts[i], s[i], made)
  BY DescribesEach
<1>2. N \subseteq M
  OBVIOUS
<1>3. s \in Seq(M)
  <2> HIDE DEF N, M
  <2> QED BY <1>1, <1>2
<1>4. ASSUME NEW i \in 1..Len(ts)
      PROVE  Fits(ts[i], s[i], more)
  <2>1. Fits(ts[i], s[i], made)
    BY <1>1
  <2>2. s[i] \in Value \cup {Core} => s[i] \notin 1..more /\ s[i] \notin 1..made
    BY ScopeAssumption
  <2> QED BY <2>1, <2>2 DEF Fits
<1> QED BY <1>1, <1>3, <1>4, DescribesEach

LEMMA DescribesNothing ==
  ASSUME NEW made \in Nat
  PROVE  Describes(<<>>, <<>>, made)
BY ScopeAssumption DEF Describes
-----------------------------------------------------------------------------
(* The type invariant.                                                     *)

\* A name gives the value it was last bound to.
LEMMA RunName ==
  ASSUME TypeOK, NEW e \in Name, InScope(types, e)
  PROVE  /\ Run(e) = subject[FirstShows(types, e)]
         /\ FirstShows(types, e) \in 1..Len(types)
         /\ types[FirstShows(types, e)].name = e
         /\ Fits(types[FirstShows(types, e)], Run(e), Len(gates))
<1> DEFINE k == FirstShows(types, e)
           N == Value \cup {Core} \cup (1..Len(gates))
<1>1. Len(gates) \in Nat
  BY DEF TypeOK
<1>2. /\ types \in Seq(Type) /\ subject \in Seq(N)
      /\ Len(subject) = Len(types) /\ Len(types) <= MaxDepth
      /\ \A i \in 1..Len(types) : Fits(types[i], subject[i], Len(gates))
  BY <1>1, DescribesEach DEF TypeOK
<1> HIDE DEF N
<1>3. k \in 1..Len(types) /\ types[k].name = e
  BY <1>2, FirstShowsFound
<1>4. AxisAtName(types, e) = 2 * Spine[k - 1]
  BY <1>2, NameAxis
<1>5. Run(e) = Slot(2 * Spine[k - 1], subject)
  BY <1>4 DEF Run
<1>6. k \in 1..Len(subject)
  BY <1>2, <1>3
<1> HIDE DEF k
<1>7. Run(e) = subject[k]
  BY <1>2, <1>5, <1>6, AtAxis
<1> QED BY <1>2, <1>3, <1>7 DEF k

\* The value of an expression is never code, and is a function where its type says.
LEMMA RunFits ==
  ASSUME TypeOK, NEW e \in Expression, Compiles(e)
  PROVE  /\ Run(e) \in Value \cup (1..Len(gates))
         /\ Run(e) # Core
         /\ ParamOf(e) \in Seq(Name)
         /\ ParamOf(e) # NoParam <=> Run(e) \in 1..Len(gates)
<1>1. CASE e \in Name
  <2>1. InScope(types, e)
    BY <1>1 DEF Compiles
  <2>2. /\ types[FirstShows(types, e)].name = e
        /\ Fits(types[FirstShows(types, e)], Run(e), Len(gates))
    BY <1>1, <2>1, RunName
  <2>3. e # Core
    BY <1>1, ScopeAssumption
  <2> QED BY <1>1, <2>2, <2>3 DEF Fits, ParamOf, IsFunction, Type
<1>2. CASE e \notin Name
  <2>1. e \in Value /\ Run(e) = e /\ ParamOf(e) = NoParam
    BY <1>2 DEF Expression, Run, ParamOf
  <2>2. e # Core /\ e \notin 1..Len(gates)
    BY <2>1, ScopeAssumption
  <2> QED BY <2>1, <2>2 DEF NoParam
<1> QED BY <1>1, <1>2

\* The name of a let gets a type that its value has.
LEMMA TypedFits ==
  ASSUME TypeOK, NEW e \in Expression, Compiles(e), NEW name \in Name
  PROVE  Fits(Typed(name, ParamOf(e)), Run(e), Len(gates))
<1>1. name # Core
  BY ScopeAssumption
<1> QED BY <1>1, RunFits DEF Fits, Typed, Type, IsFunction

LEMMA CoreFits ==
  ASSUME NEW made \in Nat
  PROVE  Fits(CoreType, Core, made)
BY ScopeAssumption DEF Fits, CoreType, Typed, Type, IsFunction, NoParam

\* The innermost statement, and those around it.
LEMMA FirstFrame ==
  ASSUME TypeOK, frames # <<>>
  PROVE  /\ frames[1] \in Frame
         /\ Describes(frames[1].types, frames[1].subject, Len(gates))
         /\ frames[1].statement = "edit" => InScope(frames[1].types, frames[1].name)
         /\ Tail(frames) \in Seq(Frame)
         /\ \A i \in 1..Len(Tail(frames)) :
              /\ Describes(Tail(frames)[i].types, Tail(frames)[i].subject, Len(gates))
              /\ Tail(frames)[i].statement = "edit" =>
                   InScope(Tail(frames)[i].types, Tail(frames)[i].name)
<1>1. /\ frames \in Seq(Frame)
      /\ \A i \in 1..Len(frames) :
           /\ Describes(frames[i].types, frames[i].subject, Len(gates))
           /\ frames[i].statement = "edit" => InScope(frames[i].types, frames[i].name)
  BY DEF TypeOK
<1>2. 1 \in 1..Len(frames) /\ frames[1] \in Frame
  BY <1>1
<1>3. /\ Tail(frames) \in Seq(Frame) /\ Len(Tail(frames)) = Len(frames) - 1
      /\ \A i \in 1..Len(Tail(frames)) : Tail(frames)[i] = frames[i + 1]
  BY <1>1
<1>4. \A i \in 1..Len(Tail(frames)) : i + 1 \in 1..Len(frames)
  BY <1>1, <1>3
<1> QED BY <1>1, <1>2, <1>3, <1>4

\* A step that only moves to another subject and another type.
LEMMA MovesTypeOK ==
  ASSUME TypeOK, UNCHANGED <<frames, gates, answer>>,
         Describes(types', subject', Len(gates)), place' \in {"let", "edit", "body"}
  PROVE  TypeOK'
BY DEF TypeOK

\* A step that ends the innermost statement.
LEMMA EndsTypeOK ==
  ASSUME TypeOK, frames # <<>>, frames' = Tail(frames), UNCHANGED <<gates, answer>>,
         place' = frames[1].place, Describes(types', subject', Len(gates))
  PROVE  TypeOK'
<1>1. place' \in {"let", "edit", "body"}
  BY FirstFrame DEF Frame
<1> QED BY <1>1, FirstFrame DEF TypeOK

LEMMA InitTypeOK == Init => TypeOK
<1>1. SUFFICES ASSUME Init PROVE TypeOK
  OBVIOUS
<1>2. Describes(types, subject, Len(gates))
  BY <1>1, DescribesNothing DEF Init
<1> QED BY <1>1, <1>2 DEF Init, TypeOK, Unknown

LEMMA BeginTypeOK ==
  ASSUME TypeOK, NEW statement \in {"let", "edit"}, NEW name \in Name, Begin(statement, name)
  PROVE  TypeOK'
<1> DEFINE frame == [statement |-> statement, name |-> name, place |-> place,
                     types |-> types, subject |-> subject]
<1>1. /\ types \in Seq(Type) /\ subject \in Seq(Noun)
      /\ Describes(types, subject, Len(gates)) /\ frames \in Seq(Frame)
  <2>1. Value \cup {Core} \cup (1..Len(gates)) \subseteq Noun
    BY DEF Noun, TypeOK
  <2> QED BY <2>1 DEF TypeOK, Describes
<1>2. frame \in Frame
  BY <1>1 DEF Frame, TypeOK
<1>3. frames' = <<frame>> \o frames /\ place' = statement /\ UNCHANGED <<types, subject, gates, answer>>
  BY DEF Begin
<1>4. statement = "edit" => InScope(types, name)
  BY DEF Begin
<1> HIDE DEF frame
<1>5. /\ frames' \in Seq(Frame) /\ Len(frames') = Len(frames) + 1
      /\ \A i \in 1..(Len(frames) + 1) : frames'[i] = IF i = 1 THEN frame ELSE frames[i - 1]
  BY <1>1, <1>2, <1>3
<1>6. ASSUME NEW i \in 1..Len(frames')
      PROVE  /\ Describes(frames'[i].types, frames'[i].subject, Len(gates'))
             /\ frames'[i].statement = "edit" => InScope(frames'[i].types, frames'[i].name)
  <2>1. CASE i = 1
    <3>1. frames'[i] = frame
      BY <1>5, <2>1
    <3> QED BY <1>1, <1>3, <1>4, <3>1 DEF frame
  <2>2. CASE i # 1
    <3>1. i - 1 \in 1..Len(frames) /\ frames'[i] = frames[i - 1]
      BY <1>1, <1>5, <2>2
    <3> QED BY <1>3, <3>1 DEF TypeOK
  <2> QED BY <2>1, <2>2
<1> QED BY <1>1, <1>3, <1>5, <1>6 DEF TypeOK

LEMMA YieldLetTypeOK ==
  ASSUME TypeOK, NEW e \in Expression, YieldLet(e)
  PROVE  TypeOK'
<1>1. /\ frames # <<>> /\ Compiles(e) /\ Len(frames[1].types) < MaxDepth
      /\ types' = <<Typed(frames[1].name, ParamOf(e))>> \o frames[1].types
      /\ subject' = <<Run(e)>> \o frames[1].subject
      /\ place' = frames[1].place /\ frames' = Tail(frames) /\ UNCHANGED <<gates, answer>>
  BY DEF YieldLet
<1>2. frames[1].name \in Name /\ Describes(frames[1].types, frames[1].subject, Len(gates))
  BY <1>1, FirstFrame DEF Frame
<1>3. Len(gates) \in Nat
  BY DEF TypeOK
<1>4. Fits(Typed(frames[1].name, ParamOf(e)), Run(e), Len(gates))
  BY <1>1, <1>2, TypedFits
<1>5. Describes(types', subject', Len(gates))
  BY <1>1, <1>2, <1>3, <1>4, DescribesCons
<1> QED BY <1>1, <1>5, EndsTypeOK

\* Where an assignment lands, and that the value has the kind of the name's.
LEMMA EditFits ==
  ASSUME TypeOK, NEW e \in Expression, YieldEdit(e)
  PROVE  LET ts == frames[1].types
             k  == FirstShows(ts, frames[1].name)
         IN  /\ k \in 1..Len(ts) /\ ts \in Seq(Type) /\ frames[1].name \in Name
             /\ InScope(ts, frames[1].name)
             /\ Describes(ts, frames[1].subject, Len(gates))
             /\ Fits(ts[k], Run(e), Len(gates))
             /\ subject' = With(frames[1].subject, k, Run(e))
<1> DEFINE ts == frames[1].types
           s == frames[1].subject
           name == frames[1].name
           k == FirstShows(ts, name)
           N == Value \cup {Core} \cup (1..Len(gates))
<1>1. /\ frames # <<>> /\ frames[1].statement = "edit" /\ Compiles(e)
      /\ (ParamOf(e) = NoParam) <=> ~IsFunction(ts[k])
      /\ subject' = Edited(AxisAtName(ts, name), s, Run(e))
  BY DEF YieldEdit
<1>2. name \in Name /\ InScope(ts, name) /\ Describes(ts, s, Len(gates))
  BY <1>1, FirstFrame DEF Frame
<1>3. Len(gates) \in Nat
  BY DEF TypeOK
<1> HIDE DEF ts, s, name
<1>4. /\ ts \in Seq(Type) /\ s \in Seq(N) /\ Len(s) = Len(ts) /\ Len(ts) <= MaxDepth
      /\ \A i \in 1..Len(ts) : Fits(ts[i], s[i], Len(gates))
  BY <1>2, <1>3, DescribesEach
<1>5. k \in 1..Len(ts) /\ ts[k].name = name
  BY <1>2, <1>4, FirstShowsFound
<1>6. Fits(ts[k], Run(e), Len(gates))
  <2>1. Run(e) \in Value \cup (1..Len(gates)) /\ Run(e) # Core
    BY <1>1, RunFits
  <2>2. ParamOf(e) # NoParam <=> Run(e) \in 1..Len(gates)
    BY <1>1, RunFits
  <2>3. ts[k] \in Type /\ ts[k].name # Core
    BY <1>2, <1>4, <1>5, ScopeAssumption
  <2> HIDE DEF k
  <2> QED BY <1>1, <2>1, <2>2, <2>3 DEF Fits
<1>7. AxisAtName(ts, name) = 2 * Spine[k - 1]
  BY <1>2, <1>4, NameAxis
<1> HIDE DEF k, N
<1>8. k \in 1..Len(s)
  BY <1>4, <1>5
<1>9. Edited(2 * Spine[k - 1], s, Run(e)) = With(s, k, Run(e))
  BY <1>4, <1>8, AtAxis
<1>10. subject' = With(s, k, Run(e))
  BY <1>1, <1>7, <1>9
<1> QED BY <1>2, <1>4, <1>5, <1>6, <1>10 DEF ts, s, name, k

LEMMA YieldEditTypeOK ==
  ASSUME TypeOK, NEW e \in Expression, YieldEdit(e)
  PROVE  TypeOK'
<1>1. /\ frames # <<>> /\ types' = frames[1].types
      /\ place' = frames[1].place /\ frames' = Tail(frames) /\ UNCHANGED <<gates, answer>>
  BY DEF YieldEdit
<1>2. Len(gates) \in Nat
  BY DEF TypeOK
<1>3. Describes(types', subject', Len(gates))
  BY <1>1, <1>2, EditFits, DescribesEdit
<1> QED BY <1>1, <1>3, EndsTypeOK

LEMMA EnterLoopTypeOK ==
  ASSUME TypeOK, EnterLoop
  PROVE  TypeOK'
<1>1. /\ Len(types) < MaxDepth
      /\ types' = <<CoreType>> \o types /\ subject' = <<Core>> \o subject
      /\ place' = "body" /\ UNCHANGED <<frames, gates, answer>>
  BY DEF EnterLoop
<1>2. Len(gates) \in Nat /\ Describes(types, subject, Len(gates))
  BY DEF TypeOK
<1>3. Describes(types', subject', Len(gates))
  BY <1>1, <1>2, CoreFits, DescribesCons
<1> QED BY <1>1, <1>3, MovesTypeOK

\* A new function has the next number.
LEMMA FuncFits ==
  ASSUME NEW made \in Nat, NEW name \in Name, NEW param \in Name
  PROVE  Fits(Typed(name, <<param>>), made + 1, made + 1)
<1>1. name # Core /\ made + 1 # Core /\ made + 1 \in 1..(made + 1)
  BY ScopeAssumption
<1> QED BY <1>1 DEF Fits, Typed, Type, IsFunction, NoParam

LEMMA FuncTypeOK ==
  ASSUME TypeOK, NEW name \in Name, NEW param \in Name, Func(name, param)
  PROVE  TypeOK'
<1> DEFINE gate == [param |-> param, types |-> types, subject |-> subject]
           made == Len(gates)
<1>1. /\ Len(types) < MaxDepth
      /\ gates' = Append(gates, gate)
      /\ types' = <<Typed(name, <<param>>)>> \o types
      /\ subject' = <<made + 1>> \o subject
      /\ UNCHANGED <<place, frames, answer>>
  BY DEF Func
<1>2. /\ made \in Nat /\ gates \in Seq(Gate) /\ Describes(types, subject, made)
      /\ types \in Seq(Type) /\ subject \in Seq(Noun)
  <2>1. Value \cup {Core} \cup (1..made) \subseteq Noun
    BY DEF Noun, TypeOK
  <2> QED BY <2>1 DEF TypeOK, Describes
<1>3. gate \in Gate
  BY <1>2 DEF Gate
<1> HIDE DEF gate
<1>4. /\ gates' \in Seq(Gate) /\ Len(gates') = made + 1
      /\ \A i \in 1..(made + 1) : gates'[i] = IF i = made + 1 THEN gate ELSE gates[i]
  BY <1>1, <1>2, <1>3
<1> HIDE DEF made
<1>5. Describes(types, subject, made + 1)
  BY <1>2, DescribesMore
<1>6. Fits(Typed(name, <<param>>), made + 1, made + 1)
  BY <1>2, FuncFits
<1>7. Describes(types', subject', made + 1)
  BY <1>1, <1>2, <1>5, <1>6, DescribesCons
<1>8. ASSUME NEW i \in 1..(made + 1)
      PROVE  Describes(gates'[i].types, gates'[i].subject, made + 1)
  <2>1. CASE i = made + 1
    BY <1>4, <1>5, <2>1 DEF gate
  <2>2. CASE i # made + 1
    <3>1. i \in 1..made /\ gates'[i] = gates[i]
      BY <1>2, <1>4, <2>2
    <3>2. Describes(gates[i].types, gates[i].subject, made)
      BY <3>1 DEF TypeOK, made
    <3> QED BY <1>2, <3>1, <3>2, DescribesMore
  <2> QED BY <2>1, <2>2
<1>9. ASSUME NEW i \in 1..Len(frames)
      PROVE  Describes(frames[i].types, frames[i].subject, made + 1)
  <2>1. Describes(frames[i].types, frames[i].subject, made)
    BY DEF TypeOK, made
  <2> QED BY <1>2, <2>1, DescribesMore
<1>10. answer \in Seq(Value \cup (1..(made + 1)))
  <2>1. Value \cup (1..made) \subseteq Value \cup (1..(made + 1))
    BY <1>2
  <2> QED BY <2>1 DEF TypeOK, made
<1> QED BY <1>1, <1>4, <1>7, <1>8, <1>9, <1>10 DEF TypeOK

\* What a call finds: a function that was made, and its scope.
LEMMA CallFits ==
  ASSUME TypeOK, NEW name \in Name, NEW e \in Expression, Call(name, e)
  PROVE  /\ Run(name) \in 1..Len(gates)
         /\ gates[Run(name)] \in Gate
         /\ Describes(gates[Run(name)].types, gates[Run(name)].subject, Len(gates))
         /\ Fits(Typed(gates[Run(name)].param, NoParam), Run(e), Len(gates))
<1>1. /\ InScope(types, name) /\ ParamOf(name) # NoParam
      /\ Compiles(e) /\ ParamOf(e) = NoParam
  BY DEF Call
<1>2. name \in Expression /\ Compiles(name)
  BY <1>1 DEF Expression, Compiles
<1>3. Run(name) \in 1..Len(gates)
  BY <1>1, <1>2, RunFits
<1>4. /\ gates[Run(name)] \in Gate
      /\ Describes(gates[Run(name)].types, gates[Run(name)].subject, Len(gates))
  BY <1>3 DEF TypeOK
<1>5. gates[Run(name)].param \in Name
  BY <1>4 DEF Gate
<1>6. Fits(Typed(gates[Run(name)].param, ParamOf(e)), Run(e), Len(gates))
  BY <1>1, <1>5, TypedFits
<1> QED BY <1>1, <1>3, <1>4, <1>6

LEMMA CallTypeOK ==
  ASSUME TypeOK, NEW name \in Name, NEW e \in Expression, Call(name, e)
  PROVE  TypeOK'
<1> DEFINE gate == gates[Run(name)]
           argType == Typed(gate.param, NoParam)
           withArg == <<argType>> \o gate.types
           argAnd == <<Run(e)>> \o gate.subject
<1>1. /\ Len(gate.types) + 2 <= MaxDepth
      /\ types' = <<CoreType, argType>> \o gate.types
      /\ subject' = <<Core, Run(e)>> \o gate.subject
      /\ place' = "body" /\ UNCHANGED <<frames, gates, answer>>
  BY DEF Call
<1>2. Len(gates) \in Nat
  BY DEF TypeOK
<1>3. Describes(gate.types, gate.subject, Len(gates)) /\ Fits(argType, Run(e), Len(gates))
  BY CallFits
<1>4. /\ gate.types \in Seq(Type) /\ Len(gate.types) \in Nat
      /\ gate.subject \in Seq(Value \cup {Core} \cup (1..Len(gates)))
  BY <1>3 DEF Describes
<1>5. argType \in Type /\ Run(e) \in Value \cup {Core} \cup (1..Len(gates))
  BY <1>3 DEF Fits
<1> HIDE DEF argType, gate
<1>6. Describes(withArg, argAnd, Len(gates))
  BY <1>1, <1>2, <1>3, <1>4, ScopeAssumption, DescribesCons
<1>7. Len(withArg) < MaxDepth
  BY <1>1, <1>4, <1>5, ScopeAssumption
<1>8. Describes(<<CoreType>> \o withArg, <<Core>> \o argAnd, Len(gates))
  <2> HIDE DEF withArg, argAnd
  <2> QED BY <1>2, <1>6, <1>7, CoreFits, DescribesCons
<1>9. types' = <<CoreType>> \o withArg
  <2>1. CoreType \in Type
    BY DEF CoreType, Typed, Type, NoParam
  <2> QED BY <1>1, <1>4, <1>5, <2>1
<1>10. subject' = <<Core>> \o argAnd
  BY <1>1, <1>4, <1>5
<1> QED BY <1>1, <1>8, <1>9, <1>10, MovesTypeOK

\* $ is left with the values from the latest entry on.
LEMMA AgainRest ==
  ASSUME TypeOK, BucInScope(types)
  PROVE  /\ FirstLambda(types) \in 1..Len(types)
         /\ Rest(FindBuc(types), subject) = SubSeq(subject, FirstLambda(types), Len(subject))
<1> DEFINE k == FirstLambda(types)
           N == Value \cup {Core} \cup (1..Len(gates))
<1>1. /\ types \in Seq(Type) /\ subject \in Seq(N)
      /\ Len(subject) = Len(types) /\ Len(types) <= MaxDepth
  BY DEF TypeOK, Describes
<1>2. k \in 1..Len(types)
  BY <1>1, FirstLambdaFound
<1> HIDE DEF k, N
<1>3. k - 1 \in 0..MaxDepth /\ k - 1 \in 0..Len(subject) /\ (k - 1) + 1 = k
  BY <1>1, <1>2, ScopeAssumption
<1>4. TailAxis[k - 1] = Spine[k - 1]
  BY <1>3, AxesFit
<1>5. Rest(Spine[k - 1], subject) = SubSeq(subject, k, Len(subject))
  BY <1>1, <1>3, BehindAxis
<1> QED BY <1>2, <1>4, <1>5 DEF k, FindBuc

LEMMA AgainTypeOK ==
  ASSUME TypeOK, Again
  PROVE  TypeOK'
<1> DEFINE k == FirstLambda(types)
<1>1. /\ BucInScope(types)
      /\ types' = SubSeq(types, k, Len(types))
      /\ subject' = Rest(FindBuc(types), subject)
      /\ place' = "body" /\ UNCHANGED <<frames, gates, answer>>
  BY DEF Again
<1>2. k \in 1..Len(types) /\ subject' = SubSeq(subject, k, Len(subject))
  BY <1>1, AgainRest
<1> HIDE DEF k
<1>3. Len(gates) \in Nat /\ Describes(types, subject, Len(gates))
  BY DEF TypeOK
<1>4. Describes(types', subject', Len(gates))
  BY <1>1, <1>2, <1>3, DescribesRest
<1> QED BY <1>1, <1>4, MovesTypeOK

\* $ with an argument puts it after the code.
LEMMA AgainWithEdits ==
  ASSUME TypeOK, NEW e \in Expression, AgainWith(e)
  PROVE  /\ 2 \in 1..Len(types)
         /\ Fits(types[2], Run(e), Len(gates))
         /\ subject' = With(subject, 2, Run(e))
<1> DEFINE N == Value \cup {Core} \cup (1..Len(gates))
<1>1. /\ Len(types) >= 2 /\ Compiles(e) /\ types[2].name # Core
      /\ ParamOf(e) = NoParam <=> ~IsFunction(types[2])
      /\ subject' = Edited(6, subject, Run(e))
  BY DEF AgainWith
<1>2. /\ types \in Seq(Type) /\ subject \in Seq(N) /\ Len(subject) = Len(types)
  BY DEF TypeOK, Describes
<1>3. 2 \in 1..Len(types) /\ 2 \in 1..Len(subject)
  BY <1>1, <1>2
<1> HIDE DEF N
<1>4. 6 = 2 * Spine[2 - 1]
  <2>1. Spine[0] = 1 /\ Spine[0 + 1] = 2 * Spine[0] + 1
    BY SpineFacts
  <2> QED BY <2>1
<1>5. Edited(2 * Spine[2 - 1], subject, Run(e)) = With(subject, 2, Run(e))
  BY <1>2, <1>3, AtAxis
<1>6. Fits(types[2], Run(e), Len(gates))
  <2>1. types[2] \in Type
    BY <1>2, <1>3
  <2> QED BY <1>1, <2>1, RunFits DEF Fits
<1> QED BY <1>1, <1>3, <1>4, <1>5, <1>6

LEMMA AgainWithTypeOK ==
  ASSUME TypeOK, NEW e \in Expression, AgainWith(e)
  PROVE  TypeOK'
<1>1. place' = "body" /\ UNCHANGED <<types, frames, gates, answer>>
  BY DEF AgainWith
<1>2. Len(gates) \in Nat /\ Describes(types, subject, Len(gates))
  BY DEF TypeOK
<1>3. Describes(types', subject', Len(gates))
  BY <1>1, <1>2, AgainWithEdits, DescribesEdit
<1> QED BY <1>1, <1>3, MovesTypeOK

LEMMA AnswerTypeOK ==
  ASSUME TypeOK, NEW e \in Expression, Answer(e)
  PROVE  TypeOK'
<1>1. Compiles(e) /\ answer' = <<Run(e)>> /\ UNCHANGED <<types, subject, place, frames, gates>>
  BY DEF Answer
<1>2. Run(e) \in Value \cup (1..Len(gates))
  BY <1>1, RunFits
<1> QED BY <1>1, <1>2 DEF TypeOK

LEMMA NextTypeOK ==
  ASSUME TypeOK, [Next]_vars
  PROVE  TypeOK'
<1>1. CASE UNCHANGED vars
  BY <1>1 DEF vars, TypeOK
<1>2. ASSUME NEW statement \in {"let", "edit"}, NEW name \in Name, Begin(statement, name)
      PROVE  TypeOK'
  BY <1>2, BeginTypeOK
<1>3. ASSUME NEW e \in Expression, YieldLet(e) \/ YieldEdit(e) \/ Answer(e) \/ AgainWith(e)
      PROVE  TypeOK'
  BY <1>3, YieldLetTypeOK, YieldEditTypeOK, AnswerTypeOK, AgainWithTypeOK
<1>4. ASSUME NEW name \in Name, NEW e \in Expression, Call(name, e)
      PROVE  TypeOK'
  BY <1>4, CallTypeOK
<1>5. ASSUME NEW name \in Name, NEW param \in Name, Func(name, param)
      PROVE  TypeOK'
  BY <1>5, FuncTypeOK
<1> QED BY <1>1, <1>2, <1>3, <1>4, <1>5, EnterLoopTypeOK, AgainTypeOK DEF Next

\* At every step of a program, at whatever depth of nesting and after whatever
\* calls and jumps back, the type of the subject (jyp in mint) describes the noun
\* that the code runs on.
THEOREM ScopeTypes == Spec => []TypeOK
BY InitTypeOK, NextTypeOK, PTL DEF Spec
-----------------------------------------------------------------------------
(* The names of a type with the values of a subject are a scope.           *)

Bindings == [name : Name \cup {Core}, val : Noun]

LEMMA ZipSeq ==
  ASSUME NEW made \in Nat, NEW ts, NEW s, Describes(ts, s, made)
  PROVE  /\ Zip(ts, s) = [k \in 1..Len(ts) |-> Env!Binding(ts[k].name, s[k])]
         /\ Len(ts) \in Nat
         /\ Len(Zip(ts, s)) = Len(ts)
         /\ DOMAIN Zip(ts, s) = 1..Len(ts)
         /\ Zip(ts, s) \in Seq(Bindings)
<1>1. DOMAIN ts = 1..Len(ts) /\ Len(ts) \in Nat
  BY DEF Describes
<1>2. Zip(ts, s) = [k \in 1..Len(ts) |-> Env!Binding(ts[k].name, s[k])]
  BY <1>1 DEF Zip, Env!Binding
<1>3. ASSUME NEW k \in 1..Len(ts) PROVE Env!Binding(ts[k].name, s[k]) \in Bindings
  <2>1. ts[k] \in Type /\ s[k] \in Noun
    BY DEF Describes, Noun
  <2> QED BY <2>1 DEF Env!Binding, Bindings, Type
<1>4. Zip(ts, s) \in Seq(Bindings)
  <2> HIDE DEF Bindings
  <2> QED BY <1>1, <1>2, <1>3
<1> QED BY <1>1, <1>2, <1>4

\* The binding of a value of a type, a sequence with one more in front, and a scope
\* with v at k.
Bound(type, v) == Env!Binding(type.name, v)
Cons(x, s) == <<x>> \o s
Assigned(z, k, v) == [z EXCEPT ![k].val = v]

\* A binding more.
LEMMA ZipCons ==
  ASSUME NEW made \in Nat, NEW ts, NEW s, NEW type, NEW v,
         Describes(ts, s, made), Fits(type, v, made)
  PROVE  Zip(Cons(type, ts), Cons(v, s)) = Cons(Bound(type, v), Zip(ts, s))
<1> DEFINE N == Value \cup {Core} \cup (1..made)
           b == Env!Binding(type.name, v)
           z == Zip(ts, s)
           n == Len(ts) + 1
<1>1. ts \in Seq(Type) /\ s \in Seq(N) /\ Len(s) = Len(ts) /\ Len(ts) \in Nat
  BY DEF Describes
<1>2. type \in Type /\ v \in N
  BY DEF Fits
<1> HIDE DEF N
<1>3. /\ DOMAIN (<<type>> \o ts) = 1..n
      /\ \A k \in 1..n : (<<type>> \o ts)[k] = IF k = 1 THEN type ELSE ts[k - 1]
  BY <1>1, <1>2
<1>4. \A k \in 1..n : (<<v>> \o s)[k] = IF k = 1 THEN v ELSE s[k - 1]
  BY <1>1, <1>2
<1>5. z = [k \in 1..Len(ts) |-> Env!Binding(ts[k].name, s[k])]
  BY ZipSeq
<1>6. z \in Seq({Env!Binding(ts[k].name, s[k]) : k \in 1..Len(ts)}) /\ Len(z) = Len(ts)
  <2> HIDE DEF z
  <2> QED BY <1>1, <1>5
<1> HIDE DEF z, b
<1>7. <<b>> \o z = [k \in 1..n |-> IF k = 1 THEN b ELSE z[k - 1]]
  BY <1>1, <1>6
<1>8. ASSUME NEW k \in 1..n
      PROVE  [name |-> (<<type>> \o ts)[k].name, val |-> (<<v>> \o s)[k]]
               = IF k = 1 THEN b ELSE z[k - 1]
  <2>1. CASE k = 1
    BY <1>1, <1>3, <1>4, <2>1 DEF b, Env!Binding
  <2>2. CASE k # 1
    <3>1. k - 1 \in 1..Len(ts)
      BY <1>1, <2>2
    <3>2. z[k - 1] = Env!Binding(ts[k - 1].name, s[k - 1])
      BY <1>5, <3>1
    <3> QED BY <1>1, <1>3, <1>4, <2>2, <3>2 DEF Env!Binding
  <2> QED BY <2>1, <2>2
<1>9. Zip(<<type>> \o ts, <<v>> \o s) = [k \in 1..n |-> IF k = 1 THEN b ELSE z[k - 1]]
  <2> HIDE DEF n
  <2> QED BY <1>3, <1>8 DEF Zip
<1> QED BY <1>7, <1>9 DEF b, z, Bound, Cons

\* A binding assigned to.
LEMMA ZipEdit ==
  ASSUME NEW made \in Nat, NEW ts, NEW s, NEW k \in 1..Len(ts), NEW v, Describes(ts, s, made)
  PROVE  Zip(ts, With(s, k, v)) = Assigned(Zip(ts, s), k, v)
<1>0. Zip(ts, s) = [i \in 1..Len(ts) |-> Env!Binding(ts[i].name, s[i])]
  BY ZipSeq
<1>1. /\ Zip(ts, s) = [i \in 1..Len(ts) |-> Env!Binding(ts[i].name, s[i])]
      /\ DOMAIN ts = 1..Len(ts) /\ Len(s) = Len(ts)
  BY <1>0 DEF Describes
<1>2. ASSUME NEW i \in 1..Len(ts)
      PROVE  [name |-> ts[i].name, val |-> With(s, k, v)[i]] = [Zip(ts, s) EXCEPT ![k].val = v][i]
  <2>1. With(s, k, v)[i] = IF i = k THEN v ELSE s[i]
    BY <1>1 DEF With
  <2>2. Zip(ts, s)[i] = [name |-> ts[i].name, val |-> s[i]]
    BY <1>1 DEF Env!Binding
  <2> QED BY <1>1, <2>1, <2>2
<1>3. [Zip(ts, s) EXCEPT ![k].val = v] = [i \in 1..Len(ts) |-> [Zip(ts, s) EXCEPT ![k].val = v][i]]
  BY <1>1
<1>4. Zip(ts, With(s, k, v)) = [i \in 1..Len(ts) |-> [name |-> ts[i].name, val |-> With(s, k, v)[i]]]
  BY <1>1 DEF Zip
<1> QED BY <1>2, <1>3, <1>4 DEF Assigned

\* From a binding on.
LEMMA ZipRest ==
  ASSUME NEW made \in Nat, NEW ts, NEW s, NEW k \in 1..Len(ts), Describes(ts, s, made)
  PROVE  Zip(SubSeq(ts, k, Len(ts)), SubSeq(s, k, Len(s))) = SubSeq(Zip(ts, s), k, Len(Zip(ts, s)))
<1> DEFINE N == Value \cup {Core} \cup (1..made)
           z == Zip(ts, s)
           n == Len(ts) - k + 1
<1>1. ts \in Seq(Type) /\ s \in Seq(N) /\ Len(s) = Len(ts) /\ Len(ts) \in Nat
  BY DEF Describes
<1> HIDE DEF N
<1>2. /\ DOMAIN SubSeq(ts, k, Len(ts)) = 1..n
      /\ \A i \in 1..n : SubSeq(ts, k, Len(ts))[i] = ts[k + i - 1]
  BY <1>1
<1>3. \A i \in 1..n : SubSeq(s, k, Len(s))[i] = s[k + i - 1]
  BY <1>1
<1>4. z = [i \in 1..Len(ts) |-> Env!Binding(ts[i].name, s[i])] /\ Len(z) = Len(ts)
  BY ZipSeq
<1> HIDE DEF z
<1>5. SubSeq(z, k, Len(z)) = [i \in 1..n |-> z[k + i - 1]]
  BY <1>1, <1>4
<1>6. ASSUME NEW i \in 1..n
      PROVE  [name |-> SubSeq(ts, k, Len(ts))[i].name, val |-> SubSeq(s, k, Len(s))[i]] = z[k + i - 1]
  <2>1. k + i - 1 \in 1..Len(ts)
    BY <1>1
  <2> QED BY <1>1, <1>2, <1>3, <1>4, <2>1 DEF Env!Binding
<1>7. Zip(SubSeq(ts, k, Len(ts)), SubSeq(s, k, Len(s))) = [i \in 1..n |-> z[k + i - 1]]
  <2> HIDE DEF n
  <2> QED BY <1>2, <1>6 DEF Zip
<1> QED BY <1>5, <1>7 DEF z

\* The latest binding of a name that is not bound before k.
LEMMA LatestIs ==
  ASSUME NEW made \in Nat, NEW ts, NEW s, NEW name, NEW k \in 1..Len(ts), Describes(ts, s, made),
         ts[k].name = name, \A i \in 1..(k - 1) : ts[i].name # name
  PROVE  /\ Env!InScope(Zip(ts, s), name)
         /\ Env!Latest(Zip(ts, s), name) = k
         /\ Zip(ts, s)[k].val = s[k]
<1> DEFINE z == Zip(ts, s)
           latest(j) == z[j].name = name /\ \A i \in 1..(j - 1) : z[i].name # name
<1>1. DOMAIN z = 1..Len(ts) /\ Len(ts) \in Nat
  BY ZipSeq
<1>2. \A i \in 1..Len(ts) : z[i].name = ts[i].name /\ z[i].val = s[i]
  BY ZipSeq DEF Env!Binding
<1> HIDE DEF z
<1>3. latest(k)
  BY <1>1, <1>2
<1>4. ASSUME NEW j \in 1..Len(ts), latest(j) PROVE j = k
  <2>1. ~(j < k)
    BY <1>3, <1>4
  <2>2. ~(k < j)
    BY <1>3, <1>4
  <2> QED BY <2>1, <2>2
<1>5. Env!Latest(z, name) = CHOOSE j \in 1..Len(ts) : latest(j)
  BY <1>1 DEF Env!Latest
<1>6. Env!Latest(z, name) = k
  <2> HIDE DEF latest
  <2> QED BY <1>3, <1>4, <1>5
<1>7. Env!InScope(z, name)
  BY <1>1, <1>3 DEF Env!InScope
<1> QED BY <1>2, <1>6, <1>7 DEF z
-----------------------------------------------------------------------------
(* Scope implements Environment.                                           *)

\* The names that mint knows are in scope, and have the values of the subject.
LEMMA NamesAreBound ==
  ASSUME TypeOK, NEW e \in Expression, Compiles(e)
  PROVE  Env!Closed(e) /\ Env!ValueOf(e) = Run(e)
<1>1. CASE e \in Name
  <2> DEFINE k == FirstShows(types, e)
  <2>1. InScope(types, e)
    BY <1>1 DEF Compiles
  <2>2. /\ Len(gates) \in Nat /\ types \in Seq(Type)
        /\ Describes(types, subject, Len(gates))
    BY DEF TypeOK, Describes
  <2>3. /\ k \in 1..Len(types) /\ types[k].name = e
        /\ \A i \in 1..(k - 1) : types[i].name # e
    BY <1>1, <2>1, <2>2, FirstShowsFound
  <2>4. Run(e) = subject[k]
    BY <1>1, <2>1, RunName
  <2> HIDE DEF k
  <2>5. /\ Env!InScope(Zip(types, subject), e)
        /\ Env!Latest(Zip(types, subject), e) = k
        /\ Zip(types, subject)[k].val = subject[k]
    BY <2>2, <2>3, LatestIs
  <2> QED BY <1>1, <2>4, <2>5 DEF Env!Closed, Env!ValueOf
<1>2. CASE e \notin Name
  BY <1>2 DEF Env!Closed, Env!ValueOf, Run
<1> QED BY <1>1, <1>2

LEMMA PendingCons ==
  ASSUME NEW fs \in Seq(Frame), NEW f \in Frame
  PROVE  /\ Pending(<<f>> \o fs) =
           <<[statement |-> f.statement, name |-> f.name, bindings |-> Zip(f.types, f.subject)]>>
             \o Pending(fs)
         /\ Len(Pending(fs)) = Len(fs)
<1> DEFINE of(g) == [statement |-> g.statement, name |-> g.name, bindings |-> Zip(g.types, g.subject)]
           P == {of(g) : g \in Frame}
           n == Len(fs) + 1
<1>1. /\ DOMAIN (<<f>> \o fs) = 1..n /\ Len(fs) \in Nat
      /\ \A i \in 1..n : (<<f>> \o fs)[i] = IF i = 1 THEN f ELSE fs[i - 1]
  OBVIOUS
<1>2. Pending(fs) = [i \in 1..Len(fs) |-> of(fs[i])]
  BY DEF Pending
<1>3. \A i \in 1..Len(fs) : of(fs[i]) \in P
  OBVIOUS
<1>4. of(f) \in P
  OBVIOUS
<1> HIDE DEF of, P
<1>5. Pending(fs) \in Seq(P) /\ Len(Pending(fs)) = Len(fs)
  BY <1>1, <1>2, <1>3
<1>6. <<of(f)>> \o Pending(fs) = [i \in 1..n |-> IF i = 1 THEN of(f) ELSE Pending(fs)[i - 1]]
  BY <1>1, <1>4, <1>5
<1>7. ASSUME NEW i \in 1..n
      PROVE  of((<<f>> \o fs)[i]) = IF i = 1 THEN of(f) ELSE Pending(fs)[i - 1]
  <2>1. i # 1 => i - 1 \in 1..Len(fs)
    BY <1>1
  <2> QED BY <1>1, <1>2, <2>1
<1>8. Pending(<<f>> \o fs) = [i \in 1..n |-> of((<<f>> \o fs)[i])]
  BY <1>1 DEF Pending, of
<1>9. Pending(<<f>> \o fs) = <<of(f)>> \o Pending(fs)
  <2> HIDE DEF n
  <2> QED BY <1>6, <1>7, <1>8
<1> QED BY <1>5, <1>9 DEF of

LEMMA PendingTail ==
  ASSUME NEW fs \in Seq(Frame), fs # <<>>
  PROVE  /\ Pending(Tail(fs)) = Tail(Pending(fs))
         /\ Pending(fs) # <<>>
         /\ Pending(fs)[1] = [statement |-> fs[1].statement, name |-> fs[1].name,
                              bindings |-> Zip(fs[1].types, fs[1].subject)]
<1> DEFINE of(g) == [statement |-> g.statement, name |-> g.name, bindings |-> Zip(g.types, g.subject)]
           P == {of(g) : g \in Frame}
           n == Len(fs) - 1
<1>1. /\ Len(fs) \in Nat \ {0} /\ 1 \in 1..Len(fs)
      /\ DOMAIN Tail(fs) = 1..n
      /\ \A i \in 1..n : Tail(fs)[i] = fs[i + 1]
  OBVIOUS
<1>2. Pending(fs) = [i \in 1..Len(fs) |-> of(fs[i])]
  BY DEF Pending
<1>3. \A i \in 1..Len(fs) : of(fs[i]) \in P
  OBVIOUS
<1> HIDE DEF of, P
<1>4. Pending(fs) \in Seq(P) /\ Len(Pending(fs)) = Len(fs)
  BY <1>1, <1>2, <1>3
<1>5. Tail(Pending(fs)) = [i \in 1..n |-> Pending(fs)[i + 1]]
  <2> DEFINE z == Pending(fs)
  <2>1. z \in Seq(P) /\ Len(z) = Len(fs) /\ Len(fs) \in Nat \ {0}
    BY <1>1, <1>4
  <2> HIDE DEF z
  <2>2. /\ Tail(z) \in Seq(P) /\ Len(Tail(z)) = n
        /\ \A i \in 1..n : Tail(z)[i] = z[i + 1]
    BY <2>1
  <2> DEFINE t == Tail(z)
  <2>3. t \in Seq(P) /\ Len(t) = n /\ \A i \in 1..n : t[i] = z[i + 1]
    BY <2>2
  <2> HIDE DEF t, n
  <2>4. t = [i \in 1..n |-> t[i]]
    BY <2>3
  <2>5. t = [i \in 1..n |-> z[i + 1]]
    BY <2>3, <2>4
  <2> QED BY <2>5 DEF z, t
<1>6. ASSUME NEW i \in 1..n
      PROVE  of(Tail(fs)[i]) = Pending(fs)[i + 1]
  <2>1. i + 1 \in 1..Len(fs)
    BY <1>1
  <2> QED BY <1>1, <1>2, <2>1
<1>7. Pending(Tail(fs)) = [i \in 1..n |-> of(Tail(fs)[i])]
  BY <1>1 DEF Pending, of
<1>8. Pending(Tail(fs)) = Tail(Pending(fs))
  <2> HIDE DEF n
  <2> QED BY <1>5, <1>6, <1>7
<1>9. Pending(fs)[1] = of(fs[1]) /\ Pending(fs) # <<>>
  BY <1>1, <1>2, <1>4
<1> QED BY <1>8, <1>9 DEF of

LEMMA ClosuresAppend ==
  ASSUME NEW gs \in Seq(Gate), NEW g \in Gate
  PROVE  /\ Closures(Append(gs, g)) =
              Append(Closures(gs), [param |-> g.param, bindings |-> Zip(g.types, g.subject)])
         /\ Len(Closures(gs)) = Len(gs)
<1> DEFINE of(h) == [param |-> h.param, bindings |-> Zip(h.types, h.subject)]
           P == {of(h) : h \in Gate}
           n == Len(gs) + 1
<1>1. /\ DOMAIN Append(gs, g) = 1..n /\ Len(gs) \in Nat
      /\ \A i \in 1..n : Append(gs, g)[i] = IF i = n THEN g ELSE gs[i]
  OBVIOUS
<1>2. Closures(gs) = [i \in 1..Len(gs) |-> of(gs[i])]
  BY DEF Closures
<1>3. \A i \in 1..Len(gs) : of(gs[i]) \in P
  OBVIOUS
<1>4. of(g) \in P
  OBVIOUS
<1> HIDE DEF of, P
<1>5. Closures(gs) \in Seq(P) /\ Len(Closures(gs)) = Len(gs)
  BY <1>1, <1>2, <1>3
<1>6. Append(Closures(gs), of(g)) = [i \in 1..n |-> IF i = n THEN of(g) ELSE Closures(gs)[i]]
  <2> DEFINE z == Closures(gs)
             c == of(g)
  <2>1. z \in Seq(P) /\ Len(z) = Len(gs) /\ Len(gs) \in Nat /\ c \in P
    BY <1>1, <1>4, <1>5
  <2> HIDE DEF z, c
  <2>2. /\ Append(z, c) \in Seq(P) /\ Len(Append(z, c)) = n
        /\ \A i \in 1..n : Append(z, c)[i] = IF i = n THEN c ELSE z[i]
    BY <2>1
  <2> DEFINE t == Append(z, c)
  <2>3. t \in Seq(P) /\ Len(t) = n /\ \A i \in 1..n : t[i] = IF i = n THEN c ELSE z[i]
    BY <2>2
  <2> HIDE DEF t, n
  <2>4. t = [i \in 1..n |-> t[i]]
    BY <2>3
  <2>5. t = [i \in 1..n |-> IF i = n THEN c ELSE z[i]]
    BY <2>3, <2>4
  <2> QED BY <2>5 DEF z, c, t
<1>7. ASSUME NEW i \in 1..n
      PROVE  of(Append(gs, g)[i]) = IF i = n THEN of(g) ELSE Closures(gs)[i]
  <2>1. i # n => i \in 1..Len(gs)
    BY <1>1
  <2> QED BY <1>1, <1>2, <2>1
<1>8. Closures(Append(gs, g)) = [i \in 1..n |-> of(Append(gs, g)[i])]
  BY <1>1 DEF Closures, of
<1>9. Closures(Append(gs, g)) = Append(Closures(gs), of(g))
  <2> HIDE DEF n
  <2> QED BY <1>6, <1>7, <1>8
<1> QED BY <1>5, <1>9 DEF of

LEMMA NextScopes ==
  /\ Zip(types, subject)' = Zip(types', subject')
  /\ Pending(frames)' = Pending(frames')
  /\ Closures(gates)' = Closures(gates')
BY DEF Zip, Pending, Closures

LEMMA BeginStep ==
  ASSUME TypeOK, NEW statement \in {"let", "edit"}, NEW name \in Name, Begin(statement, name)
  PROVE  Env!Begin(statement, name)
<1> DEFINE frame == [statement |-> statement, name |-> name, place |-> place,
                     types |-> types, subject |-> subject]
<1>1. /\ answer = Unknown /\ Len(frames) < MaxNested
      /\ statement = "edit" => InScope(types, name)
      /\ frames' = <<frame>> \o frames
      /\ UNCHANGED <<types, subject, gates, answer>>
  BY DEF Begin
<1>2. frames \in Seq(Frame) /\ frame \in Frame
  <2>1. Value \cup {Core} \cup (1..Len(gates)) \subseteq Noun
    BY DEF Noun, TypeOK
  <2>2. types \in Seq(Type) /\ subject \in Seq(Noun)
    BY <2>1 DEF TypeOK, Describes
  <2> QED BY <2>2 DEF TypeOK, Frame
<1>3. statement = "edit" => Env!InScope(Zip(types, subject), name)
  <2>1. name \in Expression /\ (InScope(types, name) => Compiles(name))
    BY DEF Expression, Compiles
  <2> QED BY <1>1, <2>1, NamesAreBound DEF Env!Closed
<1>4. Len(Pending(frames)) < MaxNested
  BY <1>1, <1>2, PendingCons
<1>5. Pending(frames') = <<[statement |-> statement, name |-> name, bindings |-> Zip(types, subject)]>>
                           \o Pending(frames)
  <2>1. Pending(<<frame>> \o frames) =
          <<[statement |-> frame.statement, name |-> frame.name,
             bindings |-> Zip(frame.types, frame.subject)]>> \o Pending(frames)
    <3> HIDE DEF frame
    <3> QED BY <1>2, PendingCons
  <2> QED BY <1>1, <2>1
<1>6. UNCHANGED <<Zip(types, subject), Closures(gates), answer>>
  BY <1>1, NextScopes
<1> QED BY <1>1, <1>3, <1>4, <1>5, <1>6, NextScopes DEF Env!Begin, Env!Unknown, Unknown

\* What Environment sees of the innermost statement.
LEMMA FirstPending ==
  ASSUME TypeOK, frames # <<>>
  PROVE  /\ Pending(frames) # <<>>
         /\ Pending(frames)[1].statement = frames[1].statement
         /\ Pending(frames)[1].name = frames[1].name
         /\ Pending(frames)[1].bindings = Zip(frames[1].types, frames[1].subject)
         /\ Pending(Tail(frames)) = Tail(Pending(frames))
<1>1. frames \in Seq(Frame)
  BY DEF TypeOK
<1>2. /\ Pending(Tail(frames)) = Tail(Pending(frames)) /\ Pending(frames) # <<>>
      /\ Pending(frames)[1] = [statement |-> frames[1].statement, name |-> frames[1].name,
                               bindings |-> Zip(frames[1].types, frames[1].subject)]
  BY <1>1, PendingTail
<1> QED BY <1>2

LEMMA YieldLetStep ==
  ASSUME TypeOK, NEW e \in Expression, YieldLet(e)
  PROVE  Env!YieldLet(e)
<1> DEFINE ts == frames[1].types
           s == frames[1].subject
           name == frames[1].name
<1>1. /\ answer = Unknown /\ frames # <<>> /\ frames[1].statement = "let"
      /\ Compiles(e) /\ Len(ts) < MaxDepth
      /\ types' = <<Typed(name, ParamOf(e))>> \o ts
      /\ subject' = <<Run(e)>> \o s
      /\ frames' = Tail(frames) /\ UNCHANGED <<gates, answer>>
  BY DEF YieldLet
<1>2. Len(gates) \in Nat /\ Describes(ts, s, Len(gates)) /\ name \in Name
  BY <1>1, FirstFrame DEF TypeOK, Frame
<1>3. Fits(Typed(name, ParamOf(e)), Run(e), Len(gates))
  BY <1>1, <1>2, TypedFits
<1> HIDE DEF ts, s, name
<1>4. Zip(types', subject') = <<Env!Binding(name, Run(e))>> \o Zip(ts, s)
  <2>1. Zip(Cons(Typed(name, ParamOf(e)), ts), Cons(Run(e), s))
          = Cons(Bound(Typed(name, ParamOf(e)), Run(e)), Zip(ts, s))
    BY <1>2, <1>3, ZipCons
  <2> QED BY <1>1, <2>1 DEF Typed, Bound, Cons
<1>5. Len(Zip(ts, s)) < MaxDepth
  BY <1>1, <1>2, ZipSeq
<1>6. Env!Closed(e) /\ Env!ValueOf(e) = Run(e)
  BY <1>1, NamesAreBound
<1>7. /\ Pending(frames) # <<>> /\ Pending(frames)[1].statement = "let"
      /\ Pending(frames)[1].name = name /\ Pending(frames)[1].bindings = Zip(ts, s)
      /\ Pending(frames') = Tail(Pending(frames))
  BY <1>1, FirstPending DEF ts, s, name
<1>8. UNCHANGED <<Closures(gates), answer>>
  BY <1>1, NextScopes
<1> QED BY <1>1, <1>4, <1>5, <1>6, <1>7, <1>8, NextScopes DEF Env!YieldLet, Env!Unknown, Unknown

LEMMA YieldEditStep ==
  ASSUME TypeOK, NEW e \in Expression, YieldEdit(e)
  PROVE  Env!YieldEdit(e)
<1> DEFINE ts == frames[1].types
           s == frames[1].subject
           name == frames[1].name
           k == FirstShows(ts, name)
<1>1. /\ answer = Unknown /\ frames # <<>> /\ frames[1].statement = "edit" /\ Compiles(e)
      /\ types' = ts /\ frames' = Tail(frames) /\ UNCHANGED <<gates, answer>>
  BY DEF YieldEdit
<1>2. /\ Len(gates) \in Nat /\ Describes(ts, s, Len(gates))
      /\ k \in 1..Len(ts) /\ ts \in Seq(Type) /\ name \in Name /\ InScope(ts, name)
      /\ subject' = With(s, k, Run(e))
  BY EditFits DEF TypeOK
<1>3. /\ Pending(frames) # <<>> /\ Pending(frames)[1].statement = "edit"
      /\ Pending(frames)[1].name = name /\ Pending(frames)[1].bindings = Zip(ts, s)
      /\ Pending(frames') = Tail(Pending(frames))
  BY <1>1, FirstPending
<1> HIDE DEF ts, s, name
<1>4. ts[k].name = name /\ \A i \in 1..(k - 1) : ts[i].name # name
  BY <1>2, FirstShowsFound
<1> HIDE DEF k
<1>5. Env!Latest(Zip(ts, s), name) = k
  BY <1>2, <1>4, LatestIs
<1>6. Zip(types', subject') = [Zip(ts, s) EXCEPT ![k].val = Run(e)]
  <2>1. Zip(ts, With(s, k, Run(e))) = Assigned(Zip(ts, s), k, Run(e))
    BY <1>2, ZipEdit
  <2> QED BY <1>1, <1>2, <2>1 DEF Assigned
<1>7. Env!Closed(e) /\ Env!ValueOf(e) = Run(e)
  BY <1>1, NamesAreBound
<1>8. UNCHANGED <<Closures(gates), answer>>
  BY <1>1, NextScopes
<1> QED BY <1>1, <1>3, <1>5, <1>6, <1>7, <1>8, NextScopes DEF Env!YieldEdit, Env!Unknown, Unknown

LEMMA EnterLoopStep ==
  ASSUME TypeOK, EnterLoop
  PROVE  Env!EnterLoop
<1>1. /\ answer = Unknown /\ Len(types) < MaxDepth
      /\ types' = <<CoreType>> \o types /\ subject' = <<Core>> \o subject
      /\ UNCHANGED <<frames, gates, answer>>
  BY DEF EnterLoop
<1>2. Len(gates) \in Nat /\ Describes(types, subject, Len(gates))
  BY DEF TypeOK
<1>3. CoreType.name = Core /\ Fits(CoreType, Core, Len(gates))
  BY <1>2, CoreFits DEF CoreType, Typed
<1>4. Zip(types', subject') = <<Env!Binding(Core, Core)>> \o Zip(types, subject)
  <2>1. Zip(Cons(CoreType, types), Cons(Core, subject))
          = Cons(Bound(CoreType, Core), Zip(types, subject))
    BY <1>2, <1>3, ZipCons
  <2> QED BY <1>1, <1>3, <2>1 DEF Bound, Cons
<1>5. Len(Zip(types, subject)) < MaxDepth
  BY <1>1, <1>2, ZipSeq
<1>6. UNCHANGED <<Pending(frames), Closures(gates), answer>>
  BY <1>1, NextScopes
<1> QED BY <1>1, <1>4, <1>5, <1>6, NextScopes DEF Env!EnterLoop, Env!Unknown, Unknown

LEMMA FuncStep ==
  ASSUME TypeOK, NEW name \in Name, NEW param \in Name, Func(name, param)
  PROVE  Env!Func(name, param)
<1> DEFINE gate == [param |-> param, types |-> types, subject |-> subject]
           type == Typed(name, <<param>>)
           v == Len(gates) + 1
<1>1. /\ answer = Unknown /\ Len(types) < MaxDepth /\ Len(gates) < MaxFuncs
      /\ gates' = Append(gates, gate)
      /\ types' = <<type>> \o types
      /\ subject' = <<v>> \o subject
      /\ UNCHANGED <<frames, answer>>
  BY DEF Func
<1>2. /\ Len(gates) \in Nat /\ Describes(types, subject, Len(gates))
      /\ types \in Seq(Type) /\ subject \in Seq(Noun) /\ gates \in Seq(Gate)
  <2>1. Value \cup {Core} \cup (1..Len(gates)) \subseteq Noun
    BY DEF Noun, TypeOK
  <2> QED BY <2>1 DEF TypeOK, Describes
<1>3. v \in Nat /\ v \in 1..v /\ Describes(types, subject, v)
  BY <1>2, DescribesMore
<1>4. Fits(type, v, v) /\ type.name = name
  BY <1>2, FuncFits DEF Typed
<1>5. Zip(types', subject') = <<Env!Binding(name, v)>> \o Zip(types, subject)
  <2> HIDE DEF v, type
  <2>1. Zip(Cons(type, types), Cons(v, subject)) = Cons(Bound(type, v), Zip(types, subject))
    BY <1>3, <1>4, ZipCons
  <2> QED BY <1>1, <1>4, <2>1 DEF Bound, Cons
<1>6. /\ Closures(gates') = Append(Closures(gates), [param |-> param, bindings |-> Zip(types, subject)])
      /\ Len(Closures(gates)) = Len(gates)
  <2>1. gate \in Gate
    BY <1>2 DEF Gate
  <2>2. /\ Closures(Append(gates, gate)) =
             Append(Closures(gates), [param |-> gate.param, bindings |-> Zip(gate.types, gate.subject)])
        /\ Len(Closures(gates)) = Len(gates)
    <3> HIDE DEF gate
    <3> QED BY <1>2, <2>1, ClosuresAppend
  <2> QED BY <1>1, <2>2
<1>7. Len(Zip(types, subject)) < MaxDepth
  BY <1>1, <1>2, ZipSeq
<1>8. UNCHANGED <<Pending(frames), answer>>
  BY <1>1, NextScopes
<1> QED BY <1>1, <1>5, <1>6, <1>7, <1>8, NextScopes DEF Env!Func, Env!Unknown, Unknown

Cons2(x, y, s) == <<x, y>> \o s

LEMMA ConsTwo ==
  ASSUME NEW S, NEW x \in S, NEW y \in S, NEW z \in Seq(S)
  PROVE  Cons(x, Cons(y, z)) = Cons2(x, y, z)
<1>1. /\ <<y>> \o z \in Seq(S) /\ Len(<<y>> \o z) = Len(z) + 1
      /\ \A i \in 1..(Len(z) + 1) : (<<y>> \o z)[i] = IF i = 1 THEN y ELSE z[i - 1]
  OBVIOUS
<1>2. /\ <<x, y>> \o z \in Seq(S) /\ Len(<<x, y>> \o z) = Len(z) + 2
      /\ \A i \in 1..(Len(z) + 2) : (<<x, y>> \o z)[i] = IF i = 1 THEN x ELSE IF i = 2 THEN y ELSE z[i - 2]
  OBVIOUS
<1> DEFINE t == <<y>> \o z
           l == <<x>> \o t
           r == <<x, y>> \o z
<1>3. t \in Seq(S) /\ Len(t) = Len(z) + 1
  BY <1>1
<1> HIDE DEF t
<1>4. /\ l \in Seq(S) /\ Len(l) = Len(z) + 2
      /\ \A i \in 1..(Len(z) + 2) : l[i] = IF i = 1 THEN x ELSE t[i - 1]
  BY <1>3
<1>5. r \in Seq(S) /\ Len(r) = Len(z) + 2 /\ Len(z) \in Nat
  BY <1>2
<1>6. ASSUME NEW i \in 1..(Len(z) + 2)
      PROVE  l[i] = r[i]
  <2>1. i # 1 => i - 1 \in 1..(Len(z) + 1) /\ (i - 1) - 1 = i - 2 /\ (i - 1 = 1 <=> i = 2)
    BY <1>5
  <2>2. i # 1 => t[i - 1] = IF i - 1 = 1 THEN y ELSE z[(i - 1) - 1]
    BY <1>1, <2>1 DEF t
  <2>3. l[i] = IF i = 1 THEN x ELSE t[i - 1]
    BY <1>4
  <2>4. r[i] = IF i = 1 THEN x ELSE IF i = 2 THEN y ELSE z[i - 2]
    BY <1>2
  <2> QED BY <2>1, <2>2, <2>3, <2>4
<1> HIDE DEF l, r
<1>7. l = r
  BY <1>4, <1>5, <1>6
<1> QED BY <1>7 DEF l, r, t, Cons, Cons2

LEMMA CallStep ==
  ASSUME TypeOK, NEW name \in Name, NEW e \in Expression, Call(name, e)
  PROVE  Env!Call(name, e)
<1> DEFINE gate == gates[Run(name)]
           argType == Typed(gate.param, NoParam)
           withArg == <<argType>> \o gate.types
           argAnd == <<Run(e)>> \o gate.subject
           scope == Zip(gate.types, gate.subject)
           closure == Closures(gates)[Run(name)]
<1>1. /\ answer = Unknown /\ InScope(types, name) /\ Compiles(e)
      /\ Len(gate.types) + 2 <= MaxDepth
      /\ types' = <<CoreType, argType>> \o gate.types
      /\ subject' = <<Core, Run(e)>> \o gate.subject
      /\ UNCHANGED <<frames, gates, answer>>
  BY DEF Call
<1>2. /\ Len(gates) \in Nat /\ Run(name) \in 1..Len(gates) /\ gates \in Seq(Gate)
      /\ Describes(gate.types, gate.subject, Len(gates)) /\ Fits(argType, Run(e), Len(gates))
  BY CallFits DEF TypeOK
<1>3. closure.param = gate.param /\ closure.bindings = scope /\ DOMAIN Closures(gates) = 1..Len(gates)
  BY <1>2 DEF Closures
<1>4. argType.name = gate.param
  BY DEF Typed
<1> HIDE DEF argType
<1>5. /\ gate.types \in Seq(Type) /\ Len(gate.types) \in Nat
      /\ gate.subject \in Seq(Value \cup {Core} \cup (1..Len(gates)))
      /\ argType \in Type /\ Run(e) \in Value \cup {Core} \cup (1..Len(gates))
  BY <1>2 DEF Describes, Fits
<1>6. Len(scope) + 2 <= MaxDepth
  BY <1>1, <1>2, ZipSeq
<1> HIDE DEF gate, closure
<1>7. Zip(withArg, argAnd) = <<Env!Binding(gate.param, Run(e))>> \o scope
  <2>1. Zip(Cons(argType, gate.types), Cons(Run(e), gate.subject))
          = Cons(Bound(argType, Run(e)), scope)
    BY <1>2, ZipCons
  <2> QED BY <1>4, <2>1 DEF Bound, Cons
<1>8. Describes(withArg, argAnd, Len(gates))
  BY <1>1, <1>2, <1>5, ScopeAssumption, DescribesCons
<1>9. types' = <<CoreType>> \o withArg /\ subject' = <<Core>> \o argAnd
  <2>1. CoreType \in Type
    BY DEF CoreType, Typed, Type, NoParam
  <2> QED BY <1>1, <1>5, <2>1
<1>10. Zip(types', subject') = <<Env!Binding(Core, Core)>> \o Zip(withArg, argAnd)
  <2> HIDE DEF withArg, argAnd
  <2>1. CoreType.name = Core /\ Fits(CoreType, Core, Len(gates))
    BY <1>2, CoreFits DEF CoreType, Typed
  <2>2. Zip(Cons(CoreType, withArg), Cons(Core, argAnd))
          = Cons(Bound(CoreType, Core), Zip(withArg, argAnd))
    BY <1>2, <1>8, <2>1, ZipCons
  <2> QED BY <1>9, <2>1, <2>2 DEF Bound, Cons
<1>11. Zip(types', subject') = <<Env!Binding(Core, Core), Env!Binding(gate.param, Run(e))>> \o scope
  <2> DEFINE b == Env!Binding(Core, Core)
             c == Env!Binding(gate.param, Run(e))
  <2>1. scope \in Seq(Bindings)
    BY <1>2, ZipSeq
  <2>2. b \in Bindings /\ c \in Bindings
    BY <1>3, <1>5, <1>4, CallFits DEF Env!Binding, Bindings, Noun, Type, Gate, gate
  <2> HIDE DEF b, c, scope
  <2>3. Cons(b, Cons(c, scope)) = Cons2(b, c, scope)
    BY <2>1, <2>2, ConsTwo
  <2> QED BY <1>7, <1>10, <2>3 DEF b, c, Cons, Cons2
<1>12. /\ Env!Closed(name) /\ Env!ValueOf(name) = Run(name)
       /\ Env!Closed(e) /\ Env!ValueOf(e) = Run(e)
  <2>1. name \in Expression /\ Compiles(name)
    BY <1>1 DEF Expression, Compiles
  <2> QED BY <1>1, <2>1, NamesAreBound
<1>13. UNCHANGED <<Pending(frames), Closures(gates), answer>>
  BY <1>1, NextScopes
<1> HIDE DEF scope
<1> QED BY <1>1, <1>2, <1>3, <1>6, <1>11, <1>12, <1>13, NextScopes
        DEF closure, Env!Call, Env!Unknown, Unknown

\* What Environment sees of the values from the latest entry on.
LEMMA EnteredIs ==
  ASSUME TypeOK, BucInScope(types)
  PROVE  /\ Env!InScope(Zip(types, subject), Core)
         /\ Env!Entered = Zip(SubSeq(types, FirstLambda(types), Len(types)),
                              SubSeq(subject, FirstLambda(types), Len(subject)))
<1> DEFINE k == FirstLambda(types)
<1>1. Len(gates) \in Nat /\ Describes(types, subject, Len(gates)) /\ types \in Seq(Type)
  BY DEF TypeOK, Describes
<1>2. k \in 1..Len(types) /\ types[k].name = Core /\ \A i \in 1..(k - 1) : types[i].name # Core
  BY <1>1, FirstLambdaFound
<1> HIDE DEF k
<1>3. Env!InScope(Zip(types, subject), Core) /\ Env!Latest(Zip(types, subject), Core) = k
  BY <1>1, <1>2, LatestIs
<1>4. Zip(SubSeq(types, k, Len(types)), SubSeq(subject, k, Len(subject)))
        = SubSeq(Zip(types, subject), k, Len(Zip(types, subject)))
  BY <1>1, <1>2, ZipRest
<1> QED BY <1>3, <1>4 DEF k, Env!Entered

LEMMA AgainStep ==
  ASSUME TypeOK, Again
  PROVE  Env!Again
<1>1. /\ answer = Unknown /\ BucInScope(types)
      /\ types' = SubSeq(types, FirstLambda(types), Len(types))
      /\ subject' = Rest(FindBuc(types), subject)
      /\ UNCHANGED <<frames, gates, answer>>
  BY DEF Again
<1>2. subject' = SubSeq(subject, FirstLambda(types), Len(subject))
  BY <1>1, AgainRest
<1>3. Env!InScope(Zip(types, subject), Core) /\ Zip(types', subject') = Env!Entered
  BY <1>1, <1>2, EnteredIs
<1>4. UNCHANGED <<Pending(frames), Closures(gates), answer>>
  BY <1>1, NextScopes
<1> QED BY <1>1, <1>3, <1>4, NextScopes DEF Env!Again, Env!Unknown, Unknown

LEMMA AgainWithStep ==
  ASSUME TypeOK, NEW e \in Expression, AgainWith(e)
  PROVE  Env!AgainWith(e)
<1> DEFINE z == Zip(types, subject)
<1>1. /\ answer = Unknown /\ types[1].name = Core /\ Compiles(e)
      /\ UNCHANGED <<types, frames, gates, answer>>
  BY DEF AgainWith
<1>2. 2 \in 1..Len(types) /\ subject' = With(subject, 2, Run(e))
  BY AgainWithEdits
<1>3. Len(gates) \in Nat /\ Describes(types, subject, Len(gates)) /\ Len(types) \in Nat
  BY DEF TypeOK, Describes
<1>4. Zip(types', subject') = [z EXCEPT ![2].val = Run(e)]
  <2>1. Zip(types, With(subject, 2, Run(e))) = Assigned(Zip(types, subject), 2, Run(e))
    BY <1>2, <1>3, ZipEdit
  <2> QED BY <1>1, <1>2, <2>1 DEF Assigned
<1>5. Env!InScope(z, Core) /\ Env!Latest(z, Core) = 1
  <2>1. 1 \in 1..Len(types) /\ \A i \in 1..(1 - 1) : types[i].name # Core
    BY <1>2, <1>3
  <2> QED BY <1>1, <1>3, <2>1, LatestIs
<1>6. Env!Entered = z /\ 2 \in DOMAIN z
  <2>1. /\ z = [k \in 1..Len(types) |-> Env!Binding(types[k].name, subject[k])]
        /\ DOMAIN z = 1..Len(types) /\ Len(z) = Len(types)
    BY <1>3, ZipSeq
  <2> HIDE DEF z
  <2>2. z \in Seq({Env!Binding(types[k].name, subject[k]) : k \in 1..Len(types)})
    BY <1>3, <2>1
  <2>3. SubSeq(z, 1, Len(z)) = z
    BY <2>2
  <2> QED BY <1>2, <1>5, <2>1, <2>3 DEF Env!Entered, z
<1>7. Env!Closed(e) /\ Env!ValueOf(e) = Run(e)
  BY <1>1, NamesAreBound
<1>8. UNCHANGED <<Pending(frames), Closures(gates), answer>>
  BY <1>1, NextScopes
<1> QED BY <1>1, <1>4, <1>5, <1>6, <1>7, <1>8, NextScopes DEF Env!AgainWith, Env!Unknown, Unknown

LEMMA AnswerStep ==
  ASSUME TypeOK, NEW e \in Expression, Answer(e)
  PROVE  Env!Answer(e)
<1>1. /\ answer = Unknown /\ frames = <<>> /\ Compiles(e) /\ answer' = <<Run(e)>>
      /\ UNCHANGED <<types, subject, frames, gates>>
  BY DEF Answer
<1>2. Pending(frames) = <<>>
  BY <1>1 DEF Pending
<1>3. Env!Closed(e) /\ Env!ValueOf(e) = Run(e)
  BY <1>1, NamesAreBound
<1>4. UNCHANGED <<Zip(types, subject), Pending(frames), Closures(gates)>>
  BY <1>1, NextScopes
<1> QED BY <1>1, <1>2, <1>3, <1>4 DEF Env!Answer, Env!Unknown, Unknown

LEMMA InitScope == Init => Env!Init
BY DEF Init, Env!Init, Unknown, Env!Unknown, Zip, Pending, Closures

LEMMA NextScope ==
  ASSUME TypeOK, [Next]_vars
  PROVE  [Env!Next]_(Env!vars)
<1> USE DEF Env!Expression, Expression
<1>1. CASE UNCHANGED vars
  <2>1. UNCHANGED <<types, subject, frames, gates, answer>>
    BY <1>1 DEF vars
  <2> QED BY <2>1, NextScopes DEF Env!vars
<1>2. ASSUME NEW statement \in {"let", "edit"}, NEW name \in Name, Begin(statement, name)
      PROVE  Env!Next
  BY <1>2, BeginStep DEF Env!Next
<1>3. ASSUME NEW e \in Expression, YieldLet(e) \/ YieldEdit(e) \/ Answer(e) \/ AgainWith(e)
      PROVE  Env!Next
  BY <1>3, YieldLetStep, YieldEditStep, AnswerStep, AgainWithStep DEF Env!Next
<1>4. ASSUME NEW name \in Name, NEW e \in Expression, Call(name, e)
      PROVE  Env!Next
  BY <1>4, CallStep DEF Env!Next
<1>5. ASSUME NEW name \in Name, NEW param \in Name, Func(name, param)
      PROVE  Env!Next
  BY <1>5, FuncStep DEF Env!Next
<1>6. EnterLoop \/ Again => Env!Next
  BY EnterLoopStep, AgainStep DEF Env!Next
<1> QED BY <1>1, <1>2, <1>3, <1>4, <1>5, <1>6 DEF Next

\* The axes of axis_at_name and find_buc, and the edits of mint, do what the names
\* of a program promise, for every program whose names fit into an axis.
THEOREM ScopeImplementsEnvironment == Spec => ImplementsEnvironment
BY InitScope, NextScope, ScopeTypes, PTL DEF Spec, ImplementsEnvironment, Env!Spec
=============================================================================
