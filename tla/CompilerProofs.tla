--------------------------- MODULE CompilerProofs ---------------------------
(***************************************************************************)
(* For every program without functions, loops and objects: the compiler    *)
(* refuses it exactly if it uses a name that is not bound, and otherwise   *)
(* its code computes what the program means.                               *)
(***************************************************************************)
EXTENDS Straight, SequenceTheorems, Iteration

\* The constants by which definitions call themselves are those definitions.
Tied ==
  /\ \A a \in Nat : \A n : RecSlot(a, n) = Slot(a, n)
  /\ \A a \in Nat : \A v, n : RecHax(a, v, n) = Hax(a, v, n)
  /\ \A fuel \in Nat : \A s, f : RecTar(s, f, fuel) = Tar(s, f, fuel)
  /\ \A a \in Nat : RecPath(a) = Path(a)
  /\ \A path \in Seq({0, 1}) : \A t : RecTypeAtPath(t, path) = TypeAtPath(t, path)
  /\ \A a \in Nat : \A t, name : RecFindName(t, name, a) = FindName(t, name, a)
  /\ \A limbs \in Seq([sort : {"name"}, of : Name]), i \in Nat : \A t, ret, arms :
       RecFollowLimbs(t, limbs, i, ret, arms) = FollowLimbs(t, limbs, i, ret, arms)
  /\ \A limbs \in Seq([sort : {"name"}, of : Name]) : \A t :
       RecFieldsPath(t, limbs) = FieldsPath(t, limbs)
  /\ \A n : /\ RecHasError(n) = HasError(n)
            /\ RecIsNoun(n) = IsNoun(n)
            /\ RecIsData(n) = IsData(n)
  /\ \A j \in Expr : /\ \A t : RecMint(j, t) = Mint(j, t)
                     /\ \A env, fuel : RecMeans(j, env, fuel) = Means(j, env, fuel)
                     /\ \A types : RecClosed(j, types) = Closed(j, types)
                     /\ \A t : RecKeepsTypes(j, t) = KeepsTypes(j, t)
  /\ \A v, t : RecHasType(v, t) = HasType(v, t)
-----------------------------------------------------------------------------
(* Axes.                                                                   *)

\* The powers of two, as they are defined.
LEMMA TwoToUnfolds ==
  ASSUME NEW k \in Nat
  PROVE  TwoTo[k] = IF k = 0 THEN 1 ELSE 2 * TwoTo[k - 1]
<1> DEFINE step == [m \in Nat |-> 2 * m]
           Unfolds(f) == f = [n \in Nat |-> IF n = 0 THEN 1 ELSE 2 * f[n - 1]]
<1>1. step \in [Nat -> Nat] /\ 1 \in Nat
  OBVIOUS
<1>2. PICK f \in [Nat -> Nat] : Iterates(f, 1, step)
  <2> HIDE DEF step
  <2> QED BY <1>1, Iterated
<1>3. ASSUME NEW n \in Nat
      PROVE  f[n] = IF n = 0 THEN 1 ELSE 2 * f[n - 1]
  <2>1. f[n] = IF n = 0 THEN 1 ELSE step[f[n - 1]]
    BY <1>2 DEF Iterates
  <2>2. n # 0 => n - 1 \in Nat
    OBVIOUS
  <2>3. n # 0 => f[n - 1] \in Nat
    BY <2>2
  <2> QED BY <2>1, <2>3
<1>4. Unfolds(f)
  <2>1. f = [n \in Nat |-> f[n]]
    OBVIOUS
  <2> QED BY <1>3, <2>1
<1>5. TwoTo = CHOOSE g : Unfolds(g)
  BY DEF TwoTo
<1>6. Unfolds(TwoTo)
  <2> HIDE DEF Unfolds
  <2> QED BY <1>4, <1>5
<1> QED BY <1>6

\* They are positive numbers, each twice the one before.
LEMMA TwoToFacts ==
  /\ TwoTo[0] = 1
  /\ \A k \in Nat : TwoTo[k] \in Nat \ {0} /\ TwoTo[k + 1] = 2 * TwoTo[k]
<1> DEFINE Outside == {n \in Nat : TwoTo[n] \notin Nat \ {0}}
<1>1. TwoTo[0] = 1
  BY TwoToUnfolds
<1>2. ASSUME NEW k \in Nat PROVE TwoTo[k + 1] = 2 * TwoTo[k]
  <2>1. k + 1 \in Nat /\ k + 1 # 0 /\ (k + 1) - 1 = k
    OBVIOUS
  <2> QED BY <2>1, TwoToUnfolds
<1>3. Outside = {}
  <2>1. SUFFICES ASSUME Outside # {} PROVE FALSE
    OBVIOUS
  <2>2. PICK n \in Outside : \A m \in Outside : n <= m
    <3>1. Outside \in SUBSET Nat
      OBVIOUS
    <3> QED BY <2>1, <3>1, LeastNat
  <2>3. n \in Nat /\ n # 0
    BY <1>1, <2>2
  <2>4. n - 1 \in Nat /\ ~(n <= n - 1) /\ (n - 1) + 1 = n
    BY <2>3
  <2>5. TwoTo[n - 1] \in Nat \ {0}
    BY <2>2, <2>4
  <2>6. TwoTo[n] = 2 * TwoTo[n - 1]
    BY <1>2, <2>4
  <2>7. TwoTo[n] \in Nat \ {0}
    BY <2>5, <2>6
  <2> QED BY <2>2, <2>7
<1> QED BY <1>2, <1>1, <1>3

\* They grow.
LEMMA TwoToGrows ==
  ASSUME NEW i \in Nat, NEW k \in Nat, i <= k
  PROVE  TwoTo[i] <= TwoTo[k]
<1> DEFINE Bad == {n \in Nat : i <= n /\ ~(TwoTo[i] <= TwoTo[n])}
<1>1. SUFFICES ASSUME Bad # {} PROVE FALSE
  OBVIOUS
<1>2. PICK n \in Bad : \A m \in Bad : n <= m
  <2>1. Bad \in SUBSET Nat
    OBVIOUS
  <2> QED BY <1>1, <2>1, LeastNat
<1>3. n \in Nat /\ n # i /\ i < n
  BY <1>2, TwoToFacts
<1>4. n - 1 \in Nat /\ ~(n <= n - 1) /\ i <= n - 1 /\ (n - 1) + 1 = n
  BY <1>3
<1>5. TwoTo[i] <= TwoTo[n - 1]
  BY <1>2, <1>4
<1>6. TwoTo[n] = 2 * TwoTo[n - 1] /\ TwoTo[n - 1] \in Nat /\ TwoTo[i] \in Nat
  BY <1>3, <1>4, TwoToFacts
<1>7. TwoTo[i] <= TwoTo[n]
  BY <1>5, <1>6
<1> QED BY <1>2, <1>7

\* The axis behind k values, and that of the k-th of them.
TailAt(k) == 2 * TwoTo[k] - 1
HeadAt(k) == 2 * TwoTo[k] - 2

LEMMA AxesOnSpine ==
  /\ TailAt(0) = 1
  /\ \A k \in Nat \ {0} :
       /\ k - 1 \in Nat
       /\ TailAt(k) \in Nat /\ HeadAt(k) \in Nat /\ TailAt(k - 1) \in Nat
       /\ TailAt(k) > 1 /\ HeadAt(k) > 1 /\ TailAt(k - 1) > 0
       /\ HeadAt(k) = 2 * TailAt(k - 1) /\ TailAt(k) = 2 * TailAt(k - 1) + 1
       /\ TailAt(k) \div 2 = TailAt(k - 1) /\ TailAt(k) % 2 = 1
       /\ HeadAt(k) \div 2 = TailAt(k - 1) /\ HeadAt(k) % 2 = 0
       /\ HeadAt(k) + 1 = TailAt(k) /\ TailAt(k) - 1 = HeadAt(k)
<1>1. TailAt(0) = 1
  BY TwoToFacts DEF TailAt
<1>2. ASSUME NEW k \in Nat \ {0}
      PROVE  /\ k - 1 \in Nat
             /\ \E m \in Nat \ {0} : TwoTo[k - 1] = m /\ TwoTo[k] = 2 * m
  <2>1. k - 1 \in Nat /\ (k - 1) + 1 = k
    OBVIOUS
  <2> QED BY <2>1, TwoToFacts
<1>3. ASSUME NEW m \in Nat \ {0}
      PROVE  /\ (2 * (2 * m) - 1) \div 2 = 2 * m - 1 /\ (2 * (2 * m) - 1) % 2 = 1
             /\ (2 * (2 * m) - 2) \div 2 = 2 * m - 1 /\ (2 * (2 * m) - 2) % 2 = 0
  OBVIOUS
<1>4. ASSUME NEW k \in Nat \ {0}, NEW m \in Nat \ {0}, TwoTo[k - 1] = m, TwoTo[k] = 2 * m
      PROVE  TailAt(k) = 2 * (2 * m) - 1 /\ HeadAt(k) = 2 * (2 * m) - 2 /\ TailAt(k - 1) = 2 * m - 1
  BY <1>4 DEF TailAt, HeadAt
<1>5. ASSUME NEW k \in Nat \ {0}
      PROVE  /\ k - 1 \in Nat
             /\ TailAt(k) \in Nat /\ HeadAt(k) \in Nat /\ TailAt(k - 1) \in Nat
             /\ TailAt(k) > 1 /\ HeadAt(k) > 1 /\ TailAt(k - 1) > 0
             /\ HeadAt(k) = 2 * TailAt(k - 1) /\ TailAt(k) = 2 * TailAt(k - 1) + 1
             /\ TailAt(k) \div 2 = TailAt(k - 1) /\ TailAt(k) % 2 = 1
             /\ HeadAt(k) \div 2 = TailAt(k - 1) /\ HeadAt(k) % 2 = 0
             /\ HeadAt(k) + 1 = TailAt(k) /\ TailAt(k) - 1 = HeadAt(k)
  <2>1. PICK m \in Nat \ {0} : TwoTo[k - 1] = m /\ TwoTo[k] = 2 * m
    BY <1>2
  <2>2. TailAt(k) = 2 * (2 * m) - 1 /\ HeadAt(k) = 2 * (2 * m) - 2 /\ TailAt(k - 1) = 2 * m - 1
    BY <1>4, <2>1
  <2>3. PICK t, h, u : t = TailAt(k) /\ h = HeadAt(k) /\ u = TailAt(k - 1)
    OBVIOUS
  <2>4. t = 2 * (2 * m) - 1 /\ h = 2 * (2 * m) - 2 /\ u = 2 * m - 1
    BY <2>2, <2>3
  <2>5. /\ t \in Nat /\ h \in Nat /\ u \in Nat
        /\ t > 1 /\ h > 1 /\ u > 0
        /\ h = 2 * u /\ t = 2 * u + 1
        /\ t \div 2 = u /\ t % 2 = 1
        /\ h \div 2 = u /\ h % 2 = 0
        /\ h + 1 = t /\ t - 1 = h
    BY <1>3, <2>4
  <2> QED BY <1>2, <2>3, <2>5
<1> QED BY <1>1, <1>5

\* Axes behind fewer values than they have bits are not cut off.
LEMMA AxesFit ==
  ASSUME NEW k \in Nat, k + 1 <= AxisBits
  PROVE  Wrap(TailAt(k)) = TailAt(k) /\ Wrap(HeadAt(k)) = HeadAt(k)
<1>1. AxisBits \in Nat /\ k + 1 \in Nat
  BY AxisBitsAssumption
<1>2. PICK n \in Nat : n = TwoTo[AxisBits]
  BY <1>1, TwoToFacts
<1>3. PICK m \in Nat \ {0} : TwoTo[k] = m /\ TwoTo[k + 1] = 2 * m
  BY TwoToFacts
<1>4. 2 * m <= n
  BY <1>1, <1>2, <1>3, TwoToGrows
<1>5. (2 * m - 1) % n = 2 * m - 1 /\ (2 * m - 2) % n = 2 * m - 2
  BY <1>4
<1> QED BY <1>2, <1>3, <1>5 DEF Wrap, TailAt, HeadAt
-----------------------------------------------------------------------------
(* The type of the subject at a place in such a program: a cell for every  *)
(* name in scope, the latest first, and the type of the whole subject.     *)

\* Types without a name, and not those of cores.
Plain(t) ==
  /\ "kind" \in DOMAIN t /\ "name" \in DOMAIN t
  /\ t.kind # "core" /\ t.kind # "none" /\ t.name = ""
  /\ t.kind \in {"cell", "fork"} => "p" \in DOMAIN t /\ "q" \in DOMAIN t

\* The type of what has been bound to a name.
Binder(b, name) == \E t : Plain(t) /\ b = Named(t, name)

LEMMA PlainTypes ==
  /\ Plain(AtomJ)
  /\ \A p, q : Plain(CellJ(p, q)) /\ Plain(ForkJ(p, q))
BY DEF Plain, AtomJ, CellJ, ForkJ

LEMMA BinderTypes ==
  ASSUME NEW b, NEW name, Binder(b, name)
  PROVE  b.name = name /\ b.kind # "core" /\ Plain(Named(b, ""))
<1>1. PICK t : Plain(t) /\ b = Named(t, name)
  BY DEF Binder
<1>2. b = [t EXCEPT !.name = name] /\ "kind" \in DOMAIN t /\ "name" \in DOMAIN t
  BY <1>1 DEF Named, Plain
<1>3. DOMAIN b = DOMAIN t /\ b.name = name /\ b.kind = t.kind
  BY <1>2
<1>4. Named(b, "") = [b EXCEPT !.name = ""]
  BY DEF Named
<1>5. DOMAIN Named(b, "") = DOMAIN b /\ Named(b, "").name = "" /\ Named(b, "").kind = b.kind
  BY <1>2, <1>3, <1>4
<1> QED BY <1>1, <1>2, <1>3, <1>5 DEF Plain

\* The types of the bindings, as Closed has them.
Bindings == Seq({Named(NoneJ, x) : x \in Name})

\* ts[k]: what is left of the type t behind k bindings.
Behind(ts, types, t) ==
  /\ ts[0] = t /\ ts[Len(types)] = AtomJ
  /\ \A k \in 1..Len(types) :
       \E b : Binder(b, types[k].name) /\ ts[k - 1] = CellJ(b, ts[k])

\* The type u that the m-th binding has where it is used.
BoundType(types, t, m, u) ==
  \E ts, b : /\ Behind(ts, types, t) /\ ts[m - 1] = CellJ(b, ts[m])
             /\ Binder(b, types[m].name) /\ u = Named(b, "")

Describes(types, t) == \E ts : Behind(ts, types, t)

\* Types within the width of an axis.
Fits(types) == types \in Bindings /\ Len(types) + 1 <= AxisBits

LEMMA BindingTypes ==
  ASSUME NEW types \in Bindings, NEW k \in 1..Len(types)
  PROVE  types[k].name \in Name /\ types[k] = Named(NoneJ, types[k].name)
<1>1. types[k] \in {Named(NoneJ, x) : x \in Name}
  BY DEF Bindings
<1>2. ASSUME NEW x PROVE Named(NoneJ, x).name = x
  BY DEF Named, NoneJ
<1> QED BY <1>1, <1>2

LEMMA DescribesNothing == Describes(<<>>, AtomJ) /\ <<>> \in Bindings
<1> DEFINE ts == [k \in 0..0 |-> AtomJ]
<1>1. Behind(ts, <<>>, AtomJ)
  BY DEF Behind
<1> QED BY <1>1 DEF Describes, Bindings

LEMMA DescribesBound ==
  ASSUME NEW types \in Bindings, NEW t, Describes(types, t),
         NEW x \in Name, NEW b, Binder(b, x)
  PROVE  LET more == <<Named(NoneJ, x)>> \o types
         IN  more \in Bindings /\ Len(more) = Len(types) + 1 /\ Describes(more, CellJ(b, t))
<1> DEFINE more == <<Named(NoneJ, x)>> \o types
           n == Len(types)
<1>1. PICK ts : Behind(ts, types, t)
  BY DEF Describes
<1> DEFINE us == [k \in 0..(n + 1) |-> IF k = 0 THEN CellJ(b, t) ELSE ts[k - 1]]
<1>2. n \in Nat /\ more \in Bindings /\ Len(more) = n + 1
  BY DEF Bindings
<1>3. more[1] = Named(NoneJ, x) /\ \A k \in 2..(n + 1) : more[k] = types[k - 1]
  BY <1>2 DEF Bindings
<1>4. ASSUME NEW k \in 1..(n + 1)
      PROVE  \E c : Binder(c, more[k].name) /\ us[k - 1] = CellJ(c, us[k])
  <2>1. CASE k = 1
    <3>1. us[0] = CellJ(b, t) /\ us[1] = ts[0]
      BY <1>2
    <3>2. more[1].name = x
      BY <1>3 DEF Named, NoneJ
    <3> QED BY <1>1, <2>1, <3>1, <3>2 DEF Behind
  <2>2. CASE k # 1
    <3>1. k - 1 \in 1..n /\ k \in 2..(n + 1) /\ k \in 0..(n + 1) /\ k - 1 \in 0..(n + 1) /\ k # 0 /\ k - 1 # 0
      BY <1>2, <2>2
    <3>2. us[k] = ts[k - 1] /\ us[k - 1] = ts[k - 1 - 1] /\ more[k] = types[k - 1]
      BY <1>3, <3>1
    <3> QED BY <1>1, <3>1, <3>2 DEF Behind
  <2> QED BY <2>1, <2>2
<1>5. us[0] = CellJ(b, t) /\ us[n + 1] = ts[n]
  BY <1>2
<1>6. Behind(us, more, CellJ(b, t))
  BY <1>1, <1>2, <1>4, <1>5 DEF Behind
<1> QED BY <1>2, <1>6 DEF Describes

LEMMA DescribesPlain ==
  ASSUME NEW types \in Bindings, NEW t, Describes(types, t)
  PROVE  Plain(t)
<1>1. PICK ts : Behind(ts, types, t)
  BY DEF Describes
<1>2. Len(types) \in Nat
  BY DEF Bindings
<1>3. CASE Len(types) = 0
  BY <1>1, <1>3, PlainTypes DEF Behind
<1>4. CASE Len(types) # 0
  <2>1. 1 \in 1..Len(types) /\ 1 - 1 = 0
    BY <1>2, <1>4
  <2> QED BY <1>1, <2>1, PlainTypes DEF Behind
<1> QED BY <1>3, <1>4
-----------------------------------------------------------------------------
(* Looking a name up in it.                                                *)

\* The m-th binding is the latest one of the name.
LatestOf(types, name, m) ==
  /\ m \in 1..Len(types) /\ types[m].name = name
  /\ \A i \in 1..(m - 1) : types[i].name # name

IsBound(types, name) == \E m \in 1..Len(types) : types[m].name = name

LEMMA LatestExists ==
  ASSUME NEW types \in Bindings, NEW name, IsBound(types, name)
  PROVE  \E m : LatestOf(types, name, m)
<1> DEFINE places == {m \in 1..Len(types) : types[m].name = name}
<1>1. places # {} /\ places \in SUBSET Nat
  BY DEF IsBound
<1>2. PICK m \in places : \A i \in places : m <= i
  BY <1>1, LeastNat
<1>3. ASSUME NEW i \in 1..(m - 1) PROVE types[i].name # name
  <2>1. Len(types) \in Nat
    BY DEF Bindings
  <2>2. i \in 1..Len(types) /\ ~(m <= i)
    BY <1>2, <2>1
  <2> QED BY <1>2, <2>2
<1> QED BY <1>2, <1>3 DEF LatestOf

LEMMA WrapNat ==
  ASSUME NEW a \in Nat
  PROVE  Wrap(a) \in Nat
<1>1. PICK n \in Nat \ {0} : n = TwoTo[AxisBits]
  BY AxisBitsAssumption, TwoToFacts
<1> QED BY <1>1 DEF Wrap

\* One binding is searched.
LEMMA FindInCell ==
  ASSUME Tied, NEW x \in Name, NEW y \in Name, NEW b, Binder(b, y), NEW t, NEW a \in Nat
  PROVE  FindName(CellJ(b, t), x, a) =
           IF x = y THEN Some(Leg(Wrap(2 * a))) ELSE FindName(t, x, Wrap(2 * a + 1))
<1> DEFINE c == CellJ(b, t)
           left == RecFindName(c.p, x, Wrap(2 * a))
           right == RecFindName(c.q, x, Wrap(2 * a + 1))
<1>1. c.name = "" /\ c.kind = "cell" /\ c.p = b /\ c.q = t
  BY DEF CellJ
<1>2. x # "" /\ y # ""
  BY StraightAssumption
<1>3. FindName(c, x, a) = IF left # Nothing THEN left ELSE right
  <2> HIDE DEF c
  <2> QED BY <1>1, <1>2 DEF FindName, IsLambda, IsArms
<1>4. Wrap(2 * a) \in Nat /\ Wrap(2 * a + 1) \in Nat
  BY WrapNat
<1>5. left = FindName(b, x, Wrap(2 * a)) /\ right = FindName(t, x, Wrap(2 * a + 1))
  BY <1>1, <1>4 DEF Tied
<1>6. b.name = y /\ b.kind # "core"
  BY BinderTypes
<1>7. FindName(b, x, Wrap(2 * a)) = IF x = y THEN Some(Leg(Wrap(2 * a))) ELSE Nothing
  BY <1>2, <1>6 DEF FindName, IsLambda, IsArms
<1>8. Some(Leg(Wrap(2 * a))) # Nothing
  BY DEF Some, Nothing
<1> HIDE DEF c, left, right
<1> QED BY <1>3, <1>5, <1>7, <1>8 DEF c

LEMMA FindInAtom ==
  ASSUME NEW x \in Name, NEW a
  PROVE  FindName(AtomJ, x, a) = Nothing
<1>1. x # "" /\ AtomJ.name = "" /\ AtomJ.kind = "atom"
  BY StraightAssumption DEF AtomJ
<1> QED BY <1>1 DEF FindName, IsLambda, IsArms

\* The search behind k bindings.
LEMMA FindBehind ==
  ASSUME Tied, NEW types, Fits(types), NEW t, NEW ts, Behind(ts, types, t),
         NEW x \in Name, NEW k \in 1..Len(types)
  PROVE  FindName(ts[k - 1], x, TailAt(k - 1)) =
           IF types[k].name = x THEN Some(Leg(HeadAt(k))) ELSE FindName(ts[k], x, TailAt(k))
<1>1. types \in Bindings /\ Len(types) + 1 <= AxisBits /\ Len(types) \in Nat
  BY DEF Fits, Bindings
<1>2. types[k].name \in Name
  BY <1>1, BindingTypes
<1>3. PICK b : Binder(b, types[k].name) /\ ts[k - 1] = CellJ(b, ts[k])
  BY DEF Behind
<1>4. k \in Nat \ {0} /\ k + 1 <= AxisBits
  BY <1>1, AxisBitsAssumption
<1>5. /\ TailAt(k - 1) \in Nat
      /\ 2 * TailAt(k - 1) = HeadAt(k) /\ 2 * TailAt(k - 1) + 1 = TailAt(k)
  BY <1>4, AxesOnSpine
<1>6. Wrap(HeadAt(k)) = HeadAt(k) /\ Wrap(TailAt(k)) = TailAt(k)
  BY <1>4, AxesFit
<1>7. PICK a \in Nat : a = TailAt(k - 1)
  BY <1>5
<1>8. FindName(CellJ(b, ts[k]), x, a) =
        IF x = types[k].name THEN Some(Leg(Wrap(2 * a))) ELSE FindName(ts[k], x, Wrap(2 * a + 1))
  BY <1>2, <1>3, FindInCell
<1> QED BY <1>3, <1>5, <1>6, <1>7, <1>8

LEMMA FindBound ==
  ASSUME Tied, NEW types, Fits(types), NEW t, Describes(types, t),
         NEW x \in Name, NEW m, LatestOf(types, x, m)
  PROVE  AxisAtName(t, x) = Some(Leg(HeadAt(m)))
<1>1. PICK ts : Behind(ts, types, t)
  BY DEF Describes
<1>2. m \in 1..Len(types) /\ m \in Nat /\ types[m].name = x /\ Len(types) \in Nat
  BY DEF LatestOf, Fits, Bindings
<1> DEFINE Found(k) == FindName(ts[k], x, TailAt(k)) = Some(Leg(HeadAt(m)))
           Bad == {k \in 0..(m - 1) : ~Found(m - 1 - k)}
<1>3. SUFFICES Bad = {}
  <2>1. ASSUME Bad = {} PROVE Found(0)
    <3>1. m - 1 \in 0..(m - 1) /\ m - 1 - (m - 1) = 0
      BY <1>2
    <3> QED BY <2>1, <3>1
  <2>2. ts[0] = t /\ TailAt(0) = 1
    BY <1>1, AxesOnSpine DEF Behind
  <2> QED BY <2>1, <2>2 DEF AxisAtName
<1>4. SUFFICES ASSUME Bad # {} PROVE FALSE
  OBVIOUS
<1>5. PICK k \in Bad : \A i \in Bad : k <= i
  <2>1. Bad \in SUBSET Nat
    OBVIOUS
  <2> HIDE DEF Bad
  <2> QED BY <1>4, <2>1, LeastNat
<1>6. k \in 0..(m - 1) /\ ~Found(m - 1 - k)
  BY <1>5
<1>7. CASE k = 0
  <2>1. m - 1 - k = m - 1
    BY <1>2, <1>7
  <2> QED BY <1>1, <1>2, <1>6, <2>1, FindBehind
<1>8. CASE k # 0
  <2>1. /\ k - 1 \in 0..(m - 1) /\ ~(k <= k - 1) /\ m - 1 - (k - 1) = m - k
        /\ m - k \in 1..(m - 1) /\ m - k \in 1..Len(types) /\ m - 1 - k = m - k - 1
    BY <1>2, <1>6, <1>8
  <2>2. Found(m - k)
    BY <1>5, <2>1
  <2>3. types[m - k].name # x
    BY <2>1 DEF LatestOf
  <2>4. Found(m - k - 1)
    BY <1>1, <2>1, <2>2, <2>3, FindBehind
  <2> QED BY <1>6, <2>1, <2>4
<1> QED BY <1>7, <1>8

LEMMA FindUnbound ==
  ASSUME Tied, NEW types, Fits(types), NEW t, Describes(types, t),
         NEW x \in Name, ~IsBound(types, x)
  PROVE  AxisAtName(t, x) = Nothing
<1>1. PICK ts : Behind(ts, types, t)
  BY DEF Describes
<1> DEFINE n == Len(types)
           Found(k) == FindName(ts[k], x, TailAt(k)) = Nothing
           Bad == {k \in 0..n : ~Found(n - k)}
<1>2. n \in Nat
  BY DEF Fits, Bindings
<1>3. SUFFICES Bad = {}
  <2>1. ASSUME Bad = {} PROVE Found(0)
    <3>1. n \in 0..n /\ n - n = 0
      BY <1>2
    <3> QED BY <2>1, <3>1
  <2>2. ts[0] = t /\ TailAt(0) = 1
    BY <1>1, AxesOnSpine DEF Behind
  <2> QED BY <2>1, <2>2 DEF AxisAtName
<1>4. SUFFICES ASSUME Bad # {} PROVE FALSE
  OBVIOUS
<1>5. PICK k \in Bad : \A i \in Bad : k <= i
  <2>1. Bad \in SUBSET Nat
    OBVIOUS
  <2> HIDE DEF Bad
  <2> QED BY <1>4, <2>1, LeastNat
<1>6. k \in 0..n /\ ~Found(n - k)
  BY <1>5
<1>7. CASE k = 0
  <2>1. n - k = n /\ ts[n] = AtomJ
    BY <1>1, <1>2, <1>7 DEF Behind
  <2> QED BY <1>6, <2>1, FindInAtom
<1>8. CASE k # 0
  <2>1. PICK i \in 1..n : /\ i = n - k + 1 /\ i - 1 = n - k
                          /\ k - 1 \in 0..n /\ ~(k <= k - 1) /\ n - (k - 1) = i
    <3> HIDE DEF n
    <3> QED BY <1>2, <1>6, <1>8
  <2>2. Found(i)
    BY <1>5, <2>1
  <2>3. types[i].name # x
    BY <2>1 DEF IsBound
  <2>4. FindName(ts[i - 1], x, TailAt(i - 1)) = FindName(ts[i], x, TailAt(i))
    BY <1>1, <2>1, <2>3, FindBehind
  <2> QED BY <1>6, <2>1, <2>2, <2>4
<1> QED BY <1>7, <1>8
\* The turns to what is behind k values, and to the value after that.
Ones(k) == [i \in 1..k |-> 1]
Turns(k) == Append(Ones(k), 0)

LEMMA TurnsFacts ==
  ASSUME NEW k \in Nat, NEW n \in Nat, n = k + 1
  PROVE  /\ Ones(k) \in Seq({0, 1}) /\ Ones(n) = Append(Ones(k), 1) /\ Ones(0) = <<>>
         /\ Turns(k) \in Seq({0, 1}) /\ Turns(k) # <<>>
         /\ Turns(0)[1] = 0 /\ Tail(Turns(0)) = <<>>
         /\ Turns(n)[1] = 1 /\ Tail(Turns(n)) = Turns(k)
<1>1. \A m \in Nat : Ones(m) \in Seq({0, 1}) /\ Len(Ones(m)) = m /\ \A i \in 1..m : Ones(m)[i] = 1
  BY DEF Ones
<1>2. Ones(n) = Append(Ones(k), 1)
  BY DEF Ones
<1>3. Ones(0) = <<>>
  BY DEF Ones
<1>4. \A m \in Nat : /\ Turns(m) \in Seq({0, 1}) /\ Len(Turns(m)) = m + 1 /\ Turns(m)[m + 1] = 0
                     /\ \A i \in 1..m : Turns(m)[i] = 1
  <2>1. ASSUME NEW m \in Nat, NEW ones \in Seq({0, 1}), Len(ones) = m, \A i \in 1..m : ones[i] = 1
        PROVE  /\ Append(ones, 0) \in Seq({0, 1}) /\ Len(Append(ones, 0)) = m + 1
               /\ Append(ones, 0)[m + 1] = 0 /\ \A i \in 1..m : Append(ones, 0)[i] = 1
    BY <2>1
  <2> QED BY <1>1, <2>1 DEF Turns
<1>5. Turns(k) # <<>>
  BY <1>4
<1>6. Turns(0)[1] = 0 /\ Tail(Turns(0)) = <<>>
  BY <1>4
<1>7. Turns(n)[1] = 1
  BY <1>4
<1>8. Tail(Turns(n)) = Turns(k)
  <2>1. /\ Turns(n) \in Seq({0, 1}) /\ Len(Turns(n)) = n + 1 /\ Turns(n)[n + 1] = 0
        /\ \A i \in 1..n : Turns(n)[i] = 1
    BY <1>4
  <2>2. PICK f, g : f = Turns(n) /\ g = Turns(k)
    OBVIOUS
  <2>3. /\ n \in Nat \ {0} /\ f \in Seq({0, 1}) /\ Len(f) = n + 1 /\ f[n + 1] = 0
        /\ \A i \in 1..n : f[i] = 1
    BY <2>1, <2>2
  <2>4. /\ g \in Seq({0, 1}) /\ Len(g) = n /\ g[n] = 0
        /\ \A i \in 1..(n - 1) : g[i] = 1
    <3>1. n - 1 = k
      OBVIOUS
    <3> QED BY <1>4, <2>2, <3>1
  <2>5. /\ Tail(f) \in Seq({0, 1}) /\ Len(Tail(f)) = n
        /\ \A i \in 1..n : Tail(f)[i] = f[i + 1]
    BY <2>3, HeadTailProperties
  <2>6. ASSUME NEW i \in 1..n PROVE Tail(f)[i] = g[i]
    <3>1. CASE i = n
      BY <2>3, <2>4, <2>5, <3>1
    <3>2. CASE i # n
      <4>1. i \in 1..(n - 1) /\ i + 1 \in 1..n
        BY <2>3, <3>2
      <4> QED BY <2>3, <2>4, <2>5, <4>1
    <3> QED BY <3>1, <3>2
  <2>7. Tail(f) = g
    BY <2>4, <2>5, <2>6
  <2> QED BY <2>2, <2>7
<1> QED BY <1>1, <1>2, <1>3, <1>4, <1>5, <1>6, <1>7, <1>8

LEMMA PathOfTail ==
  ASSUME Tied, NEW k \in Nat
  PROVE  Path(TailAt(k)) = Ones(k)
<1> DEFINE Bad == {n \in Nat : Path(TailAt(n)) # Ones(n)}
<1>1. SUFFICES ASSUME Bad # {} PROVE FALSE
  OBVIOUS
<1>2. PICK n \in Bad : \A m \in Bad : n <= m
  BY <1>1, LeastNat
<1>3. CASE n = 0
  <2>1. TailAt(0) = 1 /\ Ones(0) = <<>>
    BY AxesOnSpine DEF Ones
  <2> QED BY <1>2, <1>3, <2>1 DEF Path
<1>4. CASE n # 0
  <2>1. n - 1 \in Nat /\ ~(n <= n - 1) /\ (n - 1) + 1 = n /\ n \in Nat \ {0}
    BY <1>2, <1>4
  <2>2. Path(TailAt(n - 1)) = Ones(n - 1)
    BY <1>2, <2>1
  <2>3. PICK a \in Nat : /\ a = TailAt(n) /\ a > 1 /\ a \div 2 = TailAt(n - 1) /\ a % 2 = 1
                         /\ TailAt(n - 1) \in Nat
    BY <2>1, AxesOnSpine
  <2>4. Path(a) = Append(RecPath(a \div 2), a % 2)
    BY <2>3 DEF Path
  <2>5. RecPath(a \div 2) = Path(TailAt(n - 1))
    BY <2>3 DEF Tied
  <2>6. Ones(n) = Append(Ones(n - 1), 1)
    <3>1. PICK h \in Nat : h = n - 1 /\ n = h + 1
      BY <2>1
    <3> QED BY <3>1, TurnsFacts
  <2>7. Path(TailAt(n)) = Ones(n)
    BY <2>2, <2>3, <2>4, <2>5, <2>6
  <2> QED BY <1>2, <2>7
<1> QED BY <1>3, <1>4

LEMMA PathOfHead ==
  ASSUME Tied, NEW k \in Nat
  PROVE  Path(HeadAt(k + 1)) = Turns(k)
<1>1. k + 1 \in Nat \ {0} /\ (k + 1) - 1 = k
  OBVIOUS
<1>2. PICK a \in Nat : /\ a = HeadAt(k + 1) /\ a > 1 /\ a \div 2 = TailAt(k) /\ a % 2 = 0
                       /\ TailAt(k) \in Nat
  BY <1>1, AxesOnSpine
<1>3. Path(a) = Append(RecPath(a \div 2), a % 2)
  BY <1>2 DEF Path
<1>4. RecPath(a \div 2) = Path(TailAt(k))
  BY <1>2 DEF Tied
<1> QED BY <1>2, <1>3, <1>4, PathOfTail DEF Turns

\* The type of a binding is found at the axis of its value.
LEMMA TypeAtTurn ==
  ASSUME Tied, NEW b, NEW t, NEW path \in Seq({0, 1}), path # <<>>
  PROVE  TypeAtPath(CellJ(b, t), path) = TypeAtPath(IF path[1] = 0 THEN b ELSE t, Tail(path))
<1> DEFINE c == CellJ(b, t)
<1>1. c.kind = "cell" /\ c.p = b /\ c.q = t
  BY DEF CellJ
<1> HIDE DEF c
<1>2. TypeAtPath(c, path) = RecTypeAtPath(IF path[1] = 0 THEN b ELSE t, Tail(path))
  BY <1>1 DEF TypeAtPath
<1>3. Tail(path) \in Seq({0, 1})
  OBVIOUS
<1> QED BY <1>2, <1>3 DEF Tied, c

LEMMA TypeAtLastTurn ==
  ASSUME Tied, NEW b, NEW t
  PROVE  TypeAtPath(CellJ(b, t), Turns(0)) = Some(Named(b, ""))
<1>1. TypeAtPath(b, <<>>) = Some(Named(b, ""))
  BY DEF TypeAtPath
<1>2. PICK path \in Seq({0, 1}) : path = Turns(0) /\ path # <<>> /\ path[1] = 0 /\ Tail(path) = <<>>
  <2>1. 0 \in Nat /\ 1 \in Nat /\ 1 = 0 + 1
    OBVIOUS
  <2> QED BY <2>1, TurnsFacts
<1>3. TypeAtPath(CellJ(b, t), path) = TypeAtPath(b, <<>>)
  BY <1>2, TypeAtTurn
<1> QED BY <1>1, <1>2, <1>3

LEMMA TypeAtTurns ==
  ASSUME Tied, NEW b, NEW t, NEW k \in Nat, NEW n \in Nat, n = k + 1
  PROVE  TypeAtPath(CellJ(b, t), Turns(n)) = TypeAtPath(t, Turns(k))
<1>1. PICK more \in Seq({0, 1}) :
        more = Turns(n) /\ more # <<>> /\ more[1] = 1 /\ Tail(more) = Turns(k)
  <2>1. Turns(n) \in Seq({0, 1}) /\ Turns(n) # <<>>
    <3>1. n + 1 \in Nat
      OBVIOUS
    <3> QED BY <3>1, TurnsFacts
  <2>2. Turns(n)[1] = 1 /\ Tail(Turns(n)) = Turns(k)
    BY TurnsFacts
  <2> QED BY <2>1, <2>2
<1>2. (IF more[1] = 0 THEN b ELSE t) = t
  BY <1>1
<1>3. TypeAtPath(CellJ(b, t), more) = TypeAtPath(IF more[1] = 0 THEN b ELSE t, Tail(more))
  BY <1>1, TypeAtTurn
<1> QED BY <1>1, <1>2, <1>3

LEMMA TypeAtHead ==
  ASSUME Tied, NEW types \in Bindings, NEW t, Describes(types, t), NEW m \in 1..Len(types)
  PROVE  \E u : Plain(u) /\ BoundType(types, t, m, u) /\ TypeAtAxis(t, HeadAt(m)) = Some(u)
<1>1. PICK ts : Behind(ts, types, t)
  BY DEF Describes
<1>2. m \in Nat \ {0} /\ m - 1 \in Nat /\ (m - 1) + 1 = m /\ Len(types) \in Nat
  BY DEF Bindings
<1>3. PICK b : Binder(b, types[m].name) /\ ts[m - 1] = CellJ(b, ts[m])
  BY <1>1 DEF Behind
<1>0. ASSUME NEW h \in Nat, NEW k \in Nat, k = h + 1, NEW c, NEW v
      PROVE  TypeAtPath(CellJ(c, v), Turns(k)) = TypeAtPath(v, Turns(h))
  BY <1>0, TypeAtTurns
<1> DEFINE Found(i, k) == TypeAtPath(ts[i], Turns(k)) = Some(Named(b, ""))
           Bad == {k \in Nat : \E i \in 0..Len(types) : i + k = m - 1 /\ ~Found(i, k)}
<1> HIDE DEF Found
<1>4. Bad = {}
  <2>1. SUFFICES ASSUME Bad # {} PROVE FALSE
    OBVIOUS
  <2>2. PICK k \in Bad : \A n \in Bad : k <= n
    <3>1. Bad \in SUBSET Nat
      OBVIOUS
    <3> HIDE DEF Bad
    <3> QED BY <2>1, <3>1, LeastNat
  <2>3. PICK i \in 0..Len(types) : i + k = m - 1 /\ ~Found(i, k)
    BY <2>2
  <2>4. CASE k = 0
    <3>1. i = m - 1
      BY <1>2, <2>3, <2>4
    <3>2. TypeAtPath(CellJ(b, ts[m]), Turns(0)) = Some(Named(b, ""))
      BY TypeAtLastTurn
    <3> QED BY <1>3, <2>3, <2>4, <3>1, <3>2 DEF Found
  <2>5. CASE k # 0
    <3>1. PICK h \in Nat, u \in 1..Len(types) :
            /\ h + 1 = k /\ ~(k <= h) /\ u - 1 = i /\ u + h = m - 1 /\ u \in 0..Len(types)
      <4>1. k \in Nat /\ i \in Nat /\ i < m
        BY <1>2, <2>2, <2>3
      <4>2. k - 1 \in Nat /\ (k - 1) + 1 = k /\ ~(k <= k - 1)
        BY <2>5, <4>1
      <4>3. i + 1 \in 1..Len(types) /\ (i + 1) - 1 = i /\ (i + 1) + (k - 1) = m - 1
        BY <1>2, <2>3, <4>1
      <4> QED BY <4>2, <4>3
    <3>2. Found(u, h)
      BY <2>2, <3>1
    <3>3. PICK c : ts[u - 1] = CellJ(c, ts[u])
      BY <1>1, <3>1 DEF Behind
    <3>4. TypeAtPath(CellJ(c, ts[u]), Turns(k)) = TypeAtPath(ts[u], Turns(h))
      BY <1>0, <2>2, <3>1
    <3>5. Found(i, k)
      BY <3>1, <3>2, <3>3, <3>4 DEF Found
    <3> QED BY <2>3, <3>5
  <2> QED BY <2>4, <2>5
<1>5. TypeAtPath(t, Turns(m - 1)) = Some(Named(b, ""))
  <2>1. m - 1 \in Nat /\ 0 \in 0..Len(types) /\ 0 + (m - 1) = m - 1
    BY <1>2
  <2>2. Found(0, m - 1)
    BY <1>4, <2>1
  <2> QED BY <1>1, <2>2 DEF Behind, Found
<1>6. Path(HeadAt(m)) = Turns(m - 1)
  BY <1>2, PathOfHead
<1>7. HeadAt(m) \in Nat /\ HeadAt(m) > 1
  BY <1>2, AxesOnSpine
<1>8. TypeAtAxis(t, HeadAt(m)) = TypeAtPath(t, Path(HeadAt(m)))
  <2>1. HeadAt(m) # 0 /\ HeadAt(m) # 1
    BY <1>7
  <2> QED BY <2>1 DEF TypeAtAxis
<1>9. Plain(Named(b, ""))
  BY <1>3, BinderTypes
<1>10. BoundType(types, t, m, Named(b, ""))
  BY <1>1, <1>3 DEF BoundType
<1> QED BY <1>5, <1>6, <1>8, <1>9, <1>10

\* A name is a wing: the axis of its latest binding.
LEMMA LimbBound ==
  ASSUME Tied, NEW types, Fits(types), NEW t, Describes(types, t),
         NEW x \in Name, NEW m, LatestOf(types, x, m)
  PROVE  \E u : /\ Plain(u) /\ BoundType(types, t, m, u)
                /\ GetLimb(t, <<NameL(x)>>) = Some([typ |-> u, wings |-> <<Leg(HeadAt(m))>>])
<1> DEFINE h == HeadAt(m)
           limbs == <<NameL(x)>>
<1>1. types \in Bindings /\ m \in 1..Len(types)
  BY DEF Fits, LatestOf
<1>2. PICK u : Plain(u) /\ BoundType(types, t, m, u) /\ TypeAtAxis(t, h) = Some(u)
  BY <1>1, TypeAtHead
<1>3. AxisAtName(t, x) = Some(Leg(h))
  BY FindBound
<1>4. limbs \in Seq([sort : {"name"}, of : Name]) /\ Len(limbs) = 1 /\ limbs # <<>>
  BY DEF NameL
<1>5. limbs[1].sort = "name" /\ limbs[1].of = x
  BY DEF NameL
<1>6. Leg(h).core = h /\ IsLeg(Leg(h)) /\ WingAxis(Leg(h)) = h
  BY DEF Leg, IsLeg, WingAxis
<1>7. Some(Leg(h))[1] = Leg(h) /\ Some(Leg(h)) # Nothing /\ Some(u)[1] = u /\ Some(u) # Nothing
  BY DEF Some, Nothing
<1> HIDE DEF h, limbs
<1>8. FollowLimbs(t, limbs, 1, 1, <<>>) = RecFollowLimbs(u, limbs, 2, h, <<>>)
  BY <1>2, <1>3, <1>4, <1>5, <1>6, <1>7 DEF FollowLimbs
<1>9. RecFollowLimbs(u, limbs, 2, h, <<>>) = FollowLimbs(u, limbs, 2, h, <<>>)
  BY <1>4 DEF Tied
<1>10. FollowLimbs(u, limbs, 2, h, <<>>) = Some([typ |-> u, wings |-> <<Leg(h)>>])
  BY <1>4 DEF FollowLimbs
<1>11. GetLimb(t, limbs) = FollowLimbs(t, limbs, 1, 1, <<>>)
  BY <1>4 DEF GetLimb
<1> QED BY <1>2, <1>8, <1>9, <1>10, <1>11 DEF h, limbs

LEMMA LimbUnbound ==
  ASSUME Tied, NEW types, Fits(types), NEW t, Describes(types, t),
         NEW x \in Name, ~IsBound(types, x)
  PROVE  GetLimb(t, <<NameL(x)>>) = Nothing
<1> DEFINE limbs == <<NameL(x)>>
<1>1. AxisAtName(t, x) = Nothing
  BY FindUnbound
<1>2. Len(limbs) = 1 /\ limbs # <<>> /\ limbs[1].sort = "name" /\ limbs[1].of = x
  BY DEF NameL
<1> HIDE DEF limbs
<1>3. FollowLimbs(t, limbs, 1, 1, <<>>) = Nothing
  BY <1>1, <1>2 DEF FollowLimbs
<1> QED BY <1>2, <1>3 DEF GetLimb, limbs
-----------------------------------------------------------------------------
(* Formulas: a formula without an error in it is a noun.                   *)

Code(n) == ~HasError(n) => IsNoun(n)

LEMMA CodeOfAtom ==
  ASSUME NEW n \in Nat
  PROVE  ~HasError(Atom(n)) /\ IsNoun(Atom(n)) /\ Code(Atom(n))
<1> DEFINE c == Atom(n)
<1>1. c.kind = "atom" /\ c.n = n /\ c # Error
  BY DEF Atom, Error
<1> HIDE DEF c
<1>2. ~HasError(c)
  BY <1>1 DEF HasError, IsCell
<1>3. IsNoun(c)
  BY <1>1 DEF IsNoun
<1> QED BY <1>2, <1>3 DEF c, Code

LEMMA CodeOfCell ==
  ASSUME Tied, NEW p, NEW q
  PROVE  /\ HasError(Cell(p, q)) <=> HasError(p) \/ HasError(q)
         /\ IsNoun(Cell(p, q)) <=> IsNoun(p) /\ IsNoun(q)
         /\ Code(p) /\ Code(q) => Code(Cell(p, q))
<1> DEFINE c == Cell(p, q)
<1>1. c.kind = "cell" /\ c.p = p /\ c.q = q /\ c # Error
  BY DEF Cell, Error
<1> HIDE DEF c
<1>2. HasError(c) <=> HasError(p) \/ HasError(q)
  <2>1. HasError(c) <=> RecHasError(p) \/ RecHasError(q)
    BY <1>1 DEF HasError, IsCell
  <2>2. RecHasError(p) = HasError(p) /\ RecHasError(q) = HasError(q)
    BY DEF Tied
  <2> QED BY <2>1, <2>2
<1>3. IsNoun(c) <=> IsNoun(p) /\ IsNoun(q)
  <2>1. IsNoun(c) <=> RecIsNoun(p) /\ RecIsNoun(q)
    BY <1>1 DEF IsNoun
  <2>2. RecIsNoun(p) = IsNoun(p) /\ RecIsNoun(q) = IsNoun(q)
    BY DEF Tied
  <2> QED BY <2>1, <2>2
<1> QED BY <1>2, <1>3 DEF c, Code

LEMMA CodeOfError == HasError(Error) /\ Code(Error)
BY DEF HasError, Code, Error, IsCell

\* A formula has an error if one of its parts has.
LEMMA CodeOfFormulas ==
  ASSUME Tied
  PROVE  /\ \A a \in Nat : ~HasError(Axis(a)) /\ Code(Axis(a))
         /\ \A p : /\ HasError(Constant(p)) <=> HasError(p)
                   /\ HasError(Increment(p)) <=> HasError(p)
                   /\ HasError(CellTest(p)) <=> HasError(p)
                   /\ Code(p) => Code(Constant(p)) /\ Code(Increment(p)) /\ Code(CellTest(p))
         /\ \A p, q : /\ HasError(Autocons(p, q)) <=> HasError(p) \/ HasError(q)
                      /\ HasError(Equals(p, q)) <=> HasError(p) \/ HasError(q)
                      /\ HasError(Then(p, q)) <=> HasError(p) \/ HasError(q)
                      /\ HasError(Push(p, q)) <=> HasError(p) \/ HasError(q)
                      /\ Code(p) /\ Code(q) => /\ Code(Autocons(p, q)) /\ Code(Equals(p, q))
                                               /\ Code(Then(p, q)) /\ Code(Push(p, q))
         /\ \A c, p, q : /\ HasError(IfThenElse(c, p, q)) <=> HasError(c) \/ HasError(p) \/ HasError(q)
                         /\ Code(c) /\ Code(p) /\ Code(q) => Code(IfThenElse(c, p, q))
         /\ \A a \in Nat : \A p, q : /\ HasError(Edit(a, p, q)) <=> HasError(p) \/ HasError(q)
                                     /\ HasError(Hint(a, p, q)) <=> HasError(p) \/ HasError(q)
                                     /\ Code(p) /\ Code(q) => Code(Edit(a, p, q)) /\ Code(Hint(a, p, q))
<1>1. \A n \in Nat : ~HasError(Atom(n)) /\ Code(Atom(n))
  BY CodeOfAtom
<1>2. \A p, q : /\ HasError(Cell(p, q)) <=> HasError(p) \/ HasError(q)
                /\ Code(p) /\ Code(q) => Code(Cell(p, q))
  BY CodeOfCell
<1>3. \A a \in Nat : ~HasError(Axis(a)) /\ Code(Axis(a))
  BY <1>1, <1>2 DEF Axis
<1>4. \A p : /\ HasError(Constant(p)) <=> HasError(p)
             /\ Code(p) => Code(Constant(p))
  BY <1>1, <1>2 DEF Constant
<1>5. \A p : /\ HasError(Increment(p)) <=> HasError(p)
             /\ Code(p) => Code(Increment(p))
  BY <1>1, <1>2 DEF Increment
<1>6. \A p : /\ HasError(CellTest(p)) <=> HasError(p)
             /\ Code(p) => Code(CellTest(p))
  BY <1>1, <1>2 DEF CellTest
<1>7. \A p, q : /\ HasError(Autocons(p, q)) <=> HasError(p) \/ HasError(q)
                /\ Code(p) /\ Code(q) => Code(Autocons(p, q))
  BY <1>2 DEF Autocons
<1>8. \A p, q : /\ HasError(Equals(p, q)) <=> HasError(p) \/ HasError(q)
                /\ Code(p) /\ Code(q) => Code(Equals(p, q))
  BY <1>1, <1>2 DEF Equals
<1>9. \A p, q : /\ HasError(Then(p, q)) <=> HasError(p) \/ HasError(q)
                /\ Code(p) /\ Code(q) => Code(Then(p, q))
  BY <1>1, <1>2 DEF Then
<1>10. \A p, q : /\ HasError(Push(p, q)) <=> HasError(p) \/ HasError(q)
                 /\ Code(p) /\ Code(q) => Code(Push(p, q))
  BY <1>1, <1>2 DEF Push
<1>11. \A c, p, q : /\ HasError(IfThenElse(c, p, q)) <=> HasError(c) \/ HasError(p) \/ HasError(q)
                    /\ Code(c) /\ Code(p) /\ Code(q) => Code(IfThenElse(c, p, q))
  BY <1>1, <1>2 DEF IfThenElse
<1>12. \A a \in Nat : \A p, q : /\ HasError(Edit(a, p, q)) <=> HasError(p) \/ HasError(q)
                                /\ Code(p) /\ Code(q) => Code(Edit(a, p, q))
  BY <1>1, <1>2 DEF Edit
<1>13. \A a \in Nat : \A p, q : /\ HasError(Hint(a, p, q)) <=> HasError(p) \/ HasError(q)
                                /\ Code(p) /\ Code(q) => Code(Hint(a, p, q))
  BY <1>1, <1>2 DEF Hint
<1> QED BY <1>3, <1>4, <1>5, <1>6, <1>7, <1>8, <1>9, <1>10, <1>11, <1>12, <1>13
-----------------------------------------------------------------------------
(* What mint makes of each form, and when the form is closed.              *)

\* The latest binding of a name, as Closed and Means look for it.
LEMMA FieldPathOfBinding ==
  ASSUME NEW x \in Name, NEW y \in Name
  PROVE  FieldPath(Named(NoneJ, y), x) = IF x = y THEN Some(<<>>) ELSE Nothing
<1> DEFINE t == Named(NoneJ, y)
<1>1. t.name = y /\ t.kind = "none" /\ y # ""
  BY StraightAssumption DEF Named, NoneJ
<1> HIDE DEF t
<1>2. FieldPath(t, x) = IF x = y THEN Some(<<>>) ELSE Nothing
  BY <1>1 DEF FieldPath
<1> QED BY <1>2 DEF t

LEMMA FieldPathOfBindings ==
  ASSUME NEW types \in Bindings, NEW x \in Name, NEW k \in 1..Len(types)
  PROVE  /\ FieldPath(types[k], x) = IF types[k].name = x THEN Some(<<>>) ELSE Nothing
         /\ FieldPath(types[k], x) # Nothing <=> types[k].name = x
<1>1. types[k].name \in Name /\ types[k] = Named(NoneJ, types[k].name)
  BY BindingTypes
<1>2. FieldPath(types[k], x) = IF types[k].name = x THEN Some(<<>>) ELSE Nothing
  BY <1>1, FieldPathOfBinding
<1>3. Some(<<>>) # Nothing
  BY DEF Some, Nothing
<1> QED BY <1>2, <1>3

\* A single name is the whole value.
LEMMA FieldsPathOfName ==
  ASSUME Tied, NEW x \in Name, NEW t, FieldPath(t, x) = Some(<<>>)
  PROVE  FieldsPath(t, <<NameL(x)>>) = Some(<<>>)
<1> DEFINE limbs == <<NameL(x)>>
           u == Named(Part(t, FieldPath(t, limbs[1].of)[1]), "")
<1>1. limbs # <<>> /\ limbs[1].of = x /\ Tail(limbs) = <<>>
  BY DEF NameL
<1>2. RecFieldsPath(u, <<>>) = Some(<<>>)
  <2>1. <<>> \in Seq([sort : {"name"}, of : Name])
    OBVIOUS
  <2>2. RecFieldsPath(u, <<>>) = FieldsPath(u, <<>>)
    BY <2>1 DEF Tied
  <2>3. FieldsPath(u, <<>>) = Some(<<>>)
    BY DEF FieldsPath
  <2> QED BY <2>2, <2>3
<1>3. Some(<<>>) # Nothing /\ Some(<<>>)[1] = <<>> /\ <<>> \o <<>> = <<>>
  BY DEF Some, Nothing
<1> HIDE DEF limbs
<1>4. FieldsPath(t, limbs) = Some(<<>> \o <<>>)
  BY <1>1, <1>2, <1>3 DEF FieldsPath, u
<1> QED BY <1>3, <1>4 DEF limbs

LEMMA MintOfForms ==
  ASSUME NEW j, NEW t
  PROVE  /\ j.j = "atom" => Mint(j, t) = Minted(Constant(Atom(j.n)), AtomJ)
         /\ j.j = "limb" => Mint(j, t) = MintLimb(j.limbs, t)
         /\ j.j = "let" => Mint(j, t) = MintLet(j, t)
         /\ j.j = "edit" => Mint(j, t) = MintEdit(j, t)
         /\ j.j = "crash" => Mint(j, t) = Minted(Axis(0), t)
         /\ j.j = "cell" =>
              Mint(j, t) = Minted(Autocons(RecMint(j.p, t).nock, RecMint(j.q, t).nock),
                                  CellJ(RecMint(j.p, t).typ, RecMint(j.q, t).typ))
         /\ j.j = "increment" => Mint(j, t) = Minted(Increment(RecMint(j.val, t).nock), AtomJ)
         /\ j.j = "cell_check" => Mint(j, t) = Minted(CellTest(RecMint(j.val, t).nock), AtomJ)
         /\ j.j = "eq" =>
              Mint(j, t) = Minted(Equals(RecMint(j.a, t).nock, RecMint(j.b, t).nock), AtomJ)
         /\ j.j = "ne" =>
              Mint(j, t) = Minted(IfThenElse(Equals(RecMint(j.a, t).nock, RecMint(j.b, t).nock),
                                             Constant(False), Constant(True)), AtomJ)
         /\ j.j = "if" =>
              Mint(j, t) = Minted(IfThenElse(RecMint(j.cond, t).nock, RecMint(j.then, t).nock,
                                             RecMint(j.after, t).nock),
                                  ForkJ(RecMint(j.then, t).typ, RecMint(j.after, t).typ))
         /\ j.j = "assert" =>
              Mint(j, t) = Minted(IfThenElse(RecMint(j.cond, t).nock, RecMint(j.then, t).nock, Axis(0)),
                                  RecMint(j.then, t).typ)
         /\ j.j = "print" =>
              Mint(j, t) = Minted(Hint(Slog, Autocons(Constant(Atom(0)),
                                                      Constant(RecMint(j.body, t).nock)),
                                       RecMint(j.next, t).nock),
                                  RecMint(j.next, t).typ)
<1>1. CASE j.j = "atom"
  BY <1>1 DEF Mint, HoonFunctions
<1>2. CASE j.j = "limb"
  BY <1>2 DEF Mint, HoonFunctions
<1>3. CASE j.j = "let"
  BY <1>3 DEF Mint, HoonFunctions
<1>4. CASE j.j = "edit"
  BY <1>4 DEF Mint, HoonFunctions
<1>5. CASE j.j = "crash"
  BY <1>5 DEF Mint, HoonFunctions
<1>6. CASE j.j = "cell"
  BY <1>6 DEF Mint, HoonFunctions
<1>7. CASE j.j = "increment"
  BY <1>7 DEF Mint, HoonFunctions
<1>8. CASE j.j = "cell_check"
  BY <1>8 DEF Mint, HoonFunctions
<1>9. CASE j.j = "eq"
  BY <1>9 DEF Mint, HoonFunctions
<1>10. CASE j.j = "ne"
  BY <1>10 DEF Mint, HoonFunctions
<1>11. CASE j.j = "if"
  BY <1>11 DEF Mint, HoonFunctions
<1>12. CASE j.j = "assert"
  BY <1>12 DEF Mint, HoonFunctions
<1>13. CASE j.j = "print"
  BY <1>13 DEF Mint, HoonFunctions
<1> QED BY <1>1, <1>2, <1>3, <1>4, <1>5, <1>6, <1>7, <1>8, <1>9, <1>10, <1>11, <1>12, <1>13

LEMMA ClosedForms ==
  ASSUME NEW j, NEW types
  PROVE  /\ j.j \in {"atom", "crash"} => Closed(j, types)
         /\ j.j = "cell" => (Closed(j, types) <=> RecClosed(j.p, types) /\ RecClosed(j.q, types))
         /\ j.j = "let" =>
              (Closed(j, types) <=> RecClosed(j.val, types) /\ RecClosed(j.next, <<j.typ>> \o types))
         /\ j.j = "edit" =>
              (Closed(j, types) <=> /\ RecClosed([j |-> "limb", limbs |-> j.limb], types)
                                    /\ RecClosed(j.val, types) /\ RecClosed(j.next, types))
         /\ j.j \in {"increment", "cell_check"} => (Closed(j, types) <=> RecClosed(j.val, types))
         /\ j.j \in {"eq", "ne"} => (Closed(j, types) <=> RecClosed(j.a, types) /\ RecClosed(j.b, types))
         /\ j.j = "if" => (Closed(j, types) <=> /\ RecClosed(j.cond, types)
                                                /\ RecClosed(j.then, types) /\ RecClosed(j.after, types))
         /\ j.j = "assert" => (Closed(j, types) <=> RecClosed(j.cond, types) /\ RecClosed(j.then, types))
         /\ j.j = "print" => (Closed(j, types) <=> RecClosed(j.body, types) /\ RecClosed(j.next, types))
<1>1. CASE j.j \in {"atom", "crash"}
  BY <1>1 DEF Closed
<1>2. CASE j.j = "cell"
  BY <1>2 DEF Closed
<1>3. CASE j.j = "let"
  BY <1>3 DEF Closed
<1>4. CASE j.j = "edit"
  BY <1>4 DEF Closed
<1>5. CASE j.j \in {"increment", "cell_check"}
  BY <1>5 DEF Closed
<1>6. CASE j.j \in {"eq", "ne"}
  BY <1>6 DEF Closed
<1>7. CASE j.j = "if"
  BY <1>7 DEF Closed
<1>8. CASE j.j = "assert"
  BY <1>8 DEF Closed
<1>9. CASE j.j = "print"
  BY <1>9 DEF Closed
<1> QED BY <1>1, <1>2, <1>3, <1>4, <1>5, <1>6, <1>7, <1>8, <1>9

\* A name is closed if it is bound.
LEMMA ClosedName ==
  ASSUME Tied, NEW types \in Bindings, NEW x \in Name,
         NEW j, j.j = "limb", j.limbs = <<NameL(x)>>
  PROVE  Closed(j, types) <=> IsBound(types, x)
<1> DEFINE limbs == <<NameL(x)>>
           bound(k) == FieldPath(types[k], x) # Nothing
           latest == CHOOSE k \in DOMAIN types : bound(k) /\ \A i \in 1..(k - 1) : FieldPath(types[i], x) = Nothing
<1>1. limbs[1].sort = "name" /\ limbs[1].of = x
  BY DEF NameL
<1>2. DOMAIN types = 1..Len(types) /\ Len(types) \in Nat
  BY DEF Bindings
<1>3. \A k \in 1..Len(types) : bound(k) <=> types[k].name = x
  BY FieldPathOfBindings
<1>4. Closed(j, types) <=> (\E k \in DOMAIN types : bound(k)) /\ FieldsPath(types[latest], limbs) # Nothing
  <2>1. j.limbs[1].sort = "name" /\ j.limbs[1].of = x /\ j.limbs = limbs
    BY <1>1
  <2> HIDE DEF limbs
  <2> QED BY <2>1 DEF Closed
<1>5. (\E k \in DOMAIN types : bound(k)) <=> IsBound(types, x)
  BY <1>2, <1>3 DEF IsBound
<1>6. ASSUME IsBound(types, x) PROVE FieldsPath(types[latest], limbs) # Nothing
  <2>1. PICK m : LatestOf(types, x, m)
    BY <1>6, LatestExists
  <2>2. m \in DOMAIN types /\ bound(m) /\ \A i \in 1..(m - 1) : FieldPath(types[i], x) = Nothing
    <3>1. \A i \in 1..(m - 1) : i \in 1..Len(types)
      BY <1>2, <2>1 DEF LatestOf
    <3> QED BY <1>2, <1>3, <2>1, <3>1 DEF LatestOf
  <2>3. latest \in DOMAIN types /\ bound(latest)
    BY <2>2
  <2>4. FieldPath(types[latest], x) = Some(<<>>)
    <3> HIDE DEF latest
    <3> QED BY <1>2, <2>3, FieldPathOfBindings
  <2>5. FieldsPath(types[latest], limbs) = Some(<<>>)
    BY <2>4, FieldsPathOfName
  <2>6. Some(<<>>) # Nothing
    BY DEF Some, Nothing
  <2> QED BY <2>5, <2>6
<1> QED BY <1>4, <1>5, <1>6
-----------------------------------------------------------------------------
(* What is compiled is a formula, or is refused.                           *)

\* The bindings of a place, and those that the expression adds, within the width
\* of an axis.
Room(types, j) == types \in Bindings /\ Len(types) + Nest[j] + 1 <= AxisBits

\* What mint made of j is a formula and a type without a name, or it has an error
\* and j is not closed.
Compiled(m, closed) ==
  /\ HasError(m.nock) <=> ~closed
  /\ Code(m.nock)
  /\ closed => Plain(m.typ)

Compiles(j) ==
  \A types, t : Room(types, j) /\ Describes(types, t) => Compiled(Mint(j, t), Closed(j, types))

LEMMA RoomNumbers ==
  ASSUME NEW j \in Expr, NEW types, Room(types, j)
  PROVE  /\ Len(types) \in Nat /\ AxisBits \in Nat
         /\ \A e \in Expr : Nest[e] \in Nat
<1>1. Len(types) \in Nat
  BY DEF Room, Bindings
<1>2. AxisBits \in Nat
  BY AxisBitsAssumption
<1>3. Nest \in [Expr -> Nat]
  BY StraightAssumption
<1> QED BY <1>1, <1>2, <1>3

LEMMA RoomFits ==
  ASSUME NEW j \in Expr, NEW types, Room(types, j)
  PROVE  Fits(types)
<1>1. Nest[j] \in Nat /\ Len(types) \in Nat /\ AxisBits \in Nat
  BY RoomNumbers
<1> QED BY <1>1 DEF Fits, Room

LEMMA RoomWithin ==
  ASSUME NEW j \in Expr, NEW types, Room(types, j), NEW e, Within(e, j)
  PROVE  Room(types, e)
<1>1. Nest[j] \in Nat /\ Nest[e] \in Nat /\ Len(types) \in Nat /\ AxisBits \in Nat
  BY RoomNumbers DEF Within
<1> QED BY <1>1 DEF Room, Within

LEMMA RoomBound ==
  ASSUME NEW j \in Expr, NEW types, Room(types, j), NEW e, Within(e, j), Nest[e] < Nest[j],
         NEW x \in Name, NEW t, Describes(types, t), NEW b, Binder(b, x)
  PROVE  LET more == <<Named(NoneJ, x)>> \o types
         IN  Room(more, e) /\ Describes(more, CellJ(b, t))
<1> DEFINE more == <<Named(NoneJ, x)>> \o types
<1>1. Nest[j] \in Nat /\ Nest[e] \in Nat /\ Len(types) \in Nat /\ AxisBits \in Nat
  BY RoomNumbers DEF Within
<1>2. more \in Bindings /\ Len(more) = Len(types) + 1 /\ Describes(more, CellJ(b, t))
  BY DescribesBound DEF Room
<1> HIDE DEF more
<1>3. Room(more, e)
  BY <1>1, <1>2 DEF Room
<1> QED BY <1>2, <1>3 DEF more

\* A part is compiled as it is on its own.
LEMMA CompiledPart ==
  ASSUME Tied, NEW j \in Expr, NEW types, NEW t, Room(types, j), Describes(types, t),
         NEW e, Within(e, j), Compiles(e)
  PROVE  Compiled(RecMint(e, t), RecClosed(e, types))
<1>1. e \in Expr
  BY DEF Within
<1>2. RecMint(e, t) = Mint(e, t) /\ RecClosed(e, types) = Closed(e, types)
  BY <1>1 DEF Tied
<1>3. Room(types, e)
  BY RoomWithin
<1>4. Compiled(Mint(e, t), Closed(e, types))
  BY <1>3 DEF Compiles
<1> QED BY <1>2, <1>4

LEMMA MintedParts ==
  ASSUME NEW n, NEW t
  PROVE  Minted(n, t).nock = n /\ Minted(n, t).typ = t
BY DEF Minted

LEMMA CompiledName ==
  ASSUME Tied, NEW types, Fits(types), NEW t, Describes(types, t), NEW x \in Name
  PROVE  /\ Compiled(MintLimb(<<NameL(x)>>, t), IsBound(types, x))
         /\ \A m : LatestOf(types, x, m) =>
              /\ MintLimb(<<NameL(x)>>, t).nock = Axis(HeadAt(m))
              /\ BoundType(types, t, m, MintLimb(<<NameL(x)>>, t).typ)
<1> DEFINE limbs == <<NameL(x)>>
           c == MintLimb(limbs, t)
<1>1. types \in Bindings /\ Len(types) \in Nat
  BY DEF Fits, Bindings
<1>2. ASSUME NEW m, LatestOf(types, x, m)
      PROVE  /\ c.nock = Axis(HeadAt(m)) /\ Plain(c.typ) /\ HeadAt(m) \in Nat
             /\ BoundType(types, t, m, c.typ)
  <2>1. PICK u : /\ Plain(u) /\ BoundType(types, t, m, u)
                 /\ GetLimb(t, limbs) = Some([typ |-> u, wings |-> <<Leg(HeadAt(m))>>])
    BY <1>2, LimbBound
  <2> DEFINE wings == <<Leg(HeadAt(m))>>
             found == [typ |-> u, wings |-> wings]
  <2>2. ResolveWing(wings) = Axis(HeadAt(m))
    BY DEF ResolveWing, Leg, IsLeg
  <2>3. found.typ = u /\ found.wings = wings
    OBVIOUS
  <2>4. Some(found) # Nothing /\ Some(found)[1] = found
    BY DEF Some, Nothing
  <2> HIDE DEF found, wings
  <2>5. c = Minted(ResolveWing(wings), u)
    <3>1. GetLimb(t, limbs) = Some(found)
      BY <2>1 DEF found, wings
    <3> HIDE DEF limbs
    <3> QED BY <2>3, <2>4, <3>1 DEF MintLimb
  <2>6. HeadAt(m) \in Nat
    <3>1. m \in Nat \ {0}
      BY <1>1, <1>2 DEF LatestOf
    <3> QED BY <3>1, AxesOnSpine
  <2> QED BY <2>1, <2>2, <2>5, <2>6, MintedParts
<1>3. CASE IsBound(types, x)
  <2>1. PICK m : LatestOf(types, x, m)
    BY <1>1, <1>3, LatestExists
  <2>2. ~HasError(Axis(HeadAt(m))) /\ Code(Axis(HeadAt(m)))
    BY <1>2, <2>1, CodeOfFormulas
  <2> QED BY <1>2, <1>3, <2>1, <2>2 DEF Compiled
<1>4. CASE ~IsBound(types, x)
  <2>1. GetLimb(t, limbs) = Nothing
    BY <1>4, LimbUnbound
  <2>2. c = Failed
    BY <2>1 DEF MintLimb
  <2>3. c.nock = Error
    BY <2>2, MintedParts DEF Failed
  <2> HIDE DEF c
  <2>4. Compiled(c, IsBound(types, x))
    BY <1>4, <2>3, CodeOfError DEF Compiled
  <2> QED BY <1>2, <2>4 DEF c
<1> QED BY <1>3, <1>4

LEMMA CompilesName ==
  ASSUME Tied, NEW j \in Expr, j.j = "limb", IsName(j.limbs)
  PROVE  Compiles(j)
<1> SUFFICES ASSUME NEW types, NEW t, Room(types, j), Describes(types, t)
             PROVE  Compiled(Mint(j, t), Closed(j, types))
  BY DEF Compiles
<1>1. PICK x \in Name : j.limbs = <<NameL(x)>>
  BY DEF IsName
<1>2. Mint(j, t) = MintLimb(j.limbs, t)
  BY MintOfForms
<1>3. types \in Bindings /\ Fits(types)
  BY RoomFits DEF Room
<1>4. Closed(j, types) <=> IsBound(types, x)
  BY <1>1, <1>3, ClosedName
<1>5. Compiled(MintLimb(<<NameL(x)>>, t), IsBound(types, x))
  BY <1>3, CompiledName
<1> QED BY <1>1, <1>2, <1>4, <1>5 DEF Compiled

LEMMA CompilesLeaf ==
  ASSUME Tied, NEW j \in Expr, (j.j = "atom" /\ j.n \in Nat) \/ j.j = "crash"
  PROVE  Compiles(j)
<1> SUFFICES ASSUME NEW types, NEW t, Room(types, j), Describes(types, t)
             PROVE  Compiled(Mint(j, t), Closed(j, types))
  BY DEF Compiles
<1>1. Closed(j, types)
  BY ClosedForms
<1>2. Plain(t) /\ Plain(AtomJ)
  BY DescribesPlain, PlainTypes DEF Room
<1>3. CASE j.j = "atom" /\ j.n \in Nat
  <2>1. Mint(j, t).nock = Constant(Atom(j.n)) /\ Mint(j, t).typ = AtomJ
    BY <1>3, MintOfForms, MintedParts
  <2>2. ~HasError(Constant(Atom(j.n))) /\ Code(Constant(Atom(j.n)))
    BY <1>3, CodeOfAtom, CodeOfFormulas
  <2> QED BY <1>1, <1>2, <2>1, <2>2 DEF Compiled
<1>4. CASE j.j = "crash"
  <2>1. Mint(j, t).nock = Axis(0) /\ Mint(j, t).typ = t
    BY <1>4, MintOfForms, MintedParts
  <2>2. ~HasError(Axis(0)) /\ Code(Axis(0))
    <3>1. 0 \in Nat
      OBVIOUS
    <3> QED BY <3>1, CodeOfFormulas
  <2> QED BY <1>1, <1>2, <2>1, <2>2 DEF Compiled
<1> QED BY <1>3, <1>4

LEMMA CompilesUnary ==
  ASSUME Tied, NEW j \in Expr, j.j \in {"increment", "cell_check"}, Within(j.val, j), Compiles(j.val)
  PROVE  Compiles(j)
<1> SUFFICES ASSUME NEW types, NEW t, Room(types, j), Describes(types, t)
             PROVE  Compiled(Mint(j, t), Closed(j, types))
  BY DEF Compiles
<1>1. Closed(j, types) <=> RecClosed(j.val, types)
  BY ClosedForms
<1>2. Compiled(RecMint(j.val, t), RecClosed(j.val, types))
  BY CompiledPart
<1>3. /\ Mint(j, t).nock \in {Increment(RecMint(j.val, t).nock), CellTest(RecMint(j.val, t).nock)}
      /\ Mint(j, t).typ = AtomJ
  BY MintOfForms, MintedParts
<1>4. Plain(AtomJ)
  BY PlainTypes
<1> QED BY <1>1, <1>2, <1>3, <1>4, CodeOfFormulas DEF Compiled

LEMMA CompilesCell ==
  ASSUME Tied, NEW j \in Expr, j.j = "cell",
         Within(j.p, j), Within(j.q, j), Compiles(j.p), Compiles(j.q)
  PROVE  Compiles(j)
<1> SUFFICES ASSUME NEW types, NEW t, Room(types, j), Describes(types, t)
             PROVE  Compiled(Mint(j, t), Closed(j, types))
  BY DEF Compiles
<1>1. Closed(j, types) <=> RecClosed(j.p, types) /\ RecClosed(j.q, types)
  BY ClosedForms
<1>2. /\ Compiled(RecMint(j.p, t), RecClosed(j.p, types))
      /\ Compiled(RecMint(j.q, t), RecClosed(j.q, types))
  BY CompiledPart
<1>3. /\ Mint(j, t).nock = Autocons(RecMint(j.p, t).nock, RecMint(j.q, t).nock)
      /\ Mint(j, t).typ = CellJ(RecMint(j.p, t).typ, RecMint(j.q, t).typ)
  BY MintOfForms, MintedParts
<1>4. Plain(Mint(j, t).typ)
  BY <1>3, PlainTypes
<1> QED BY <1>1, <1>2, <1>3, <1>4, CodeOfFormulas DEF Compiled

LEMMA CompilesComparison ==
  ASSUME Tied, NEW j \in Expr, j.j \in {"eq", "ne"},
         Within(j.a, j), Within(j.b, j), Compiles(j.a), Compiles(j.b)
  PROVE  Compiles(j)
<1> SUFFICES ASSUME NEW types, NEW t, Room(types, j), Describes(types, t)
             PROVE  Compiled(Mint(j, t), Closed(j, types))
  BY DEF Compiles
<1>1. Closed(j, types) <=> RecClosed(j.a, types) /\ RecClosed(j.b, types)
  BY ClosedForms
<1>2. /\ Compiled(RecMint(j.a, t), RecClosed(j.a, types))
      /\ Compiled(RecMint(j.b, t), RecClosed(j.b, types))
  BY CompiledPart
<1> DEFINE same == Equals(RecMint(j.a, t).nock, RecMint(j.b, t).nock)
<1>3. /\ Mint(j, t).nock \in {same, IfThenElse(same, Constant(False), Constant(True))}
      /\ Mint(j, t).typ = AtomJ
  BY MintOfForms, MintedParts
<1>4. Plain(AtomJ)
  BY PlainTypes
<1>5. /\ ~HasError(Constant(False)) /\ Code(Constant(False))
      /\ ~HasError(Constant(True)) /\ Code(Constant(True))
  <2>1. 0 \in Nat /\ 1 \in Nat
    OBVIOUS
  <2> QED BY <2>1, CodeOfAtom, CodeOfFormulas DEF True, False
<1> HIDE DEF same
<1>6. (HasError(same) <=> ~Closed(j, types)) /\ Code(same)
  BY <1>1, <1>2, CodeOfFormulas DEF Compiled, same
<1> QED BY <1>3, <1>4, <1>5, <1>6, CodeOfFormulas DEF Compiled

LEMMA CompilesAssert ==
  ASSUME Tied, NEW j \in Expr, j.j = "assert",
         Within(j.cond, j), Within(j.then, j), Compiles(j.cond), Compiles(j.then)
  PROVE  Compiles(j)
<1> SUFFICES ASSUME NEW types, NEW t, Room(types, j), Describes(types, t)
             PROVE  Compiled(Mint(j, t), Closed(j, types))
  BY DEF Compiles
<1>1. /\ Compiled(RecMint(j.cond, t), RecClosed(j.cond, types))
      /\ Compiled(RecMint(j.then, t), RecClosed(j.then, types))
  BY CompiledPart
<1>2. Closed(j, types) <=> RecClosed(j.cond, types) /\ RecClosed(j.then, types)
  BY ClosedForms
<1>3. /\ Mint(j, t).nock = IfThenElse(RecMint(j.cond, t).nock, RecMint(j.then, t).nock, Axis(0))
      /\ Mint(j, t).typ = RecMint(j.then, t).typ
  BY MintOfForms, MintedParts
<1>4. ~HasError(Axis(0)) /\ Code(Axis(0))
  <2>1. 0 \in Nat
    OBVIOUS
  <2> QED BY <2>1, CodeOfFormulas
<1> QED BY <1>1, <1>2, <1>3, <1>4, CodeOfFormulas DEF Compiled

LEMMA CompilesIf ==
  ASSUME Tied, NEW j \in Expr, j.j = "if",
         Within(j.cond, j), Within(j.then, j), Within(j.after, j),
         Compiles(j.cond), Compiles(j.then), Compiles(j.after)
  PROVE  Compiles(j)
<1> SUFFICES ASSUME NEW types, NEW t, Room(types, j), Describes(types, t)
             PROVE  Compiled(Mint(j, t), Closed(j, types))
  BY DEF Compiles
<1>1. /\ Compiled(RecMint(j.cond, t), RecClosed(j.cond, types))
      /\ Compiled(RecMint(j.then, t), RecClosed(j.then, types))
      /\ Compiled(RecMint(j.after, t), RecClosed(j.after, types))
  BY CompiledPart
<1>2. Closed(j, types) <=> /\ RecClosed(j.cond, types)
                           /\ RecClosed(j.then, types) /\ RecClosed(j.after, types)
  BY ClosedForms
<1>3. /\ Mint(j, t).nock = IfThenElse(RecMint(j.cond, t).nock, RecMint(j.then, t).nock,
                                      RecMint(j.after, t).nock)
      /\ Mint(j, t).typ = ForkJ(RecMint(j.then, t).typ, RecMint(j.after, t).typ)
  BY MintOfForms, MintedParts
<1>4. Plain(Mint(j, t).typ)
  BY <1>3, PlainTypes
<1> QED BY <1>1, <1>2, <1>3, <1>4, CodeOfFormulas DEF Compiled

LEMMA CompilesPrint ==
  ASSUME Tied, NEW j \in Expr, j.j = "print",
         Within(j.body, j), Within(j.next, j), Compiles(j.body), Compiles(j.next)
  PROVE  Compiles(j)
<1> SUFFICES ASSUME NEW types, NEW t, Room(types, j), Describes(types, t)
             PROVE  Compiled(Mint(j, t), Closed(j, types))
  BY DEF Compiles
<1>1. Closed(j, types) <=> RecClosed(j.body, types) /\ RecClosed(j.next, types)
  BY ClosedForms
<1>2. /\ Compiled(RecMint(j.body, t), RecClosed(j.body, types))
      /\ Compiled(RecMint(j.next, t), RecClosed(j.next, types))
  BY CompiledPart
<1> DEFINE text == Autocons(Constant(Atom(0)), Constant(RecMint(j.body, t).nock))
<1>3. /\ Mint(j, t).nock = Hint(Slog, text, RecMint(j.next, t).nock)
      /\ Mint(j, t).typ = RecMint(j.next, t).typ
  BY MintOfForms, MintedParts
<1>4. (HasError(text) <=> HasError(RecMint(j.body, t).nock)) /\ Code(text)
  <2>1. ~HasError(Atom(0)) /\ Code(Atom(0))
    <3>1. 0 \in Nat
      OBVIOUS
    <3> QED BY <3>1, CodeOfAtom
  <2> QED BY <1>2, <2>1, CodeOfFormulas DEF Compiled
<1> HIDE DEF text
<1>5. Slog \in Nat
  BY MintAssumption
<1> QED BY <1>1, <1>2, <1>3, <1>4, <1>5, CodeOfFormulas DEF Compiled

\* The type of a name bound without a declared type is that of its value.
LEMMA LetTypeOfPlain ==
  ASSUME NEW x \in Name, NEW u, Plain(u), NEW t
  PROVE  /\ LetType(Named(NoneJ, x), u, t) = Some(Named(u, x))
         /\ Binder(Named(u, x), x)
<1> DEFINE d == Named(NoneJ, x)
<1>1. d.kind = "none" /\ d.name = x
  BY DEF Named, NoneJ
<1>2. u.kind # "none" /\ u.name = ""
  BY DEF Plain
<1> HIDE DEF d
<1>3. Unify(d, u) = Some(Named(u, x))
  BY <1>1, <1>2 DEF Unify
<1>4. ~IsClassRef(d) /\ u.name \notin ClassNames
  BY <1>1, <1>2, MintAssumption DEF IsClassRef
<1>5. LetType(d, u, t) = Some(Named(u, x))
  BY <1>3, <1>4 DEF LetType
<1> QED BY <1>5 DEF d, Binder

\* What let is compiled to, when its value is.
LEMMA MintOfLet ==
  ASSUME NEW j, NEW t, NEW x \in Name, j.typ = Named(NoneJ, x),
         NEW u, Plain(u), u = RecMint(j.val, t).typ
  PROVE  LET next == RecMint(j.next, CellJ(Named(u, x), t))
         IN  MintLet(j, t) = Minted(Push(RecMint(j.val, t).nock, next.nock), next.typ)
<1>1. LetType(j.typ, RecMint(j.val, t).typ, t) = Some(Named(u, x))
  BY LetTypeOfPlain
<1>2. Some(Named(u, x)) # Nothing /\ Some(Named(u, x))[1] = Named(u, x)
  BY DEF Some, Nothing
<1> QED BY <1>1, <1>2 DEF MintLet

LEMMA CompilesLet ==
  ASSUME Tied, NEW j \in Expr, j.j = "let", NEW x \in Name, j.typ = Named(NoneJ, x),
         Within(j.val, j), Within(j.next, j), Nest[j.next] < Nest[j],
         Compiles(j.val), Compiles(j.next)
  PROVE  Compiles(j)
<1> SUFFICES ASSUME NEW types, NEW t, Room(types, j), Describes(types, t)
             PROVE  Compiled(Mint(j, t), Closed(j, types))
  BY DEF Compiles
<1> DEFINE more == <<Named(NoneJ, x)>> \o types
           val == RecMint(j.val, t)
<1>1. Mint(j, t) = MintLet(j, t)
  BY MintOfForms
<1>2. Closed(j, types) <=> RecClosed(j.val, types) /\ RecClosed(j.next, more)
  BY ClosedForms
<1>3. Compiled(val, RecClosed(j.val, types))
  BY CompiledPart
<1>4. CASE RecClosed(j.val, types)
  <2> DEFINE u == CellJ(Named(val.typ, x), t)
             next == RecMint(j.next, u)
  <2>1. Plain(val.typ)
    BY <1>3, <1>4 DEF Compiled
  <2>2. Binder(Named(val.typ, x), x)
    BY <2>1, LetTypeOfPlain
  <2>3. Room(more, j.next) /\ Describes(more, u)
    BY <2>2, RoomBound
  <2>4. j.next \in Expr
    BY DEF Within
  <2>5. Compiled(next, RecClosed(j.next, more))
    <3>1. next = Mint(j.next, u) /\ RecClosed(j.next, more) = Closed(j.next, more)
      BY <2>4 DEF Tied
    <3>2. Compiled(Mint(j.next, u), Closed(j.next, more))
      BY <2>3 DEF Compiles
    <3> QED BY <3>1, <3>2
  <2>6. MintLet(j, t) = Minted(Push(val.nock, next.nock), next.typ)
    BY <2>1, MintOfLet
  <2>7. Mint(j, t).nock = Push(val.nock, next.nock) /\ Mint(j, t).typ = next.typ
    BY <1>1, <2>6, MintedParts
  <2> HIDE DEF more, val, u, next
  <2> QED BY <1>2, <1>3, <1>4, <2>5, <2>7, CodeOfFormulas DEF Compiled
<1>5. CASE ~RecClosed(j.val, types)
  <2>1. PICK c, u : MintLet(j, t) = Minted(Push(val.nock, c), u) \/ MintLet(j, t) = Failed
    BY DEF MintLet
  <2>2. HasError(val.nock)
    BY <1>3, <1>5 DEF Compiled
  <2>3. CASE MintLet(j, t) = Failed
    <3>1. Mint(j, t).nock = Error
      BY <1>1, <2>3, MintedParts DEF Failed
    <3> HIDE DEF more, val
    <3> QED BY <1>2, <1>5, <3>1, CodeOfError DEF Compiled
  <2>4. CASE MintLet(j, t) = Minted(Push(val.nock, c), u)
    <3>1. Mint(j, t).nock = Push(val.nock, c)
      BY <1>1, <2>4, MintedParts
    <3> HIDE DEF more, val
    <3>2. HasError(Mint(j, t).nock)
      BY <2>2, <3>1, CodeOfFormulas
    <3> QED BY <1>2, <1>5, <3>2 DEF Compiled, Code
  <2> QED BY <2>1, <2>3, <2>4
<1> QED BY <1>4, <1>5

\* What an assignment is compiled to, when its name is bound.
LEMMA MintOfEdit ==
  ASSUME Tied, NEW types, Fits(types), NEW t, Describes(types, t),
         NEW x \in Name, NEW m, LatestOf(types, x, m), NEW j, j.limb = <<NameL(x)>>
  PROVE  MintEdit(j, t) = Minted(Then(Edit(HeadAt(m), RecMint(j.val, t).nock, Axis(1)),
                                      RecMint(j.next, t).nock),
                                 RecMint(j.next, t).typ)
<1>1. PICK u : /\ Plain(u)
               /\ GetLimb(t, <<NameL(x)>>) = Some([typ |-> u, wings |-> <<Leg(HeadAt(m))>>])
  BY LimbBound
<1> DEFINE found == [typ |-> u, wings |-> <<Leg(HeadAt(m))>>]
<1>2. found.wings[1] = Leg(HeadAt(m))
  OBVIOUS
<1>3. WingAxis(Leg(HeadAt(m))) = HeadAt(m)
  BY DEF WingAxis, IsLeg, Leg
<1>4. Some(found) # Nothing /\ Some(found)[1] = found
  BY DEF Some, Nothing
<1>5. GetLimb(t, j.limb) = Some(found)
  BY <1>1
<1> HIDE DEF found
<1> QED BY <1>2, <1>3, <1>4, <1>5 DEF MintEdit

LEMMA CompilesEdit ==
  ASSUME Tied, NEW j \in Expr, j.j = "edit", NEW target, target = [j |-> "limb", limbs |-> j.limb],
         IsName(j.limb), Within(target, j), Within(j.val, j), Within(j.next, j),
         Compiles(j.val), Compiles(j.next)
  PROVE  Compiles(j)
<1> SUFFICES ASSUME NEW types, NEW t, Room(types, j), Describes(types, t)
             PROVE  Compiled(Mint(j, t), Closed(j, types))
  BY DEF Compiles
<1>1. Mint(j, t) = MintEdit(j, t)
  BY MintOfForms
<1>2. PICK x \in Name : j.limb = <<NameL(x)>>
  BY DEF IsName
<1>3. types \in Bindings /\ Fits(types)
  BY RoomFits DEF Room
<1>4. RecClosed(target, types) <=> IsBound(types, x)
  <2>1. target \in Expr /\ target.j = "limb" /\ target.limbs = <<NameL(x)>>
    BY <1>2 DEF Within
  <2>2. RecClosed(target, types) = Closed(target, types)
    BY <2>1 DEF Tied
  <2>3. Closed(target, types) <=> IsBound(types, x)
    BY <1>3, <2>1, ClosedName
  <2> QED BY <2>2, <2>3
<1>5. Closed(j, types) <=> IsBound(types, x) /\ RecClosed(j.val, types) /\ RecClosed(j.next, types)
  BY <1>4, ClosedForms
<1> DEFINE val == RecMint(j.val, t)
           next == RecMint(j.next, t)
<1>6. Compiled(val, RecClosed(j.val, types)) /\ Compiled(next, RecClosed(j.next, types))
  BY CompiledPart
<1>7. CASE IsBound(types, x)
  <2>1. PICK m : LatestOf(types, x, m)
    BY <1>3, <1>7, LatestExists
  <2>2. MintEdit(j, t) = Minted(Then(Edit(HeadAt(m), val.nock, Axis(1)), next.nock), next.typ)
    BY <1>2, <1>3, <2>1, MintOfEdit
  <2>3. /\ Mint(j, t).nock = Then(Edit(HeadAt(m), val.nock, Axis(1)), next.nock)
        /\ Mint(j, t).typ = next.typ
    BY <1>1, <2>2, MintedParts
  <2>4. HeadAt(m) \in Nat /\ ~HasError(Axis(1)) /\ Code(Axis(1))
    <3>1. 1 \in Nat /\ m \in Nat \ {0}
      BY <1>3, <2>1 DEF LatestOf, Bindings
    <3> QED BY <3>1, AxesOnSpine, CodeOfFormulas
  <2> HIDE DEF val, next
  <2>5. /\ HasError(Edit(HeadAt(m), val.nock, Axis(1))) <=> HasError(val.nock)
        /\ Code(val.nock) => Code(Edit(HeadAt(m), val.nock, Axis(1)))
    BY <2>4, CodeOfFormulas
  <2> QED BY <1>5, <1>6, <1>7, <2>3, <2>5, CodeOfFormulas DEF Compiled
<1>8. CASE ~IsBound(types, x)
  <2>1. GetLimb(t, j.limb) = Nothing
    BY <1>2, <1>3, <1>8, LimbUnbound
  <2>2. MintEdit(j, t) = Failed
    BY <2>1 DEF MintEdit
  <2>3. Mint(j, t).nock = Error
    BY <1>1, <2>2, MintedParts DEF Failed
  <2> QED BY <1>5, <1>8, <2>3, CodeOfError DEF Compiled
<1> QED BY <1>7, <1>8

\* Every straight expression is compiled, or is refused because of a name.
LEMMA CompilesStraight ==
  ASSUME Tied, NEW j \in Expr
  PROVE  Compiles(j)
<1> DEFINE Bad == {n \in Nat : \E e \in Expr : Size[e] = n /\ ~Compiles(e)}
<1>1. Size \in [Expr -> Nat] /\ \A e \in Expr : IsStraight(e)
  BY StraightAssumption
<1>2. SUFFICES Bad = {}
  BY <1>1
<1>3. SUFFICES ASSUME Bad # {} PROVE FALSE
  OBVIOUS
<1>4. PICK n \in Bad : \A m \in Bad : n <= m
  <2>1. Bad \in SUBSET Nat
    OBVIOUS
  <2> HIDE DEF Bad
  <2> QED BY <1>3, <2>1, LeastNat
<1>5. PICK e \in Expr : Size[e] = n /\ ~Compiles(e)
  BY <1>4
<1>6. ASSUME NEW d, Within(d, e) PROVE Compiles(d)
  <2>1. d \in Expr /\ Size[d] < n /\ Size[d] \in Nat
    BY <1>1, <1>5, <1>6 DEF Within
  <2>2. ~(n <= Size[d]) /\ Size[d] \notin Bad
    BY <1>4, <2>1
  <2> QED BY <2>1, <2>2
<1> HIDE DEF Bad
<1>7. IsStraight(e)
  BY <1>1
<1>8. ASSUME e.j = "edit", Within([j |-> "limb", limbs |-> e.limb], e)
      PROVE  IsName(e.limb)
  <2> DEFINE target == [j |-> "limb", limbs |-> e.limb]
  <2>1. target \in Expr /\ target.j = "limb" /\ target.limbs = e.limb
    BY <1>8 DEF Within
  <2>2. IsStraight(target)
    BY <1>1, <2>1
  <2> HIDE DEF target
  <2> QED BY <2>1, <2>2 DEF IsStraight
<1>9. CASE (e.j = "atom" /\ e.n \in Nat) \/ e.j = "crash"
  BY <1>5, <1>9, CompilesLeaf
<1>10. CASE e.j = "limb" /\ IsName(e.limbs)
  BY <1>5, <1>10, CompilesName
<1>11. CASE e.j = "cell" /\ Within(e.p, e) /\ Within(e.q, e)
  BY <1>5, <1>6, <1>11, CompilesCell
<1>12. CASE e.j \in {"increment", "cell_check"} /\ Within(e.val, e)
  BY <1>5, <1>6, <1>12, CompilesUnary
<1>13. CASE e.j \in {"eq", "ne"} /\ Within(e.a, e) /\ Within(e.b, e)
  BY <1>5, <1>6, <1>13, CompilesComparison
<1>14. CASE e.j = "if" /\ Within(e.cond, e) /\ Within(e.then, e) /\ Within(e.after, e)
  BY <1>5, <1>6, <1>14, CompilesIf
<1>15. CASE e.j = "assert" /\ Within(e.cond, e) /\ Within(e.then, e)
  BY <1>5, <1>6, <1>15, CompilesAssert
<1>16. CASE e.j = "print" /\ Within(e.body, e) /\ Within(e.next, e)
  BY <1>5, <1>6, <1>16, CompilesPrint
<1>17. CASE /\ e.j = "edit" /\ Within([j |-> "limb", limbs |-> e.limb], e)
            /\ Within(e.val, e) /\ Within(e.next, e)
  BY <1>5, <1>6, <1>8, <1>17, CompilesEdit
<1>18. CASE /\ e.j = "let" /\ \E x \in Name : e.typ = Named(NoneJ, x)
            /\ Within(e.val, e) /\ Within(e.next, e) /\ Nest[e.next] < Nest[e]
  <2>1. PICK x \in Name : e.typ = Named(NoneJ, x)
    BY <1>18
  <2>2. Compiles(e.val) /\ Compiles(e.next)
    BY <1>6, <1>18
  <2>3. Compiles(e)
    BY <1>18, <2>1, <2>2, CompilesLet
  <2> QED BY <1>5, <2>3
<1> QED BY <1>7, <1>9, <1>10, <1>11, <1>12, <1>13, <1>14, <1>15, <1>16, <1>17, <1>18 DEF IsStraight
-----------------------------------------------------------------------------
(* What a state of the specification is, for any programs.                 *)

\* The code is that of the program, and the outcome that of the code.
Inv ==
  /\ source \in Sources
  /\ phase \in {"given", "compiled", "refused", "ran"}
  /\ phase # "given" => /\ minted = Mint(program, AtomJ)
                        /\ phase = "refused" <=> HasError(minted.nock)
  /\ outcome = IF phase = "ran" THEN Tar(Atom(0), minted.nock, 3 * Fuel) ELSE Crash

LEMMA InvHolds == Spec => []Inv
<1>1. Init => Inv
  BY DEF Init, Inv
<1>2. Inv /\ [Next]_vars => Inv'
  <2> SUFFICES ASSUME Inv, [Next]_vars PROVE Inv'
    OBVIOUS
  <2>1. CASE Compile
    <3>1. /\ phase = "given" /\ source' = source /\ outcome' = outcome
          /\ minted' = Mint(program, AtomJ)
          /\ phase' = IF HasError(minted'.nock) THEN "refused" ELSE "compiled"
      BY <2>1 DEF Compile
    <3>2. program' = program
      BY <3>1 DEF program
    <3>3. phase' \in {"compiled", "refused"} /\ (phase' = "refused" <=> HasError(minted'.nock))
      BY <3>1
    <3> QED BY <3>1, <3>2, <3>3 DEF Inv
  <2>2. CASE Run
    <3>1. /\ phase = "compiled" /\ source' = source /\ minted' = minted /\ phase' = "ran"
          /\ outcome' = Tar(Atom(0), minted.nock, 3 * Fuel)
      BY <2>2 DEF Run
    <3>2. program' = program
      BY <3>1 DEF program
    <3> QED BY <3>1, <3>2 DEF Inv
  <2>3. CASE UNCHANGED vars
    <3>1. program' = program
      BY <2>3 DEF vars, program
    <3> QED BY <2>3, <3>1 DEF Inv, vars
  <2> QED BY <2>1, <2>2, <2>3 DEF Next
<1> QED BY <1>1, <1>2, PTL DEF Spec

LEMMA ProgramStraight ==
  ASSUME GivenStraight
  PROVE  program \in Expr /\ Room(<<>>, program) /\ Describes(<<>>, AtomJ)
<1>1. program \in Expr /\ Nest[program] + 1 <= AxisBits
  BY DEF GivenStraight
<1>2. Nest[program] \in Nat /\ Len(<<>>) = 0
  BY <1>1, StraightAssumption
<1>3. Len(<<>>) + Nest[program] + 1 <= AxisBits
  BY <1>1, <1>2
<1> QED BY <1>1, <1>3, DescribesNothing DEF Room

\* The compiler refuses a program without functions, loops and objects exactly if
\* it uses a name that is not bound, wherever in it that is (RefusesUnbound).
THEOREM UnboundRefused ==
  ASSUME Tied
  PROVE  Spec => [](GivenStraight => RefusesUnbound)
<1>1. Inv => (GivenStraight => RefusesUnbound)
  <2> SUFFICES ASSUME Inv, GivenStraight, phase # "given"
               PROVE  phase = "refused" <=> ~Closed(program, <<>>)
    BY DEF RefusesUnbound
  <2>1. program \in Expr /\ Room(<<>>, program) /\ Describes(<<>>, AtomJ)
    BY ProgramStraight
  <2>2. Compiled(Mint(program, AtomJ), Closed(program, <<>>))
    BY <2>1, CompilesStraight DEF Compiles
  <2>3. minted = Mint(program, AtomJ) /\ (phase = "refused" <=> HasError(minted.nock))
    BY DEF Inv
  <2> QED BY <2>2, <2>3 DEF Compiled
<1> QED BY <1>1, InvHolds, PTL
-----------------------------------------------------------------------------
(* Running formulas.                                                       *)

\* Values of these programs.
Datum(v) == v.kind \in {"atom", "cell"} /\ IsNoun(v) /\ IsData(v)

LEMMA DatumFacts ==
  ASSUME Tied
  PROVE  /\ \A v : Datum(v) => v # Crash /\ IsValue(v)
         /\ \A n \in Nat : Datum(Atom(n))
         /\ \A p, q : Datum(p) /\ Datum(q) => Datum(Cell(p, q))
         /\ \A v : Datum(v) /\ v.kind = "atom" => v.n \in Nat /\ v.n + 1 \in Nat
<1>1. ASSUME NEW v, Datum(v) PROVE v # Crash /\ IsValue(v)
  BY <1>1 DEF Datum, Crash, IsValue
<1>2. ASSUME NEW n \in Nat PROVE Datum(Atom(n))
  <2>1. Atom(n).kind = "atom" /\ Atom(n).n = n
    BY DEF Atom
  <2> QED BY <2>1 DEF Datum, IsNoun, IsData
<1>3. ASSUME NEW p, NEW q, Datum(p), Datum(q) PROVE Datum(Cell(p, q))
  <2> DEFINE c == Cell(p, q)
  <2>1. c.kind = "cell" /\ c.p = p /\ c.q = q
    BY DEF Cell
  <2> HIDE DEF c
  <2>2. RecIsNoun(p) /\ RecIsNoun(q) /\ RecIsData(p) /\ RecIsData(q)
    BY <1>3 DEF Tied, Datum
  <2>3. IsNoun(c) /\ IsData(c)
    BY <2>1, <2>2 DEF IsNoun, IsData
  <2>4. Datum(c)
    BY <2>1, <2>3 DEF Datum
  <2> QED BY <2>4 DEF c
<1>4. ASSUME NEW v, Datum(v), v.kind = "atom" PROVE v.n \in Nat /\ v.n + 1 \in Nat
  <2>1. v.n \in Nat
    BY <1>4 DEF Datum, IsNoun
  <2> QED BY <2>1
<1> QED BY <1>1, <1>2, <1>3, <1>4

\* The parts of a formula.
LEMMA CellParts ==
  ASSUME NEW p, NEW q
  PROVE  /\ IsCell(Cell(p, q)) /\ HeadOf(Cell(p, q)) = p /\ TailOf(Cell(p, q)) = q
         /\ Cell(p, q) # Crash
BY DEF IsCell, HeadOf, TailOf, Cell, Crash

LEMMA AtomParts ==
  /\ \A n : ~IsCell(Atom(n)) /\ IsAtom(Atom(n)) /\ Num(Atom(n)) = n /\ Atom(n) # Crash
  /\ \A n, k : Atom(n) = Atom(k) => n = k
<1>1. ASSUME NEW n, NEW k, Atom(n) = Atom(k) PROVE n = k
  <2>1. Atom(n).n = n /\ Atom(k).n = k
    BY DEF Atom
  <2> QED BY <1>1, <2>1
<1> QED BY <1>1 DEF IsCell, IsAtom, Num, Atom, Crash

\* What the interpreter does with the formulas of these programs.
LEMMA TarOfAxis ==
  ASSUME NEW s, s # Crash, NEW fuel, NEW a
  PROVE  Tar(s, Axis(a), fuel) = Slot(a, s)
BY DEF Tar, Axis, Cell, Atom, Crash, IsCell, IsAtom, HeadOf, TailOf, Num

LEMMA TarOfConstant ==
  ASSUME NEW s, s # Crash, NEW fuel, NEW c
  PROVE  Tar(s, Constant(c), fuel) = c
BY DEF Tar, Constant, Cell, Atom, Crash, IsCell, IsAtom, HeadOf, TailOf, Num

LEMMA TarOfCellTest ==
  ASSUME NEW s, s # Crash, NEW fuel, NEW p
  PROVE  Tar(s, CellTest(p), fuel) =
           IF RecTar(s, p, fuel) = Crash THEN Crash ELSE Loobean(IsCell(RecTar(s, p, fuel)))
BY DEF Tar, CellTest, Cell, Atom, Crash, IsCell, IsAtom, HeadOf, TailOf, Num

LEMMA TarOfIncrement ==
  ASSUME NEW s, s # Crash, NEW fuel, NEW p
  PROVE  Tar(s, Increment(p), fuel) =
           IF IsAtom(RecTar(s, p, fuel)) THEN Atom(RecTar(s, p, fuel).n + 1) ELSE Crash
BY DEF Tar, Increment, Cell, Atom, Crash, IsCell, IsAtom, HeadOf, TailOf, Num

LEMMA TarOfEquals ==
  ASSUME NEW s, s # Crash, NEW fuel, NEW p, NEW q
  PROVE  Tar(s, Equals(p, q), fuel) =
           LET n == Pair(RecTar(s, p, fuel), RecTar(s, q, fuel))
           IN  IF n = Crash THEN Crash ELSE Loobean(n.p = n.q)
BY DEF Tar, Equals, Cell, Atom, Crash, IsCell, IsAtom, HeadOf, TailOf, Num

LEMMA TarOfIfThenElse ==
  ASSUME NEW s, s # Crash, NEW fuel, NEW c, NEW p, NEW q
  PROVE  Tar(s, IfThenElse(c, p, q), fuel) =
           IF RecTar(s, c, fuel) = True THEN RecTar(s, p, fuel)
           ELSE IF RecTar(s, c, fuel) = False THEN RecTar(s, q, fuel)
           ELSE Crash
BY DEF Tar, IfThenElse, Cell, Atom, Crash, IsCell, IsAtom, HeadOf, TailOf, Num

LEMMA TarOfThen ==
  ASSUME NEW s, s # Crash, NEW fuel, NEW p, NEW q
  PROVE  Tar(s, Then(p, q), fuel) = RecTar(RecTar(s, p, fuel), q, fuel)
BY DEF Tar, Then, Cell, Atom, Crash, IsCell, IsAtom, HeadOf, TailOf, Num

LEMMA TarOfPush ==
  ASSUME NEW s, s # Crash, NEW fuel, NEW p, NEW q
  PROVE  Tar(s, Push(p, q), fuel) = RecTar(Pair(RecTar(s, p, fuel), s), q, fuel)
BY DEF Tar, Push, Cell, Atom, Crash, IsCell, IsAtom, HeadOf, TailOf, Num

LEMMA TarOfEdit ==
  ASSUME NEW s, s # Crash, NEW fuel, NEW a, NEW v, NEW p
  PROVE  Tar(s, Edit(a, v, p), fuel) = Hax(a, RecTar(s, v, fuel), RecTar(s, p, fuel))
BY DEF Tar, Edit, Cell, Atom, Crash, IsCell, IsAtom, HeadOf, TailOf, Num

LEMMA TarOfHint ==
  ASSUME NEW s, s # Crash, NEW fuel, NEW tag, NEW h, NEW p
  PROVE  Tar(s, Hint(tag, h, p), fuel) =
           IF RecTar(s, h, fuel) = Crash THEN Crash ELSE RecTar(s, p, fuel)
BY DEF Tar, Hint, Cell, Atom, Crash, IsCell, IsAtom, HeadOf, TailOf, Num

LEMMA TarOfAutocons ==
  ASSUME NEW s, s # Crash, NEW fuel, NEW p, NEW q, IsCell(p)
  PROVE  Tar(s, Autocons(p, q), fuel) = Pair(RecTar(s, p, fuel), RecTar(s, q, fuel))
<1> DEFINE f == Cell(p, q)
<1>1. IsCell(f) /\ HeadOf(f) = p /\ TailOf(f) = q
  BY CellParts
<1>2. \A i : p # Atom(i)
  BY AtomParts
<1> HIDE DEF f
<1>3. Tar(s, f, fuel) = Pair(RecTar(s, p, fuel), RecTar(s, q, fuel))
  BY <1>1, <1>2 DEF Tar
<1> QED BY <1>3 DEF f, Autocons

LEMMA TarOfCrash ==
  ASSUME NEW f, NEW fuel
  PROVE  Tar(Crash, f, fuel) = Crash
BY DEF Tar

\* They are cells.
LEMMA FormulasAreCells ==
  /\ \A a : IsCell(Axis(a)) /\ IsCell(Constant(a)) /\ IsCell(CellTest(a)) /\ IsCell(Increment(a))
  /\ \A p, q : /\ IsCell(Equals(p, q)) /\ IsCell(Then(p, q)) /\ IsCell(Push(p, q))
              /\ IsCell(Autocons(p, q))
  /\ \A c, p, q : IsCell(IfThenElse(c, p, q)) /\ IsCell(Edit(c, p, q)) /\ IsCell(Hint(c, p, q))
BY CellParts DEF Axis, Constant, CellTest, Increment, Equals, Then, Push, Autocons, IfThenElse, Edit, Hint
-----------------------------------------------------------------------------
(* The subject at a place of such a program: the values of the bindings.   *)

\* ns[k]: what is left of the subject n behind k values.
OnSpine(ns, env, n) ==
  /\ ns[0] = n /\ ns[Len(env)] = Atom(0)
  /\ \A k \in 1..Len(env) : ns[k - 1] = Cell(env[k].val, ns[k])

\* An environment of the bindings.
Binding(types, env) ==
  /\ \E S : env \in Seq(S)
  /\ Len(env) = Len(types)
  /\ \A k \in 1..Len(env) : \E v : env[k] = [typ |-> types[k], val |-> v] /\ Datum(v)

Holds(types, env, n) == Binding(types, env) /\ \E ns : OnSpine(ns, env, n)

LEMMA BindingParts ==
  ASSUME NEW types, NEW env, Binding(types, env), NEW k \in 1..Len(env)
  PROVE  env[k].typ = types[k] /\ Datum(env[k].val)
<1>1. PICK v : env[k] = [typ |-> types[k], val |-> v] /\ Datum(v)
  BY DEF Binding
<1> QED BY <1>1

LEMMA HoldsNothing == Holds(<<>>, <<>>, Atom(0))
<1> DEFINE ns == [k \in 0..0 |-> Atom(0)]
<1>1. OnSpine(ns, <<>>, Atom(0))
  BY DEF OnSpine
<1>2. Binding(<<>>, <<>>)
  <2>1. <<>> \in Seq({})
    OBVIOUS
  <2> QED BY <2>1 DEF Binding
<1> QED BY <1>1, <1>2 DEF Holds

\* What is behind some values is a noun.
LEMMA SpineNouns ==
  ASSUME NEW env, Len(env) \in Nat, NEW n, NEW ns, OnSpine(ns, env, n), NEW k \in 0..Len(env)
  PROVE  ns[k] # Crash
<1>1. CASE k = Len(env)
  BY <1>1, AtomParts DEF OnSpine
<1>2. CASE k # Len(env)
  <2>1. PICK i \in 1..Len(env) : i - 1 = k
    <3>1. k + 1 \in 1..Len(env) /\ k + 1 - 1 = k
      BY <1>2
    <3> QED BY <3>1
  <2>2. ns[k] = Cell(env[i].val, ns[i])
    BY <2>1 DEF OnSpine
  <2> QED BY <2>2, CellParts
<1> QED BY <1>1, <1>2

LEMMA SubjectNoun ==
  ASSUME NEW types, NEW env, NEW n, Holds(types, env, n)
  PROVE  n # Crash
<1>1. PICK ns : OnSpine(ns, env, n)
  BY DEF Holds
<1>2. Len(env) \in Nat
  BY DEF Holds, Binding
<1>3. 0 \in 0..Len(env)
  BY <1>2
<1> QED BY <1>1, <1>2, <1>3, SpineNouns DEF OnSpine

\* One step along the spine.
LEMMA SpineStep ==
  ASSUME NEW k \in Nat \ {0}
  PROVE  \E h, a, b, c \in Nat :
           /\ h = k - 1 /\ a = HeadAt(k) /\ b = TailAt(h) /\ c = TailAt(k)
           /\ a > 1 /\ a % 2 = 0 /\ a \div 2 = b /\ a + 1 = c
           /\ c > 1 /\ c % 2 = 1 /\ c \div 2 = b /\ c - 1 = a
<1>1. PICK h, a, b, c : h = k - 1 /\ a = HeadAt(k) /\ b = TailAt(k - 1) /\ c = TailAt(k)
  OBVIOUS
<1>2. /\ h \in Nat /\ a \in Nat /\ b \in Nat /\ c \in Nat
      /\ a > 1 /\ a % 2 = 0 /\ a \div 2 = b /\ a + 1 = c
      /\ c > 1 /\ c % 2 = 1 /\ c \div 2 = b /\ c - 1 = a
  BY <1>1, AxesOnSpine
<1>3. b = TailAt(h)
  BY <1>1
<1> QED BY <1>1, <1>2, <1>3

\* One step into a noun.
LEMMA SlotUnfolds ==
  ASSUME NEW a \in Nat, a > 1, NEW b, a \div 2 = b, NEW n
  PROVE  /\ a % 2 = 0 => Slot(a, n) = HeadOf(RecSlot(b, n))
         /\ a % 2 = 1 => Slot(a, n) = TailOf(RecSlot(b, n))
<1>1. a # 0 /\ a # 1 /\ 0 # 1
  OBVIOUS
<1>2. Slot(a, n) = IF a % 2 = 0 THEN HeadOf(RecSlot(a \div 2, n)) ELSE TailOf(RecSlot(a \div 2, n))
  BY <1>1, Zenon DEF Slot
<1> QED BY <1>1, <1>2, Zenon

\* The axis behind k values is that of what is behind them.
LEMMA SlotTail ==
  ASSUME Tied, NEW env, Len(env) \in Nat, NEW n, NEW ns, OnSpine(ns, env, n),
         NEW k \in 0..Len(env)
  PROVE  Slot(TailAt(k), n) = ns[k]
<1> DEFINE Bad == {i \in 0..Len(env) : Slot(TailAt(i), n) # ns[i]}
<1>1. SUFFICES ASSUME Bad # {} PROVE FALSE
  OBVIOUS
<1>2. PICK i \in Bad : \A m \in Bad : i <= m
  <2>1. Bad \in SUBSET Nat
    OBVIOUS
  <2> HIDE DEF Bad
  <2> QED BY <1>1, <2>1, LeastNat
<1>3. i \in 0..Len(env) /\ Slot(TailAt(i), n) # ns[i]
  BY <1>2
<1>4. CASE i = 0
  <2>1. TailAt(0) = 1 /\ ns[0] = n
    BY AxesOnSpine DEF OnSpine
  <2>2. Slot(1, n) = n
    BY DEF Slot
  <2> QED BY <1>3, <1>4, <2>1, <2>2
<1>5. CASE i # 0
  <2>0. i \in Nat \ {0}
    BY <1>3, <1>5
  <2>4. PICK h, c, b, a \in Nat :
          /\ h = i - 1 /\ c = HeadAt(i) /\ b = TailAt(h) /\ a = TailAt(i)
          /\ c > 1 /\ c % 2 = 0 /\ c \div 2 = b /\ c + 1 = a
          /\ a > 1 /\ a % 2 = 1 /\ a \div 2 = b /\ a - 1 = c
    BY <2>0, SpineStep
  <2>1. h \in 0..Len(env) /\ ~(i <= h)
    BY <1>3, <2>0, <2>4
  <2>2. Slot(TailAt(h), n) = ns[h]
    BY <1>2, <2>1
  <2>3. ns[h] = Cell(env[i].val, ns[i])
    BY <1>3, <1>5, <2>4 DEF OnSpine
  <2>6. Slot(a, n) = TailOf(RecSlot(b, n))
    BY <2>4, SlotUnfolds
  <2>7. RecSlot(b, n) = ns[h]
    BY <2>2, <2>4 DEF Tied
  <2> QED BY <1>3, <2>3, <2>4, <2>6, <2>7, CellParts
<1> QED BY <1>4, <1>5

\* The axis of the k-th value is that value's.
LEMMA SlotHead ==
  ASSUME Tied, NEW env, Len(env) \in Nat, NEW n, NEW ns, OnSpine(ns, env, n),
         NEW k \in 1..Len(env)
  PROVE  Slot(HeadAt(k), n) = env[k].val
<1>1. k \in Nat \ {0}
  OBVIOUS
<1>2. PICK h, a, b, c \in Nat :
        /\ h = k - 1 /\ a = HeadAt(k) /\ b = TailAt(h) /\ c = TailAt(k)
        /\ a > 1 /\ a % 2 = 0 /\ a \div 2 = b /\ a + 1 = c
        /\ c > 1 /\ c % 2 = 1 /\ c \div 2 = b /\ c - 1 = a
  BY <1>1, SpineStep
<1>3. h \in 0..Len(env)
  BY <1>2
<1>4. Slot(TailAt(h), n) = ns[h]
  BY <1>3, SlotTail
<1>5. ns[h] = Cell(env[k].val, ns[k])
  BY <1>2 DEF OnSpine
<1>6. Slot(a, n) = HeadOf(RecSlot(b, n))
  <2>1. a > 1 /\ a % 2 = 0 /\ a \div 2 = b
    BY <1>2
  <2> QED BY <2>1, SlotUnfolds
<1>7. RecSlot(b, n) = ns[h]
  BY <1>2, <1>4 DEF Tied
<1> QED BY <1>2, <1>5, <1>6, <1>7, CellParts

\* A value more.
LEMMA HoldsBound ==
  ASSUME Tied, NEW types \in Bindings, NEW env, NEW n, Holds(types, env, n),
         NEW x \in Name, NEW v, Datum(v)
  PROVE  Holds(<<Named(NoneJ, x)>> \o types, Bind(Named(NoneJ, x), v, env), Pair(v, n))
<1> DEFINE b == [typ |-> Named(NoneJ, x), val |-> v]
           more == <<Named(NoneJ, x)>> \o types
           envs == <<b>> \o env
           k == Len(env)
<1>1. PICK ns : OnSpine(ns, env, n)
  BY DEF Holds
<1>2. PICK S : env \in Seq(S)
  BY DEF Holds, Binding
<1>3. k \in Nat /\ Len(types) = k /\ Pair(v, n) = Cell(v, n)
  <2>1. n # Crash /\ v # Crash
    BY SubjectNoun, DatumFacts
  <2> QED BY <1>2, <2>1 DEF Pair, Holds, Binding
<1>4. envs \in Seq(S \cup {b}) /\ Len(envs) = k + 1 /\ envs[1] = b
      /\ \A i \in 2..(k + 1) : envs[i] = env[i - 1]
  <2>1. env \in Seq(S \cup {b}) /\ <<b>> \in Seq(S \cup {b})
    BY <1>2
  <2> HIDE DEF b
  <2> QED BY <2>1
<1>5. Len(more) = k + 1 /\ more[1] = Named(NoneJ, x)
      /\ \A i \in 2..(k + 1) : more[i] = types[i - 1]
  BY <1>3 DEF Bindings
<1>6. Binding(more, envs)
  <2>1. ASSUME NEW i \in 1..(k + 1)
        PROVE  \E u : envs[i] = [typ |-> more[i], val |-> u] /\ Datum(u)
    <3>1. CASE i = 1
      BY <1>4, <1>5, <3>1
    <3>2. CASE i # 1
      <4>1. i \in 2..(k + 1) /\ i - 1 \in 1..k
        BY <1>3, <3>2
      <4> HIDE DEF envs, more
      <4> QED BY <1>4, <1>5, <4>1 DEF Holds, Binding
    <3> QED BY <3>1, <3>2
  <2> HIDE DEF envs, more
  <2> QED BY <1>4, <1>5, <2>1 DEF Binding
<1> DEFINE us == [i \in 0..(k + 1) |-> IF i = 0 THEN Cell(v, n) ELSE ns[i - 1]]
<1>7. OnSpine(us, envs, Cell(v, n))
  <2>1. us[0] = Cell(v, n) /\ us[k + 1] = Atom(0)
    BY <1>1, <1>3 DEF OnSpine
  <2>2. ASSUME NEW i \in 1..(k + 1) PROVE us[i - 1] = Cell(envs[i].val, us[i])
    <3>1. CASE i = 1
      <4>1. us[0] = Cell(v, n) /\ us[1] = ns[0]
        BY <1>3
      <4> HIDE DEF us
      <4> QED BY <1>1, <1>4, <3>1, <4>1 DEF OnSpine
    <3>2. CASE i # 1
      <4>1. i \in 2..(k + 1) /\ i - 1 \in 1..k /\ i \in 0..(k + 1) /\ i - 1 \in 0..(k + 1)
            /\ i # 0 /\ i - 1 # 0
        BY <1>3, <3>2
      <4>2. us[i] = ns[i - 1] /\ us[i - 1] = ns[i - 1 - 1] /\ envs[i] = env[i - 1]
        BY <1>4, <4>1
      <4> HIDE DEF us, envs
      <4> QED BY <1>1, <4>1, <4>2 DEF OnSpine
    <3> QED BY <3>1, <3>2
  <2> HIDE DEF us, envs
  <2> QED BY <1>4, <2>1, <2>2 DEF OnSpine
<1> HIDE DEF us, k
<1> QED BY <1>3, <1>6, <1>7 DEF Holds, Bind

\* One step of an edit, outwards.
LEMMA HaxUnfolds ==
  ASSUME NEW a \in Nat, a > 1, NEW b, a \div 2 = b, NEW n, NEW v, Slot(a, n) # Crash,
         NEW c, NEW d, c = a + 1, d = a - 1
  PROVE  /\ a % 2 = 0 => Hax(a, v, n) = RecHax(b, Pair(v, Slot(c, n)), n)
         /\ a % 2 = 1 => Hax(a, v, n) = RecHax(b, Pair(Slot(d, n), v), n)
<1>1. a # 1 /\ 0 # 1
  OBVIOUS
<1>2. Hax(a, v, n) = RecHax(a \div 2, IF a % 2 = 0 THEN Pair(v, Slot(a + 1, n))
                                                   ELSE Pair(Slot(a - 1, n), v), n)
  BY <1>1, Zenon DEF Hax
<1>3. Hax(a, v, n) = RecHax(b, IF a % 2 = 0 THEN Pair(v, Slot(c, n)) ELSE Pair(Slot(d, n), v), n)
  BY <1>2, Zenon
<1> QED BY <1>1, <1>3, Zenon

\* us[i]: what is left behind the first i of k values.
Stacked(us, env, k) == \A i \in 1..k : us[i - 1] = Cell(env[i].val, us[i])

LEMMA StackedNouns ==
  ASSUME NEW us, NEW env, NEW k \in Nat, Stacked(us, env, k), us[k] # Crash, NEW i \in 0..k
  PROVE  us[i] # Crash
<1>1. CASE i = k
  BY <1>1
<1>2. CASE i # k
  <2>1. PICK h \in 1..k : h - 1 = i
    <3>1. i + 1 \in 1..k /\ i + 1 - 1 = i
      BY <1>2
    <3> QED BY <3>1
  <2>2. us[i] = Cell(env[h].val, us[h])
    BY <2>1 DEF Stacked
  <2> QED BY <2>2, CellParts
<1> QED BY <1>1, <1>2

\* An edit behind k values makes the nouns around the new one, out to the whole.
LEMMA HaxTail ==
  ASSUME Tied, NEW types, NEW env, Binding(types, env), NEW n, NEW ns, OnSpine(ns, env, n),
         NEW k \in 0..Len(env), NEW us, us[k] # Crash, Stacked(us, env, k)
  PROVE  Hax(TailAt(k), us[k], n) = us[0]
<1> DEFINE Bad == {i \in 0..k : Hax(TailAt(i), us[i], n) # us[0]}
<1>1. SUFFICES ASSUME Bad # {} PROVE FALSE
  OBVIOUS
<1>2. PICK i \in Bad : \A m \in Bad : i <= m
  <2>1. Bad \in SUBSET Nat
    OBVIOUS
  <2> HIDE DEF Bad
  <2> QED BY <1>1, <2>1, LeastNat
<1>3. i \in 0..k /\ i \in 0..Len(env) /\ Hax(TailAt(i), us[i], n) # us[0]
  BY <1>2
<1>4. Len(env) \in Nat /\ k \in Nat
  BY DEF Binding
<1>7. ns[i] # Crash /\ Slot(TailAt(i), n) = ns[i]
  BY <1>3, <1>4, SpineNouns, SlotTail
<1>5. CASE i = 0
  <2>1. TailAt(0) = 1
    BY AxesOnSpine
  <2>2. Slot(1, n) # Crash
    BY <1>5, <1>7, <2>1
  <2>3. Hax(1, us[0], n) = us[0]
    BY <2>2 DEF Hax
  <2> QED BY <1>3, <1>5, <2>1, <2>3
<1>6. CASE i # 0
  <2>1. i \in Nat \ {0} /\ i \in 1..k /\ i \in 1..Len(env)
    BY <1>3, <1>6
  <2>2. PICK h, c, b, a \in Nat :
          /\ h = i - 1 /\ c = HeadAt(i) /\ b = TailAt(h) /\ a = TailAt(i)
          /\ c > 1 /\ c % 2 = 0 /\ c \div 2 = b /\ c + 1 = a
          /\ a > 1 /\ a % 2 = 1 /\ a \div 2 = b /\ a - 1 = c
    BY <2>1, SpineStep
  <2>3. h \in 0..k /\ ~(i <= h)
    BY <2>1, <2>2
  <2>4. Hax(b, us[h], n) = us[0]
    BY <1>2, <2>2, <2>3
  <2>5. Slot(c, n) = env[i].val
    BY <1>4, <2>1, <2>2, SlotHead
  <2>6. Hax(a, us[i], n) = RecHax(b, Pair(Slot(c, n), us[i]), n)
    <3>1. Slot(a, n) # Crash
      BY <1>7, <2>2
    <3>2. PICK e : e = a + 1
      OBVIOUS
    <3>3. a > 1 /\ a % 2 = 1 /\ a \div 2 = b /\ c = a - 1
      BY <2>2
    <3>4. PICK v : v = us[i]
      OBVIOUS
    <3>5. Hax(a, v, n) = RecHax(b, Pair(Slot(c, n), v), n)
      BY <3>1, <3>2, <3>3, HaxUnfolds
    <3> QED BY <3>4, <3>5
  <2>7. Pair(Slot(c, n), us[i]) = us[h]
    <3>1. us[i] # Crash
      BY <1>3, <1>4, StackedNouns
    <3>2. us[i - 1] = Cell(env[i].val, us[i])
      BY <2>1 DEF Stacked
    <3>3. env[i].val # Crash
      BY <2>1, BindingParts, DatumFacts
    <3> QED BY <2>2, <2>5, <3>1, <3>2, <3>3 DEF Pair
  <2>8. RecHax(b, us[h], n) = Hax(b, us[h], n)
    BY <2>2 DEF Tied
  <2> QED BY <1>3, <2>2, <2>4, <2>6, <2>7, <2>8
<1> QED BY <1>5, <1>6

\* An edit with what failed fails.
LEMMA HaxCrash ==
  ASSUME Tied, NEW env, Len(env) \in Nat, NEW n, NEW ns, OnSpine(ns, env, n),
         NEW k \in 0..Len(env)
  PROVE  Hax(TailAt(k), Crash, n) = Crash
<1> DEFINE Bad == {i \in 0..k : Hax(TailAt(i), Crash, n) # Crash}
<1>1. SUFFICES ASSUME Bad # {} PROVE FALSE
  OBVIOUS
<1>2. PICK i \in Bad : \A m \in Bad : i <= m
  <2>1. Bad \in SUBSET Nat
    OBVIOUS
  <2> HIDE DEF Bad
  <2> QED BY <1>1, <2>1, LeastNat
<1>3. i \in 0..k /\ i \in 0..Len(env) /\ Hax(TailAt(i), Crash, n) # Crash
  BY <1>2
<1>4. CASE i = 0
  <2>1. TailAt(0) = 1
    BY AxesOnSpine
  <2>2. Hax(1, Crash, n) = Crash
    BY DEF Hax
  <2> QED BY <1>3, <1>4, <2>1, <2>2
<1>5. CASE i # 0
  <2>1. i \in Nat \ {0}
    BY <1>3, <1>5
  <2>2. PICK h, c, b, a \in Nat :
          /\ h = i - 1 /\ c = HeadAt(i) /\ b = TailAt(h) /\ a = TailAt(i)
          /\ c > 1 /\ c % 2 = 0 /\ c \div 2 = b /\ c + 1 = a
          /\ a > 1 /\ a % 2 = 1 /\ a \div 2 = b /\ a - 1 = c
    BY <2>1, SpineStep
  <2>3. h \in 0..k /\ ~(i <= h)
    BY <1>3, <2>1, <2>2
  <2>4. Hax(b, Crash, n) = Crash
    BY <1>2, <2>2, <2>3
  <2>5. CASE Slot(a, n) = Crash
    BY <1>3, <2>2, <2>5 DEF Hax
  <2>6. CASE Slot(a, n) # Crash
    <3>1. Hax(a, Crash, n) = RecHax(b, Pair(Slot(c, n), Crash), n)
      <4>1. PICK e : e = a + 1
        OBVIOUS
      <4>2. a > 1 /\ a % 2 = 1 /\ a \div 2 = b /\ c = a - 1
        BY <2>2
      <4> QED BY <2>6, <4>1, <4>2, HaxUnfolds
    <3>2. Pair(Slot(c, n), Crash) = Crash
      BY DEF Pair
    <3>3. RecHax(b, Crash, n) = Hax(b, Crash, n)
      BY <2>2 DEF Tied
    <3> QED BY <1>3, <2>2, <2>4, <3>1, <3>2, <3>3
  <2> QED BY <2>5, <2>6
<1> QED BY <1>4, <1>5

\* Around any noun there is one with the first k values in front of it.
LEMMA Rebuild ==
  ASSUME NEW env, NEW k \in Nat, NEW w
  PROVE  \E us : us[k] = w /\ Stacked(us, env, k)
<1> DEFINE Around(us, i, u) == us[i] = u /\ Stacked(us, env, i)
           Bad == {i \in Nat : ~(\A u : \E us : Around(us, i, u))}
<1>1. SUFFICES Bad = {}
  <2>1. ASSUME Bad = {} PROVE \E us : Around(us, k, w)
    <3> HIDE DEF Around
    <3> QED BY <2>1
  <2> QED BY <2>1
<1>2. SUFFICES ASSUME Bad # {} PROVE FALSE
  OBVIOUS
<1>3. PICK i \in Bad : \A m \in Bad : i <= m
  <2>1. Bad \in SUBSET Nat
    OBVIOUS
  <2> HIDE DEF Bad
  <2> QED BY <1>2, <2>1, LeastNat
<1>4. PICK u : ~\E us : Around(us, i, u)
  <2> HIDE DEF Around
  <2> QED BY <1>3
<1>5. CASE i = 0
  <2> DEFINE us == [h \in 0..0 |-> u]
  <2>1. Around(us, 0, u)
    BY DEF Stacked
  <2> HIDE DEF Around, us
  <2> QED BY <1>4, <1>5, <2>1
<1>6. CASE i # 0
  <2>1. PICK h \in Nat : h = i - 1 /\ ~(i <= h)
    <3>1. i - 1 \in Nat /\ ~(i <= i - 1)
      BY <1>3, <1>6
    <3> QED BY <3>1
  <2>2. PICK us : Around(us, h, Cell(env[i].val, u))
    <3>1. h \notin Bad
      <4> HIDE DEF Bad
      <4> QED BY <1>3, <2>1
    <3> HIDE DEF Around
    <3> QED BY <3>1
  <2> DEFINE vs == [m \in 0..i |-> IF m = i THEN u ELSE us[m]]
  <2>3. vs[i] = u
    BY <1>3
  <2>4. ASSUME NEW m \in 1..i PROVE vs[m - 1] = Cell(env[m].val, vs[m])
    <3>1. CASE m = i
      <4>1. m - 1 \in 0..i /\ m - 1 # i /\ m - 1 = h
        BY <1>3, <2>1, <3>1
      <4>2. vs[m - 1] = us[h]
        BY <4>1
      <4> HIDE DEF vs
      <4> QED BY <2>2, <2>3, <3>1, <4>2
    <3>2. CASE m # i
      <4>1. m - 1 \in 0..i /\ m - 1 # i /\ m \in 0..i /\ m \in 1..h
        BY <1>3, <2>1, <3>2
      <4>2. vs[m - 1] = us[m - 1] /\ vs[m] = us[m]
        BY <3>2, <4>1
      <4> HIDE DEF vs
      <4> QED BY <2>2, <4>1, <4>2 DEF Stacked
    <3> QED BY <3>1, <3>2
  <2>5. Around(vs, i, u)
    <3> HIDE DEF vs
    <3> QED BY <2>3, <2>4 DEF Stacked
  <2> HIDE DEF Around, vs
  <2> QED BY <1>4, <2>5
<1> QED BY <1>5, <1>6

\* The latest binding of a name, in its environment.
LEMMA LatestBinding ==
  ASSUME NEW types \in Bindings, NEW env, Binding(types, env), NEW x \in Name,
         NEW m, LatestOf(types, x, m)
  PROVE  Latest(env, x) = m /\ m \in 1..Len(env) /\ FieldPath(env[m].typ, x) = Some(<<>>)
<1>1. Len(env) = Len(types) /\ DOMAIN env = 1..Len(env) /\ Len(env) \in Nat
  BY DEF Binding
<1>2. \A k \in 1..Len(env) : env[k].typ = types[k]
  BY BindingParts
<1>3. \A k \in 1..Len(env) : Binds(env, k, x) <=> types[k].name = x
  BY <1>1, <1>2, FieldPathOfBindings DEF Binds
<1>4. m \in 1..Len(env) /\ types[m].name = x /\ \A i \in 1..(m - 1) : types[i].name # x
  BY <1>1 DEF LatestOf
<1> DEFINE First(k) == k \in DOMAIN env /\ Binds(env, k, x) /\ \A i \in 1..(k - 1) : ~Binds(env, i, x)
<1>5. First(m)
  <2>1. \A i \in 1..(m - 1) : i \in 1..Len(env)
    BY <1>1, <1>4
  <2> QED BY <1>1, <1>3, <1>4, <2>1
<1>6. ASSUME NEW k, First(k) PROVE k = m
  <2>1. k \in 1..Len(env) /\ m \in 1..Len(env) /\ Binds(env, k, x) /\ Binds(env, m, x)
    BY <1>1, <1>5, <1>6
  <2>2. ~(k < m)
    <3>1. k < m => k \in 1..(m - 1)
      BY <1>1, <2>1
    <3> QED BY <1>5, <2>1, <3>1
  <2>3. ~(m < k)
    <3>1. m < k => m \in 1..(k - 1)
      BY <1>1, <2>1
    <3> QED BY <1>6, <2>1, <3>1
  <2> QED BY <1>1, <2>1, <2>2, <2>3
<1>7. Latest(env, x) = CHOOSE k : First(k)
  BY DEF Latest
<1>8. Latest(env, x) = m
  <2> HIDE DEF First
  <2> QED BY <1>5, <1>6, <1>7
<1>9. FieldPath(env[m].typ, x) = Some(<<>>)
  BY <1>1, <1>2, <1>4, FieldPathOfBindings
<1> QED BY <1>4, <1>8, <1>9

LEMMA LookupName ==
  ASSUME Tied, NEW types \in Bindings, NEW env, Binding(types, env), NEW x \in Name,
         NEW m, LatestOf(types, x, m)
  PROVE  Lookup(env, <<NameL(x)>>) = env[m].val
<1> DEFINE limbs == <<NameL(x)>>
<1>1. limbs[1].of = x
  BY DEF NameL
<1>2. Latest(env, x) = m /\ FieldsPath(env[m].typ, limbs) = Some(<<>>)
  BY LatestBinding, FieldsPathOfName
<1>3. Some(<<>>) # Nothing /\ Some(<<>>)[1] = <<>>
  BY DEF Some, Nothing
<1>4. Part(env[m].val, <<>>) = env[m].val
  BY DEF Part
<1> HIDE DEF limbs
<1>5. Lookup(env, limbs) = env[m].val
  BY <1>1, <1>2, <1>3, <1>4 DEF Lookup
<1> QED BY <1>5 DEF limbs

LEMMA AssignName ==
  ASSUME Tied, NEW types \in Bindings, NEW env, Binding(types, env), NEW x \in Name,
         NEW m, LatestOf(types, x, m), NEW v
  PROVE  Assign(env, <<NameL(x)>>, v) = [env EXCEPT ![m].val = v]
<1> DEFINE limbs == <<NameL(x)>>
<1>1. limbs[1].of = x
  BY DEF NameL
<1>2. Latest(env, x) = m /\ FieldsPath(env[m].typ, limbs) = Some(<<>>)
  BY LatestBinding, FieldsPathOfName
<1>3. Some(<<>>)[1] = <<>>
  BY DEF Some
<1>4. \A u : WithPart(u, <<>>, v) = v
  BY DEF WithPart
<1> HIDE DEF limbs
<1>5. Assign(env, limbs, v) = [env EXCEPT ![m].val = v]
  BY <1>1, <1>2, <1>3, <1>4 DEF Assign
<1> QED BY <1>5 DEF limbs

\* The value at a place is assigned.
LEMMA HoldsEdited ==
  ASSUME Tied, NEW types, NEW env, NEW n, Holds(types, env, n),
         NEW m \in 1..Len(env), NEW v, Datum(v)
  PROVE  Holds(types, [env EXCEPT ![m].val = v], Hax(HeadAt(m), v, n))
<1> DEFINE later == [env EXCEPT ![m].val = v]
           l == Len(env)
<1>1. PICK ns : OnSpine(ns, env, n)
  BY DEF Holds
<1>2. PICK S : env \in Seq(S)
  BY DEF Holds, Binding
<1>3. l \in Nat /\ Len(types) = l /\ DOMAIN env = 1..l /\ m \in Nat \ {0}
  BY <1>2 DEF Holds, Binding
<1>4. \A k \in 1..l : env[k].typ = types[k] /\ Datum(env[k].val)
  BY BindingParts DEF Holds
<1>5. /\ later \in Seq(S \cup {[typ |-> types[m], val |-> v]}) /\ Len(later) = l
      /\ \A k \in 1..l : later[k] = IF k = m THEN [typ |-> types[m], val |-> v] ELSE env[k]
  <2> DEFINE b == [typ |-> types[m], val |-> v]
  <2>1. [env[m] EXCEPT !.val = v] = b
    <3>1. PICK u : env[m] = [typ |-> types[m], val |-> u]
      BY DEF Holds, Binding
    <3>2. [[typ |-> types[m], val |-> u] EXCEPT !.val = v] = b
      OBVIOUS
    <3> QED BY <3>1, <3>2
  <2>2. later = [env EXCEPT ![m] = b]
    BY <2>1
  <2>3. env \in Seq(S \cup {b})
    BY <1>2
  <2> HIDE DEF b, later
  <2>4. later \in Seq(S \cup {b}) /\ Len(later) = l
        /\ \A k \in 1..l : later[k] = IF k = m THEN b ELSE env[k]
    BY <1>3, <2>2, <2>3
  <2> QED BY <2>4 DEF b
<1> HIDE DEF later
<1>6. Binding(types, later)
  <2>1. ASSUME NEW k \in 1..l
        PROVE  \E u : later[k] = [typ |-> types[k], val |-> u] /\ Datum(u)
    <3>1. CASE k = m
      BY <1>5, <3>1
    <3>2. CASE k # m
      BY <1>5, <3>2 DEF Holds, Binding
    <3> QED BY <3>1, <3>2
  <2> QED BY <1>3, <1>5, <2>1 DEF Binding
<1>7. PICK h, a, b, c \in Nat :
        /\ h = m - 1 /\ a = HeadAt(m) /\ b = TailAt(h) /\ c = TailAt(m)
        /\ a > 1 /\ a % 2 = 0 /\ a \div 2 = b /\ a + 1 = c
        /\ c > 1 /\ c % 2 = 1 /\ c \div 2 = b /\ c - 1 = a
  BY <1>3, SpineStep
<1>8. h \in 0..l /\ m \in 0..l
  BY <1>3, <1>7
<1> DEFINE w == Cell(v, ns[m])
<1>9. PICK us : us[h] = w /\ Stacked(us, env, h)
  <2> HIDE DEF w
  <2> QED BY <1>7, Rebuild
<1>10. Hax(a, v, n) = us[0]
  <2>1. Slot(a, n) = env[m].val /\ Slot(c, n) = ns[m] /\ ns[m] # Crash
    <3>1. Slot(HeadAt(m), n) = env[m].val
      BY <1>1, <1>3, SlotHead
    <3>2. Slot(TailAt(m), n) = ns[m] /\ ns[m] # Crash
      BY <1>1, <1>3, <1>8, SlotTail, SpineNouns
    <3> QED BY <1>7, <3>1, <3>2
  <2>2. \A i \in 1..l : env[i].val # Crash
    BY <1>4, DatumFacts
  <2>3. Hax(a, v, n) = RecHax(b, Pair(v, Slot(c, n)), n)
    <3>1. Slot(a, n) # Crash
      BY <2>1, <2>2
    <3>2. PICK d : d = a - 1
      OBVIOUS
    <3>3. a > 1 /\ a % 2 = 0 /\ a \div 2 = b /\ c = a + 1
      BY <1>7
    <3> QED BY <3>1, <3>2, <3>3, HaxUnfolds
  <2>4. Pair(v, Slot(c, n)) = w
    <3>1. v # Crash
      BY DatumFacts
    <3> QED BY <2>1, <3>1 DEF Pair
  <2>5. us[h] # Crash
    BY <1>9, CellParts
  <2> HIDE DEF w
  <2>6. Hax(TailAt(h), us[h], n) = us[0]
    <3>1. Binding(types, env)
      BY DEF Holds
    <3> QED BY <1>1, <1>8, <1>9, <2>5, <3>1, HaxTail
  <2>7. RecHax(b, w, n) = Hax(b, w, n)
    BY <1>7 DEF Tied
  <2> QED BY <1>7, <1>9, <2>3, <2>4, <2>6, <2>7
<1> DEFINE vs == [i \in 0..l |-> IF i < m THEN us[i] ELSE ns[i]]
<1>11. OnSpine(vs, later, us[0])
  <2>1. vs[0] = us[0] /\ vs[l] = ns[l] /\ ns[l] = Atom(0)
    BY <1>1, <1>3 DEF OnSpine
  <2>2. ASSUME NEW k \in 1..l PROVE vs[k - 1] = Cell(later[k].val, vs[k])
    <3>1. k \in 0..l /\ k - 1 \in 0..l /\ k - 1 \in Nat
      BY <1>3
    <3>2. vs[k] = (IF k < m THEN us[k] ELSE ns[k]) /\ vs[k - 1] = (IF k - 1 < m THEN us[k - 1] ELSE ns[k - 1])
      BY <3>1
    <3> HIDE DEF vs
    <3>3. CASE k < m
      <4>1. k \in 1..h /\ k - 1 < m /\ k # m
        BY <1>3, <1>7, <3>3
      <4>2. vs[k] = us[k] /\ vs[k - 1] = us[k - 1] /\ later[k] = env[k]
        BY <1>5, <3>2, <3>3, <4>1
      <4> QED BY <1>9, <4>1, <4>2 DEF Stacked
    <3>4. CASE k = m
      <4>1. k - 1 < m /\ ~(k < m) /\ k - 1 = h
        BY <1>3, <1>7, <3>4
      <4>2. vs[k] = ns[k] /\ vs[k - 1] = us[h] /\ later[k].val = v
        BY <1>5, <3>2, <3>4, <4>1
      <4> QED BY <1>9, <3>4, <4>2
    <3>5. CASE m < k
      <4>1. ~(k - 1 < m) /\ ~(k < m) /\ k # m
        BY <1>3, <3>1, <3>5
      <4>2. vs[k] = ns[k] /\ vs[k - 1] = ns[k - 1] /\ later[k] = env[k]
        BY <1>5, <3>2, <4>1
      <4> QED BY <1>1, <4>2 DEF OnSpine
    <3> QED BY <1>3, <3>3, <3>4, <3>5
  <2> HIDE DEF vs
  <2> QED BY <1>5, <2>1, <2>2 DEF OnSpine
<1>12. Holds(types, later, Hax(HeadAt(m), v, n))
  BY <1>6, <1>7, <1>10, <1>11 DEF Holds
<1> QED BY <1>12 DEF later

\* An assignment of what failed fails.
LEMMA EditedWithCrash ==
  ASSUME Tied, NEW types, NEW env, NEW n, Holds(types, env, n), NEW m \in 1..Len(env)
  PROVE  Hax(HeadAt(m), Crash, n) = Crash
<1>1. PICK ns : OnSpine(ns, env, n)
  BY DEF Holds
<1>2. Len(env) \in Nat /\ m \in Nat \ {0}
  BY DEF Holds, Binding
<1>3. PICK h, a, b, c \in Nat :
        /\ h = m - 1 /\ a = HeadAt(m) /\ b = TailAt(h) /\ c = TailAt(m)
        /\ a > 1 /\ a % 2 = 0 /\ a \div 2 = b /\ a + 1 = c
        /\ c > 1 /\ c % 2 = 1 /\ c \div 2 = b /\ c - 1 = a
  BY <1>2, SpineStep
<1>4. h \in 0..Len(env)
  BY <1>2, <1>3
<1>5. Hax(b, Crash, n) = Crash
  BY <1>1, <1>2, <1>3, <1>4, HaxCrash
<1>6. CASE Slot(a, n) = Crash
  BY <1>3, <1>6 DEF Hax
<1>7. CASE Slot(a, n) # Crash
  <2>1. Hax(a, Crash, n) = RecHax(b, Pair(Crash, Slot(c, n)), n)
    <3>1. PICK d : d = a - 1
      OBVIOUS
    <3>2. a > 1 /\ a % 2 = 0 /\ a \div 2 = b /\ c = a + 1
      BY <1>3
    <3> QED BY <1>7, <3>1, <3>2, HaxUnfolds
  <2>2. Pair(Crash, Slot(c, n)) = Crash
    BY DEF Pair
  <2>3. RecHax(b, Crash, n) = Hax(b, Crash, n)
    BY <1>3 DEF Tied
  <2> QED BY <1>3, <1>5, <2>1, <2>2, <2>3
<1> QED BY <1>6, <1>7
-----------------------------------------------------------------------------
(* The code of an expression computes what the expression means.           *)

LEMMA MeansOfForms ==
  ASSUME NEW j, NEW env, NEW fuel
  PROVE  LET m(e) == RecMeans(e, env, fuel)
             choose(t, e) == DataOnly(m(j.cond), IF m(j.cond) = True THEN m(t)
                                                 ELSE IF m(j.cond) = False THEN e ELSE Crash)
         IN  /\ j.j = "atom" => Means(j, env, fuel) = Atom(j.n)
             /\ j.j = "crash" => Means(j, env, fuel) = Crash
             /\ j.j = "limb" => Means(j, env, fuel) = MeansLimb(j.limbs, env, fuel)
             /\ j.j = "cell" => Means(j, env, fuel) = Strict(m(j.p), Strict(m(j.q), Cell(m(j.p), m(j.q))))
             /\ j.j = "let" => Means(j, env, fuel) =
                                 Strict(m(j.val), RecMeans(j.next, Bind(j.typ, m(j.val), env), fuel))
             /\ j.j = "edit" => Means(j, env, fuel) =
                                  Strict(m(j.val), RecMeans(j.next, Assign(env, j.limb, m(j.val)), fuel))
             /\ j.j = "increment" =>
                  Means(j, env, fuel) =
                    Strict(m(j.val), IF m(j.val).kind = "atom" THEN Atom(m(j.val).n + 1) ELSE Crash)
             /\ j.j = "cell_check" =>
                  Means(j, env, fuel) = Strict(m(j.val), Loobean(m(j.val).kind # "atom"))
             /\ j.j = "eq" =>
                  Means(j, env, fuel) = DataOnly(m(j.a), DataOnly(m(j.b), Loobean(m(j.a) = m(j.b))))
             /\ j.j = "ne" =>
                  Means(j, env, fuel) = DataOnly(m(j.a), DataOnly(m(j.b), Loobean(~(m(j.a) = m(j.b)))))
             /\ j.j = "if" => Means(j, env, fuel) = choose(j.then, m(j.after))
             /\ j.j = "assert" => Means(j, env, fuel) = choose(j.then, Crash)
             /\ j.j = "print" => Means(j, env, fuel) = m(j.next)
<1>1. CASE j.j = "atom"
  BY <1>1 DEF Means
<1>2. CASE j.j = "crash"
  BY <1>2 DEF Means
<1>3. CASE j.j = "limb"
  BY <1>3 DEF Means
<1>4. CASE j.j = "cell"
  BY <1>4 DEF Means
<1>5. CASE j.j = "let"
  BY <1>5 DEF Means
<1>6. CASE j.j = "edit"
  BY <1>6 DEF Means
<1>7. CASE j.j = "increment"
  BY <1>7 DEF Means
<1>8. CASE j.j = "cell_check"
  BY <1>8 DEF Means
<1>9. CASE j.j = "eq"
  BY <1>9 DEF Means
<1>10. CASE j.j = "ne"
  BY <1>10 DEF Means
<1>11. CASE j.j = "if"
  BY <1>11 DEF Means
<1>12. CASE j.j = "assert"
  BY <1>12 DEF Means
<1>13. CASE j.j = "print"
  BY <1>13 DEF Means
<1> QED BY <1>1, <1>2, <1>3, <1>4, <1>5, <1>6, <1>7, <1>8, <1>9, <1>10, <1>11, <1>12, <1>13

\* What a formula came to, and what it should have.
Same(r, v) == r = v /\ (v = Crash \/ Datum(v))

LEMMA ValueFacts ==
  ASSUME Tied
  PROVE  /\ \A v : Strict(Crash, v) = Crash /\ DataOnly(Crash, v) = Crash
         /\ \A u, v : Datum(u) => Strict(u, v) = v /\ DataOnly(u, v) = v
         /\ \A p : Pair(p, Crash) = Crash /\ Pair(Crash, p) = Crash
         /\ \A p, q : Datum(p) /\ Datum(q) => Pair(p, q) = Cell(p, q) /\ Pair(p, q) # Crash
         /\ Datum(True) /\ Datum(False) /\ True # False
         /\ \A b \in BOOLEAN : Loobean(b) = (IF b THEN True ELSE False) /\ Datum(Loobean(b))
         /\ \A v : Datum(v) => (IsCell(v) <=> v.kind # "atom") /\ (IsAtom(v) <=> v.kind = "atom")
         /\ ~IsAtom(Crash)
<1>1. ASSUME NEW v PROVE Strict(Crash, v) = Crash /\ DataOnly(Crash, v) = Crash
  BY DEF Strict, DataOnly, IsValue, Crash
<1>2. ASSUME NEW u, NEW v, Datum(u) PROVE Strict(u, v) = v /\ DataOnly(u, v) = v
  BY <1>2 DEF Strict, DataOnly, IsValue, Datum
<1>3. ASSUME NEW p PROVE Pair(p, Crash) = Crash /\ Pair(Crash, p) = Crash
  BY DEF Pair
<1>4. ASSUME NEW p, NEW q, Datum(p), Datum(q) PROVE Pair(p, q) = Cell(p, q) /\ Pair(p, q) # Crash
  BY <1>4, DatumFacts, CellParts DEF Pair
<1>5. Datum(True) /\ Datum(False) /\ True # False
  <2>1. 0 \in Nat /\ 1 \in Nat /\ 0 # 1
    OBVIOUS
  <2> QED BY <2>1, DatumFacts, AtomParts DEF True, False
<1>6. ASSUME NEW b \in BOOLEAN PROVE Loobean(b) = (IF b THEN True ELSE False) /\ Datum(Loobean(b))
  <2>1. Loobean(b) = IF b THEN True ELSE False
    BY DEF Loobean
  <2> QED BY <1>5, <2>1
<1>7. ASSUME NEW v, Datum(v)
      PROVE  (IsCell(v) <=> v.kind # "atom") /\ (IsAtom(v) <=> v.kind = "atom")
  BY <1>7 DEF Datum, IsCell, IsAtom
<1>8. ~IsAtom(Crash)
  BY DEF IsAtom, Crash
<1> QED BY <1>1, <1>2, <1>3, <1>4, <1>5, <1>6, <1>7, <1>8

\* A place in a program: the type of its subject, its environment and the subject.
Place(types, t, env, n) == types \in Bindings /\ Describes(types, t) /\ Holds(types, env, n)

\* Where j is closed, its code is a formula, and comes to what j means.
Runs(j) ==
  \A types, t, env, n : \A fuel \in Nat : \A again :
    Room(types, j) /\ Place(types, t, env, n) /\ Closed(j, types) =>
      /\ IsCell(Mint(j, t).nock)
      /\ Same(Tar(n, Mint(j, t).nock, fuel), Means(j, env, again))

\* A place for a part of it.
LEMMA PartRuns ==
  ASSUME Tied, NEW j \in Expr, NEW types, NEW t, NEW env, NEW n, NEW fuel \in Nat, NEW again,
         Room(types, j), Place(types, t, env, n),
         NEW e, Within(e, j), Runs(e), RecClosed(e, types)
  PROVE  /\ IsCell(RecMint(e, t).nock)
         /\ Same(RecTar(n, RecMint(e, t).nock, fuel), RecMeans(e, env, again))
<1>1. e \in Expr /\ Room(types, e)
  BY RoomWithin DEF Within
<1>2. /\ RecMint(e, t) = Mint(e, t) /\ RecMeans(e, env, again) = Means(e, env, again)
      /\ RecClosed(e, types) = Closed(e, types)
      /\ \A f : RecTar(n, f, fuel) = Tar(n, f, fuel)
  BY <1>1 DEF Tied
<1> QED BY <1>1, <1>2 DEF Runs

LEMMA PlaceNoun ==
  ASSUME NEW types, NEW t, NEW env, NEW n, Place(types, t, env, n)
  PROVE  n # Crash
BY SubjectNoun DEF Place

LEMMA RunsLeaf ==
  ASSUME Tied, NEW j \in Expr, (j.j = "atom" /\ j.n \in Nat) \/ j.j = "crash"
  PROVE  Runs(j)
<1> SUFFICES ASSUME NEW types, NEW t, NEW env, NEW n, NEW fuel \in Nat, NEW again,
                    Room(types, j), Place(types, t, env, n), Closed(j, types)
             PROVE  /\ IsCell(Mint(j, t).nock)
                    /\ Same(Tar(n, Mint(j, t).nock, fuel), Means(j, env, again))
  BY DEF Runs
<1>1. n # Crash
  BY PlaceNoun
<1>2. CASE j.j = "atom" /\ j.n \in Nat
  <2>1. Mint(j, t).nock = Constant(Atom(j.n)) /\ Means(j, env, again) = Atom(j.n)
    BY <1>2, MintOfForms, MeansOfForms, MintedParts
  <2>2. Tar(n, Constant(Atom(j.n)), fuel) = Atom(j.n) /\ IsCell(Constant(Atom(j.n)))
    BY <1>1, TarOfConstant, FormulasAreCells
  <2> QED BY <1>2, <2>1, <2>2, DatumFacts DEF Same
<1>3. CASE j.j = "crash"
  <2>1. Mint(j, t).nock = Axis(0) /\ Means(j, env, again) = Crash
    BY <1>3, MintOfForms, MeansOfForms, MintedParts
  <2>2. Tar(n, Axis(0), fuel) = Slot(0, n) /\ IsCell(Axis(0))
    BY <1>1, TarOfAxis, FormulasAreCells
  <2>3. Slot(0, n) = Crash
    BY DEF Slot
  <2> QED BY <2>1, <2>2, <2>3 DEF Same
<1> QED BY <1>2, <1>3

LEMMA RunsName ==
  ASSUME Tied, NEW j \in Expr, j.j = "limb", IsName(j.limbs)
  PROVE  Runs(j)
<1> SUFFICES ASSUME NEW types, NEW t, NEW env, NEW n, NEW fuel \in Nat, NEW again,
                    Room(types, j), Place(types, t, env, n), Closed(j, types)
             PROVE  /\ IsCell(Mint(j, t).nock)
                    /\ Same(Tar(n, Mint(j, t).nock, fuel), Means(j, env, again))
  BY DEF Runs
<1>1. PICK x \in Name : j.limbs = <<NameL(x)>>
  BY DEF IsName
<1>2. n # Crash /\ Fits(types) /\ types \in Bindings /\ Describes(types, t) /\ Holds(types, env, n)
  BY PlaceNoun, RoomFits DEF Place
<1>3. IsBound(types, x)
  BY <1>1, <1>2, ClosedName
<1>4. PICK m : LatestOf(types, x, m)
  BY <1>2, <1>3, LatestExists
<1>5. Mint(j, t).nock = Axis(HeadAt(m))
  BY <1>1, <1>2, <1>4, MintOfForms, CompiledName
<1>6. Binding(types, env) /\ m \in 1..Len(env)
  BY <1>2, <1>4, LatestBinding DEF Holds
<1> DEFINE v == env[m].val
<1>7. Datum(v)
  BY <1>6, BindingParts
<1>8. Lookup(env, <<NameL(x)>>) = v
  BY <1>2, <1>4, <1>6, LookupName
<1>9. Tar(n, Axis(HeadAt(m)), fuel) = v
  <2>1. PICK ns : OnSpine(ns, env, n)
    BY <1>2 DEF Holds
  <2>2. Len(env) \in Nat
    BY <1>6 DEF Binding
  <2>3. Slot(HeadAt(m), n) = v
    BY <1>6, <2>1, <2>2, SlotHead
  <2> QED BY <1>2, <2>3, TarOfAxis
<1>10. Means(j, env, again) = v
  <2>1. Means(j, env, again) = MeansLimb(j.limbs, env, again)
    BY MeansOfForms
  <2>2. j.limbs[1].sort = "name" /\ v.kind # "thunk"
    <3>1. <<NameL(x)>>[1].sort = "name"
      BY DEF NameL
    <3> QED BY <1>1, <1>7, <3>1 DEF Datum
  <2>3. Lookup(env, j.limbs) = v
    BY <1>1, <1>8
  <2> HIDE DEF v
  <2> QED BY <2>1, <2>2, <2>3 DEF MeansLimb
<1>11. IsCell(Axis(HeadAt(m)))
  BY FormulasAreCells
<1> QED BY <1>5, <1>7, <1>9, <1>10, <1>11 DEF Same

\* An operand that failed.
LEMMA FailedOperand ==
  ASSUME Tied, NEW u, NEW v, u = Crash \/ Datum(u), v = Crash \/ Datum(v), u = Crash \/ v = Crash
  PROVE  \A w : DataOnly(u, DataOnly(v, w)) = Crash
<1>1. CASE u = Crash
  BY <1>1, ValueFacts
<1>2. CASE Datum(u) /\ v = Crash
  BY <1>2, ValueFacts
<1> QED BY <1>1, <1>2

\* Comparing two of them.
LEMMA EqualValues ==
  ASSUME Tied, NEW p, NEW q, NEW u, NEW v, Same(p, u), Same(q, v)
  PROVE  Same(LET pair == Pair(p, q) IN IF pair = Crash THEN Crash ELSE Loobean(pair.p = pair.q),
              DataOnly(u, DataOnly(v, Loobean(u = v))))
<1>1. p = u /\ q = v /\ (u = Crash \/ Datum(u)) /\ (v = Crash \/ Datum(v))
  BY DEF Same
<1>2. CASE u = Crash \/ v = Crash
  <2>1. Pair(u, v) = Crash
    BY <1>2, ValueFacts
  <2>2. DataOnly(u, DataOnly(v, Loobean(u = v))) = Crash
    BY <1>1, <1>2, FailedOperand
  <2> QED BY <1>1, <2>1, <2>2 DEF Same
<1>3. CASE Datum(u) /\ Datum(v)
  <2>1. Pair(u, v) = Cell(u, v) /\ Pair(u, v) # Crash
    BY <1>3, ValueFacts
  <2>2. Cell(u, v).p = u /\ Cell(u, v).q = v
    BY DEF Cell
  <2>3. DataOnly(u, DataOnly(v, Loobean(u = v))) = Loobean(u = v) /\ Datum(Loobean(u = v))
    BY <1>3, ValueFacts
  <2> QED BY <1>1, <2>1, <2>2, <2>3 DEF Same
<1> QED BY <1>1, <1>2, <1>3

LEMMA RunsIncrement ==
  ASSUME Tied, NEW j \in Expr, j.j = "increment", Within(j.val, j), Runs(j.val)
  PROVE  Runs(j)
<1> SUFFICES ASSUME NEW types, NEW t, NEW env, NEW n, NEW fuel \in Nat, NEW again,
                    Room(types, j), Place(types, t, env, n), Closed(j, types)
             PROVE  /\ IsCell(Mint(j, t).nock)
                    /\ Same(Tar(n, Mint(j, t).nock, fuel), Means(j, env, again))
  BY DEF Runs
<1>1. n # Crash
  BY PlaceNoun
<1>2. RecClosed(j.val, types)
  BY ClosedForms
<1> DEFINE fval == RecMint(j.val, t).nock
           rval == RecTar(n, fval, fuel)
           vval == RecMeans(j.val, env, again)
<1>3. /\ IsCell(fval) /\ Same(rval, vval)
  BY <1>2, PartRuns
<1>4. Mint(j, t).nock = Increment(fval)
  BY MintOfForms, MintedParts
<1>5. Means(j, env, again) = Strict(vval, IF vval.kind = "atom" THEN Atom(vval.n + 1) ELSE Crash)
  BY MeansOfForms
<1>6. Tar(n, Increment(fval), fuel) = IF IsAtom(rval) THEN Atom(rval.n + 1) ELSE Crash
  BY <1>1, TarOfIncrement
<1>7. IsCell(Increment(fval))
  BY FormulasAreCells
<1> HIDE DEF fval, rval, vval
<1>8. CASE vval = Crash
  BY <1>3, <1>4, <1>5, <1>6, <1>7, <1>8, ValueFacts DEF Same
<1>9. CASE Datum(vval)
  <2>1. IsAtom(vval) <=> vval.kind = "atom"
    BY <1>9, ValueFacts
  <2>2. vval.kind = "atom" => Datum(Atom(vval.n + 1))
    <3>1. ASSUME vval.kind = "atom" PROVE vval.n + 1 \in Nat
      BY <1>9, <3>1, DatumFacts
    <3>2. PICK k : k = vval.n + 1
      OBVIOUS
    <3>3. vval.kind = "atom" => Datum(Atom(k))
      BY <3>1, <3>2, DatumFacts
    <3> QED BY <3>2, <3>3
  <2>3. Means(j, env, again) = IF vval.kind = "atom" THEN Atom(vval.n + 1) ELSE Crash
    BY <1>5, <1>9, ValueFacts
  <2> QED BY <1>3, <1>4, <1>6, <1>7, <2>1, <2>2, <2>3 DEF Same
<1> QED BY <1>3, <1>8, <1>9 DEF Same

LEMMA RunsCellCheck ==
  ASSUME Tied, NEW j \in Expr, j.j = "cell_check", Within(j.val, j), Runs(j.val)
  PROVE  Runs(j)
<1> SUFFICES ASSUME NEW types, NEW t, NEW env, NEW n, NEW fuel \in Nat, NEW again,
                    Room(types, j), Place(types, t, env, n), Closed(j, types)
             PROVE  /\ IsCell(Mint(j, t).nock)
                    /\ Same(Tar(n, Mint(j, t).nock, fuel), Means(j, env, again))
  BY DEF Runs
<1>1. n # Crash
  BY PlaceNoun
<1>2. RecClosed(j.val, types)
  BY ClosedForms
<1> DEFINE fval == RecMint(j.val, t).nock
           rval == RecTar(n, fval, fuel)
           vval == RecMeans(j.val, env, again)
<1>3. /\ IsCell(fval) /\ Same(rval, vval)
  BY <1>2, PartRuns
<1>4. Mint(j, t).nock = CellTest(fval)
  BY MintOfForms, MintedParts
<1>5. Means(j, env, again) = Strict(vval, Loobean(vval.kind # "atom"))
  BY MeansOfForms
<1>6. Tar(n, CellTest(fval), fuel) = IF rval = Crash THEN Crash ELSE Loobean(IsCell(rval))
  BY <1>1, TarOfCellTest
<1>7. IsCell(CellTest(fval))
  BY FormulasAreCells
<1> HIDE DEF fval, rval, vval
<1>8. CASE vval = Crash
  BY <1>3, <1>4, <1>5, <1>6, <1>7, <1>8, ValueFacts DEF Same
<1>9. CASE Datum(vval)
  <2>1. (IsCell(vval) <=> vval.kind # "atom") /\ vval # Crash
    BY <1>9, ValueFacts, DatumFacts
  <2>2. Loobean(IsCell(vval)) = Loobean(vval.kind # "atom")
    BY <2>1 DEF Loobean
  <2>3. Means(j, env, again) = Loobean(vval.kind # "atom") /\ Datum(Loobean(vval.kind # "atom"))
    BY <1>5, <1>9, ValueFacts
  <2> QED BY <1>3, <1>4, <1>6, <1>7, <2>1, <2>2, <2>3 DEF Same
<1> QED BY <1>3, <1>8, <1>9 DEF Same

LEMMA RunsCell ==
  ASSUME Tied, NEW j \in Expr, j.j = "cell",
         Within(j.p, j), Within(j.q, j), Runs(j.p), Runs(j.q)
  PROVE  Runs(j)
<1> SUFFICES ASSUME NEW types, NEW t, NEW env, NEW n, NEW fuel \in Nat, NEW again,
                    Room(types, j), Place(types, t, env, n), Closed(j, types)
             PROVE  /\ IsCell(Mint(j, t).nock)
                    /\ Same(Tar(n, Mint(j, t).nock, fuel), Means(j, env, again))
  BY DEF Runs
<1>1. n # Crash
  BY PlaceNoun
<1>2. RecClosed(j.p, types) /\ RecClosed(j.q, types)
  BY ClosedForms
<1> DEFINE fp == RecMint(j.p, t).nock
           rp == RecTar(n, fp, fuel)
           vp == RecMeans(j.p, env, again)
           fq == RecMint(j.q, t).nock
           rq == RecTar(n, fq, fuel)
           vq == RecMeans(j.q, env, again)
<1>3. /\ IsCell(fp) /\ Same(rp, vp)
      /\ IsCell(fq) /\ Same(rq, vq)
  BY <1>2, PartRuns
<1>4. Mint(j, t).nock = Autocons(fp, fq)
  BY MintOfForms, MintedParts
<1>5. Means(j, env, again) = Strict(vp, Strict(vq, Cell(vp, vq)))
  BY MeansOfForms
<1>6. Tar(n, Autocons(fp, fq), fuel) = Pair(rp, rq)
  BY <1>1, <1>3, TarOfAutocons
<1>7. IsCell(Autocons(fp, fq))
  BY FormulasAreCells
<1> HIDE DEF fp, rp, vp, fq, rq, vq
<1>8. Same(Pair(vp, vq), Strict(vp, Strict(vq, Cell(vp, vq))))
  <2>1. CASE vp = Crash \/ vq = Crash
    <3>1. Pair(vp, vq) = Crash
      BY <2>1, ValueFacts
    <3>2. Strict(vp, Strict(vq, Cell(vp, vq))) = Crash
      <4>1. CASE vp = Crash
        BY <4>1, ValueFacts
      <4>2. CASE vp # Crash /\ vq = Crash
        <5>1. Datum(vp)
          BY <1>3, <4>2 DEF Same
        <5> QED BY <4>2, <5>1, ValueFacts
      <4> QED BY <2>1, <4>1, <4>2
    <3> QED BY <3>1, <3>2 DEF Same
  <2>2. CASE Datum(vp) /\ Datum(vq)
    BY <2>2, ValueFacts, DatumFacts DEF Same
  <2> QED BY <1>3, <2>1, <2>2 DEF Same
<1> QED BY <1>3, <1>4, <1>5, <1>6, <1>7, <1>8 DEF Same

LEMMA RunsEqual ==
  ASSUME Tied, NEW j \in Expr, j.j = "eq",
         Within(j.a, j), Within(j.b, j), Runs(j.a), Runs(j.b)
  PROVE  Runs(j)
<1> SUFFICES ASSUME NEW types, NEW t, NEW env, NEW n, NEW fuel \in Nat, NEW again,
                    Room(types, j), Place(types, t, env, n), Closed(j, types)
             PROVE  /\ IsCell(Mint(j, t).nock)
                    /\ Same(Tar(n, Mint(j, t).nock, fuel), Means(j, env, again))
  BY DEF Runs
<1>1. n # Crash
  BY PlaceNoun
<1>2. RecClosed(j.a, types) /\ RecClosed(j.b, types)
  BY ClosedForms
<1> DEFINE fa == RecMint(j.a, t).nock
           ra == RecTar(n, fa, fuel)
           va == RecMeans(j.a, env, again)
           fb == RecMint(j.b, t).nock
           rb == RecTar(n, fb, fuel)
           vb == RecMeans(j.b, env, again)
<1>3. /\ IsCell(fa) /\ Same(ra, va)
      /\ IsCell(fb) /\ Same(rb, vb)
  BY <1>2, PartRuns
<1>4. Mint(j, t).nock = Equals(fa, fb)
  BY MintOfForms, MintedParts
<1>5. Means(j, env, again) = DataOnly(va, DataOnly(vb, Loobean(va = vb)))
  BY MeansOfForms
<1>6. Tar(n, Equals(fa, fb), fuel) = LET pair == Pair(ra, rb)
                                     IN  IF pair = Crash THEN Crash ELSE Loobean(pair.p = pair.q)
  BY <1>1, TarOfEquals
<1>7. IsCell(Equals(fa, fb))
  BY FormulasAreCells
<1> HIDE DEF fa, ra, va, fb, rb, vb
<1>8. Same(LET pair == Pair(ra, rb) IN IF pair = Crash THEN Crash ELSE Loobean(pair.p = pair.q),
           DataOnly(va, DataOnly(vb, Loobean(va = vb))))
  BY <1>3, EqualValues
<1> QED BY <1>4, <1>5, <1>6, <1>7, <1>8

LEMMA RunsUnequal ==
  ASSUME Tied, NEW j \in Expr, j.j = "ne",
         Within(j.a, j), Within(j.b, j), Runs(j.a), Runs(j.b)
  PROVE  Runs(j)
<1> SUFFICES ASSUME NEW types, NEW t, NEW env, NEW n, NEW fuel \in Nat, NEW again,
                    Room(types, j), Place(types, t, env, n), Closed(j, types)
             PROVE  /\ IsCell(Mint(j, t).nock)
                    /\ Same(Tar(n, Mint(j, t).nock, fuel), Means(j, env, again))
  BY DEF Runs
<1>1. n # Crash
  BY PlaceNoun
<1>2. RecClosed(j.a, types) /\ RecClosed(j.b, types)
  BY ClosedForms
<1> DEFINE fa == RecMint(j.a, t).nock
           ra == RecTar(n, fa, fuel)
           va == RecMeans(j.a, env, again)
           fb == RecMint(j.b, t).nock
           rb == RecTar(n, fb, fuel)
           vb == RecMeans(j.b, env, again)
<1>3. /\ IsCell(fa) /\ Same(ra, va)
      /\ IsCell(fb) /\ Same(rb, vb)
  BY <1>2, PartRuns
<1> DEFINE same == Equals(fa, fb)
           r == LET pair == Pair(ra, rb)
                IN  IF pair = Crash THEN Crash ELSE Loobean(pair.p = pair.q)
<1>4. Mint(j, t).nock = IfThenElse(same, Constant(False), Constant(True))
  BY MintOfForms, MintedParts
<1>5. Means(j, env, again) = DataOnly(va, DataOnly(vb, Loobean(~(va = vb))))
  BY MeansOfForms
<1>6. RecTar(n, same, fuel) = r
  <2>1. Tar(n, same, fuel) = r
    BY <1>1, TarOfEquals
  <2> HIDE DEF same, r
  <2> QED BY <2>1 DEF Tied
<1>7. /\ RecTar(n, Constant(False), fuel) = False
      /\ RecTar(n, Constant(True), fuel) = True
  BY <1>1, TarOfConstant DEF Tied
<1>8. Tar(n, IfThenElse(same, Constant(False), Constant(True)), fuel) =
        IF r = True THEN False ELSE IF r = False THEN True ELSE Crash
  <2> HIDE DEF same, r
  <2> QED BY <1>1, <1>6, <1>7, TarOfIfThenElse
<1>9. IsCell(IfThenElse(same, Constant(False), Constant(True)))
  BY FormulasAreCells
<1> HIDE DEF fa, ra, va, fb, rb, vb
<1>10. Same(r, DataOnly(va, DataOnly(vb, Loobean(va = vb))))
  BY <1>3, EqualValues
<1>11. CASE va = Crash \/ vb = Crash
  <2>1. /\ DataOnly(va, DataOnly(vb, Loobean(va = vb))) = Crash
        /\ DataOnly(va, DataOnly(vb, Loobean(~(va = vb)))) = Crash
    BY <1>3, <1>11, FailedOperand DEF Same
  <2>2. r = Crash /\ Crash # True /\ Crash # False
    <3> HIDE DEF r
    <3> QED BY <1>10, <2>1, ValueFacts, DatumFacts DEF Same
  <2> HIDE DEF r, same
  <2> QED BY <1>4, <1>5, <1>8, <1>9, <2>1, <2>2 DEF Same
<1>12. CASE Datum(va) /\ Datum(vb)
  <2>1. /\ DataOnly(va, DataOnly(vb, Loobean(va = vb))) = Loobean(va = vb)
        /\ DataOnly(va, DataOnly(vb, Loobean(~(va = vb)))) = Loobean(~(va = vb))
    BY <1>12, ValueFacts
  <2>2. r = IF va = vb THEN True ELSE False
    <3> HIDE DEF r
    <3> QED BY <1>10, <2>1 DEF Same, Loobean
  <2>3. Means(j, env, again) = IF va = vb THEN False ELSE True
    BY <1>5, <2>1 DEF Loobean
  <2> HIDE DEF r, same
  <2> QED BY <1>4, <1>8, <1>9, <2>2, <2>3, ValueFacts DEF Same
<1> QED BY <1>3, <1>11, <1>12 DEF Same

\* A condition that failed is neither.
LEMMA ChosenValues ==
  ASSUME Tied, NEW c, NEW p, NEW q, NEW r, NEW u, NEW v, Same(c, r), Same(p, u), Same(q, v)
  PROVE  Same(IF c = True THEN p ELSE IF c = False THEN q ELSE Crash,
              DataOnly(r, IF r = True THEN u ELSE IF r = False THEN v ELSE Crash))
<1>1. c = r /\ p = u /\ q = v
  BY DEF Same
<1>2. CASE r = Crash
  <2>1. Crash # True /\ Crash # False
    BY ValueFacts, DatumFacts
  <2>2. DataOnly(Crash, Crash) = Crash
    BY ValueFacts
  <2> QED BY <1>1, <1>2, <2>1, <2>2 DEF Same
<1>3. CASE Datum(r)
  <2> DEFINE w == IF r = True THEN u ELSE IF r = False THEN v ELSE Crash
  <2>1. DataOnly(r, w) = w
    BY <1>3, ValueFacts
  <2>2. w = Crash \/ Datum(w)
    BY DEF Same
  <2> QED BY <1>1, <2>1, <2>2 DEF Same
<1> QED BY <1>2, <1>3 DEF Same

LEMMA RunsIf ==
  ASSUME Tied, NEW j \in Expr, j.j = "if",
         Within(j.cond, j), Within(j.then, j), Within(j.after, j),
         Runs(j.cond), Runs(j.then), Runs(j.after)
  PROVE  Runs(j)
<1> SUFFICES ASSUME NEW types, NEW t, NEW env, NEW n, NEW fuel \in Nat, NEW again,
                    Room(types, j), Place(types, t, env, n), Closed(j, types)
             PROVE  /\ IsCell(Mint(j, t).nock)
                    /\ Same(Tar(n, Mint(j, t).nock, fuel), Means(j, env, again))
  BY DEF Runs
<1>1. n # Crash
  BY PlaceNoun
<1>2. RecClosed(j.cond, types) /\ RecClosed(j.then, types) /\ RecClosed(j.after, types)
  BY ClosedForms
<1> DEFINE fcond == RecMint(j.cond, t).nock
           rcond == RecTar(n, fcond, fuel)
           vcond == RecMeans(j.cond, env, again)
           fthen == RecMint(j.then, t).nock
           rthen == RecTar(n, fthen, fuel)
           vthen == RecMeans(j.then, env, again)
           fafter == RecMint(j.after, t).nock
           rafter == RecTar(n, fafter, fuel)
           vafter == RecMeans(j.after, env, again)
<1>3. /\ IsCell(fcond) /\ Same(rcond, vcond)
      /\ IsCell(fthen) /\ Same(rthen, vthen)
      /\ IsCell(fafter) /\ Same(rafter, vafter)
  BY <1>2, PartRuns
<1>4. Mint(j, t).nock = IfThenElse(fcond, fthen, fafter)
  BY MintOfForms, MintedParts
<1>5. Means(j, env, again) =
        DataOnly(vcond, IF vcond = True THEN vthen ELSE IF vcond = False THEN vafter ELSE Crash)
  BY MeansOfForms
<1>6. Tar(n, IfThenElse(fcond, fthen, fafter), fuel) =
        IF rcond = True THEN rthen ELSE IF rcond = False THEN rafter ELSE Crash
  BY <1>1, TarOfIfThenElse
<1>7. IsCell(IfThenElse(fcond, fthen, fafter))
  BY FormulasAreCells
<1> HIDE DEF fcond, rcond, vcond, fthen, rthen, vthen, fafter, rafter, vafter
<1>8. Same(IF rcond = True THEN rthen ELSE IF rcond = False THEN rafter ELSE Crash,
           DataOnly(vcond, IF vcond = True THEN vthen ELSE IF vcond = False THEN vafter ELSE Crash))
  BY <1>3, ChosenValues
<1> QED BY <1>4, <1>5, <1>6, <1>7, <1>8

LEMMA RunsAssert ==
  ASSUME Tied, NEW j \in Expr, j.j = "assert",
         Within(j.cond, j), Within(j.then, j), Runs(j.cond), Runs(j.then)
  PROVE  Runs(j)
<1> SUFFICES ASSUME NEW types, NEW t, NEW env, NEW n, NEW fuel \in Nat, NEW again,
                    Room(types, j), Place(types, t, env, n), Closed(j, types)
             PROVE  /\ IsCell(Mint(j, t).nock)
                    /\ Same(Tar(n, Mint(j, t).nock, fuel), Means(j, env, again))
  BY DEF Runs
<1>1. n # Crash
  BY PlaceNoun
<1>2. RecClosed(j.cond, types) /\ RecClosed(j.then, types)
  BY ClosedForms
<1> DEFINE fcond == RecMint(j.cond, t).nock
           rcond == RecTar(n, fcond, fuel)
           vcond == RecMeans(j.cond, env, again)
           fthen == RecMint(j.then, t).nock
           rthen == RecTar(n, fthen, fuel)
           vthen == RecMeans(j.then, env, again)
<1>3. /\ IsCell(fcond) /\ Same(rcond, vcond)
      /\ IsCell(fthen) /\ Same(rthen, vthen)
  BY <1>2, PartRuns
<1> DEFINE failed == RecTar(n, Axis(0), fuel)
<1>4. Mint(j, t).nock = IfThenElse(fcond, fthen, Axis(0))
  BY MintOfForms, MintedParts
<1>5. Means(j, env, again) =
        DataOnly(vcond, IF vcond = True THEN vthen ELSE IF vcond = False THEN Crash ELSE Crash)
  BY MeansOfForms
<1>6. Tar(n, IfThenElse(fcond, fthen, Axis(0)), fuel) =
        IF rcond = True THEN rthen ELSE IF rcond = False THEN failed ELSE Crash
  BY <1>1, TarOfIfThenElse
<1>7. IsCell(IfThenElse(fcond, fthen, Axis(0)))
  BY FormulasAreCells
<1>8. Same(failed, Crash)
  <2>1. Tar(n, Axis(0), fuel) = Slot(0, n) /\ Slot(0, n) = Crash
    BY <1>1, TarOfAxis DEF Slot
  <2> QED BY <2>1 DEF Tied, Same
<1> HIDE DEF fcond, rcond, vcond, fthen, rthen, vthen, failed
<1>9. Same(IF rcond = True THEN rthen ELSE IF rcond = False THEN failed ELSE Crash,
           DataOnly(vcond, IF vcond = True THEN vthen ELSE IF vcond = False THEN Crash ELSE Crash))
  BY <1>3, <1>8, ChosenValues
<1> QED BY <1>4, <1>5, <1>6, <1>7, <1>9

LEMMA RunsPrint ==
  ASSUME Tied, NEW j \in Expr, j.j = "print",
         Within(j.body, j), Within(j.next, j), Runs(j.body), Runs(j.next)
  PROVE  Runs(j)
<1> SUFFICES ASSUME NEW types, NEW t, NEW env, NEW n, NEW fuel \in Nat, NEW again,
                    Room(types, j), Place(types, t, env, n), Closed(j, types)
             PROVE  /\ IsCell(Mint(j, t).nock)
                    /\ Same(Tar(n, Mint(j, t).nock, fuel), Means(j, env, again))
  BY DEF Runs
<1>1. n # Crash
  BY PlaceNoun
<1>2. RecClosed(j.body, types) /\ RecClosed(j.next, types)
  BY ClosedForms
<1> DEFINE fbody == RecMint(j.body, t).nock
           rbody == RecTar(n, fbody, fuel)
           vbody == RecMeans(j.body, env, again)
           fnext == RecMint(j.next, t).nock
           rnext == RecTar(n, fnext, fuel)
           vnext == RecMeans(j.next, env, again)
<1>3. /\ IsCell(fbody) /\ Same(rbody, vbody)
      /\ IsCell(fnext) /\ Same(rnext, vnext)
  BY <1>2, PartRuns
<1> DEFINE text == Autocons(Constant(Atom(0)), Constant(fbody))
<1>4. Mint(j, t).nock = Hint(Slog, text, fnext)
  BY MintOfForms, MintedParts
<1>5. Means(j, env, again) = vnext
  BY MeansOfForms
<1>6. Tar(n, Hint(Slog, text, fnext), fuel) = IF RecTar(n, text, fuel) = Crash THEN Crash ELSE rnext
  <2> HIDE DEF text
  <2> QED BY <1>1, TarOfHint
<1>7. IsCell(Hint(Slog, text, fnext))
  <2> HIDE DEF text
  <2> QED BY FormulasAreCells
<1>8. RecTar(n, text, fuel) # Crash
  <2>1. /\ RecTar(n, Constant(Atom(0)), fuel) = Atom(0)
        /\ RecTar(n, Constant(fbody), fuel) = fbody
    BY <1>1, TarOfConstant DEF Tied
  <2>2. Tar(n, text, fuel) = Pair(Atom(0), fbody)
    BY <1>1, <2>1, TarOfAutocons, FormulasAreCells
  <2>3. Atom(0) # Crash /\ fbody # Crash
    <3> HIDE DEF fbody
    <3> QED BY <1>3, AtomParts DEF IsCell, Crash
  <2> HIDE DEF text, fbody
  <2>4. Pair(Atom(0), fbody) = Cell(Atom(0), fbody)
    BY <2>3 DEF Pair
  <2>5. RecTar(n, text, fuel) = Tar(n, text, fuel)
    BY DEF Tied
  <2> QED BY <2>2, <2>4, <2>5, CellParts
<1> HIDE DEF text, fbody, fnext, rnext, vnext
<1> QED BY <1>3, <1>4, <1>5, <1>6, <1>7, <1>8

LEMMA RunsLet ==
  ASSUME Tied, NEW j \in Expr, j.j = "let", NEW x \in Name, j.typ = Named(NoneJ, x),
         Within(j.val, j), Within(j.next, j), Nest[j.next] < Nest[j], Runs(j.val), Runs(j.next)
  PROVE  Runs(j)
<1> SUFFICES ASSUME NEW types, NEW t, NEW env, NEW n, NEW fuel \in Nat, NEW again,
                    Room(types, j), Place(types, t, env, n), Closed(j, types)
             PROVE  /\ IsCell(Mint(j, t).nock)
                    /\ Same(Tar(n, Mint(j, t).nock, fuel), Means(j, env, again))
  BY DEF Runs
<1>1. n # Crash
  BY PlaceNoun
<1> DEFINE more == <<Named(NoneJ, x)>> \o types
           u == RecMint(j.val, t).typ
           below == CellJ(Named(u, x), t)
           f == RecMint(j.val, t).nock
           g == RecMint(j.next, below).nock
           v == RecMeans(j.val, env, again)
           inner == Bind(j.typ, v, env)
<1>2. RecClosed(j.val, types) /\ RecClosed(j.next, more)
  BY ClosedForms
<1>3. IsCell(f) /\ Same(RecTar(n, f, fuel), v)
  BY <1>2, PartRuns
<1>4. j.val \in Expr /\ j.next \in Expr
  BY DEF Within
<1>5. types \in Bindings /\ Describes(types, t) /\ Holds(types, env, n)
  BY DEF Place
<1>6. Plain(u)
  <2>1. Compiles(j.val)
    BY <1>4, CompilesStraight
  <2> QED BY <1>2, <1>5, <2>1, CompiledPart DEF Compiled
<1>7. Binder(Named(u, x), x)
  BY <1>6, LetTypeOfPlain
<1>8. Room(more, j.next) /\ Describes(more, below)
  BY <1>5, <1>7, RoomBound
<1>9. Mint(j, t).nock = Push(f, g)
  <2>1. Mint(j, t) = MintLet(j, t)
    BY MintOfForms
  <2>2. MintLet(j, t) = Minted(Push(f, g), RecMint(j.next, below).typ)
    BY <1>6, MintOfLet
  <2> QED BY <2>1, <2>2, MintedParts
<1>10. Means(j, env, again) = Strict(v, RecMeans(j.next, inner, again))
  BY MeansOfForms
<1>11. Tar(n, Push(f, g), fuel) = RecTar(Pair(RecTar(n, f, fuel), n), g, fuel)
  BY <1>1, TarOfPush
<1>12. IsCell(Push(f, g))
  BY FormulasAreCells
<1>13. RecTar(n, f, fuel) = v
  BY <1>3 DEF Same
<1>14. CASE v = Crash
  <2>1. Pair(Crash, n) = Crash /\ Strict(Crash, RecMeans(j.next, inner, again)) = Crash
    BY ValueFacts
  <2>2. RecTar(Crash, g, fuel) = Crash
    BY TarOfCrash DEF Tied
  <2> HIDE DEF v, f, g, inner
  <2> QED BY <1>9, <1>10, <1>11, <1>12, <1>13, <1>14, <2>1, <2>2 DEF Same
<1>15. CASE Datum(v)
  <2> DEFINE pushed == Pair(v, n)
  <2>1. Holds(more, inner, pushed)
    <3> HIDE DEF v
    <3> QED BY <1>5, <1>15, HoldsBound
  <2>2. Place(more, below, inner, pushed)
    <3> HIDE DEF inner, pushed, below
    <3> QED BY <1>8, <2>1 DEF Place, Room
  <2>3. Closed(j.next, more) /\ Mint(j.next, below).nock = g
        /\ RecTar(pushed, g, fuel) = Tar(pushed, g, fuel)
        /\ RecMeans(j.next, inner, again) = Means(j.next, inner, again)
    BY <1>2, <1>4 DEF Tied
  <2>4. Same(Tar(pushed, g, fuel), Means(j.next, inner, again))
    <3> HIDE DEF more, below, inner, pushed, g
    <3> QED BY <1>8, <2>2, <2>3 DEF Runs
  <2>5. Strict(v, RecMeans(j.next, inner, again)) = RecMeans(j.next, inner, again)
    <3> HIDE DEF v, inner
    <3> QED BY <1>15, ValueFacts
  <2>6. Same(RecTar(pushed, g, fuel), RecMeans(j.next, inner, again))
    <3> HIDE DEF inner, pushed, g
    <3> QED BY <2>3, <2>4
  <2>7. Tar(n, Push(f, g), fuel) = RecTar(pushed, g, fuel)
    BY <1>11, <1>13
  <2> HIDE DEF v, f, g, inner, pushed
  <2> QED BY <1>9, <1>10, <1>12, <2>5, <2>6, <2>7
<1> HIDE DEF v
<1> QED BY <1>3, <1>14, <1>15 DEF Same

LEMMA RunsEdit ==
  ASSUME Tied, NEW j \in Expr, j.j = "edit", NEW target, target = [j |-> "limb", limbs |-> j.limb],
         IsName(j.limb), Within(target, j), Within(j.val, j), Within(j.next, j),
         Runs(j.val), Runs(j.next)
  PROVE  Runs(j)
<1> SUFFICES ASSUME NEW types, NEW t, NEW env, NEW n, NEW fuel \in Nat, NEW again,
                    Room(types, j), Place(types, t, env, n), Closed(j, types)
             PROVE  /\ IsCell(Mint(j, t).nock)
                    /\ Same(Tar(n, Mint(j, t).nock, fuel), Means(j, env, again))
  BY DEF Runs
<1>1. n # Crash
  BY PlaceNoun
<1> DEFINE f == RecMint(j.val, t).nock
           g == RecMint(j.next, t).nock
           v == RecMeans(j.val, env, again)
           later == Assign(env, j.limb, v)
<1>2. RecClosed(target, types) /\ RecClosed(j.val, types) /\ RecClosed(j.next, types)
  BY ClosedForms
<1>3. IsCell(f) /\ Same(RecTar(n, f, fuel), v)
  BY <1>2, PartRuns
<1>4. target \in Expr /\ j.next \in Expr
  BY DEF Within
<1>5. types \in Bindings /\ Describes(types, t) /\ Holds(types, env, n) /\ Fits(types)
  BY RoomFits DEF Place
<1>6. PICK x \in Name : j.limb = <<NameL(x)>>
  BY DEF IsName
<1>7. IsBound(types, x)
  <2>1. target.j = "limb" /\ target.limbs = <<NameL(x)>>
    BY <1>6
  <2>2. Closed(target, types)
    BY <1>2, <1>4 DEF Tied
  <2> QED BY <1>5, <2>1, <2>2, ClosedName
<1>8. PICK m : LatestOf(types, x, m)
  BY <1>5, <1>7, LatestExists
<1> DEFINE p == Edit(HeadAt(m), f, Axis(1))
<1>9. Mint(j, t).nock = Then(p, g)
  <2>1. Mint(j, t) = MintEdit(j, t)
    BY MintOfForms
  <2>2. MintEdit(j, t) = Minted(Then(p, g), RecMint(j.next, t).typ)
    BY <1>5, <1>6, <1>8, MintOfEdit
  <2> QED BY <2>1, <2>2, MintedParts
<1>10. Means(j, env, again) = Strict(v, RecMeans(j.next, later, again))
  BY MeansOfForms
<1>11. IsCell(Then(p, g))
  BY FormulasAreCells
<1>12. Tar(n, Then(p, g), fuel) = RecTar(RecTar(n, p, fuel), g, fuel)
  <2> HIDE DEF p, g
  <2> QED BY <1>1, TarOfThen
<1> DEFINE after == Hax(HeadAt(m), v, n)
<1>13. RecTar(n, p, fuel) = after
  <2>1. RecTar(n, f, fuel) = v
    BY <1>3 DEF Same
  <2>2. RecTar(n, Axis(1), fuel) = n
    <3>1. Tar(n, Axis(1), fuel) = Slot(1, n)
      BY <1>1, TarOfAxis
    <3>2. Slot(1, n) = n
      BY DEF Slot
    <3> QED BY <3>1, <3>2 DEF Tied
  <2> HIDE DEF f, v
  <2>3. Tar(n, p, fuel) = Hax(HeadAt(m), RecTar(n, f, fuel), RecTar(n, Axis(1), fuel))
    BY <1>1, TarOfEdit
  <2>4. RecTar(n, p, fuel) = Tar(n, p, fuel)
    <3> HIDE DEF p
    <3> QED BY DEF Tied
  <2> QED BY <2>1, <2>2, <2>3, <2>4
<1>14. Binding(types, env) /\ m \in 1..Len(env)
  BY <1>5, <1>8, LatestBinding DEF Holds
<1>15. CASE v = Crash
  <2>1. after = Crash
    <3> HIDE DEF v
    <3> QED BY <1>5, <1>14, <1>15, EditedWithCrash
  <2>2. RecTar(Crash, g, fuel) = Crash
    BY TarOfCrash DEF Tied
  <2>3. Strict(Crash, RecMeans(j.next, later, again)) = Crash
    BY ValueFacts
  <2> HIDE DEF v, p, g, after, later
  <2> QED BY <1>9, <1>10, <1>11, <1>12, <1>13, <1>15, <2>1, <2>2, <2>3 DEF Same
<1>16. CASE Datum(v)
  <2>1. later = [env EXCEPT ![m].val = v]
    <3> HIDE DEF v
    <3> QED BY <1>5, <1>6, <1>8, <1>14, AssignName
  <2>2. Holds(types, later, after)
    <3> HIDE DEF v, later
    <3> QED BY <1>5, <1>14, <1>16, <2>1, HoldsEdited
  <2>3. Place(types, t, later, after) /\ Room(types, j.next)
    <3> HIDE DEF later, after
    <3> QED BY <1>5, <2>2, RoomWithin DEF Place
  <2>4. Closed(j.next, types) /\ Mint(j.next, t).nock = g
        /\ RecTar(after, g, fuel) = Tar(after, g, fuel)
        /\ RecMeans(j.next, later, again) = Means(j.next, later, again)
    BY <1>2, <1>4 DEF Tied
  <2>5. Same(Tar(after, g, fuel), Means(j.next, later, again))
    <3> HIDE DEF later, after, g
    <3> QED BY <2>3, <2>4 DEF Runs
  <2>6. Strict(v, RecMeans(j.next, later, again)) = RecMeans(j.next, later, again)
    <3> HIDE DEF v, later
    <3> QED BY <1>16, ValueFacts
  <2> HIDE DEF v, f, g, later, after, p
  <2> QED BY <1>9, <1>10, <1>11, <1>12, <1>13, <2>4, <2>5, <2>6
<1> HIDE DEF v
<1> QED BY <1>3, <1>15, <1>16 DEF Same

LEMMA RunsStraight ==
  ASSUME Tied, NEW j \in Expr
  PROVE  Runs(j)
<1> DEFINE Bad == {n \in Nat : \E e \in Expr : Size[e] = n /\ ~Runs(e)}
<1>1. Size \in [Expr -> Nat] /\ \A e \in Expr : IsStraight(e)
  BY StraightAssumption
<1>2. SUFFICES Bad = {}
  BY <1>1
<1>3. SUFFICES ASSUME Bad # {} PROVE FALSE
  OBVIOUS
<1>4. PICK n \in Bad : \A m \in Bad : n <= m
  <2>1. Bad \in SUBSET Nat
    OBVIOUS
  <2> HIDE DEF Bad
  <2> QED BY <1>3, <2>1, LeastNat
<1>5. PICK e \in Expr : Size[e] = n /\ ~Runs(e)
  BY <1>4
<1>6. ASSUME NEW d, Within(d, e) PROVE Runs(d)
  <2>1. d \in Expr /\ Size[d] < n /\ Size[d] \in Nat
    BY <1>1, <1>5, <1>6 DEF Within
  <2>2. ~(n <= Size[d]) /\ Size[d] \notin Bad
    BY <1>4, <2>1
  <2> QED BY <2>1, <2>2
<1> HIDE DEF Bad
<1>7. IsStraight(e)
  BY <1>1
<1>8. ASSUME e.j = "edit", Within([j |-> "limb", limbs |-> e.limb], e)
      PROVE  IsName(e.limb)
  <2> DEFINE target == [j |-> "limb", limbs |-> e.limb]
  <2>1. target \in Expr /\ target.j = "limb" /\ target.limbs = e.limb
    BY <1>8 DEF Within
  <2>2. IsStraight(target)
    BY <1>1, <2>1
  <2> HIDE DEF target
  <2> QED BY <2>1, <2>2 DEF IsStraight
<1>9. CASE (e.j = "atom" /\ e.n \in Nat) \/ e.j = "crash"
  BY <1>5, <1>9, RunsLeaf
<1>10. CASE e.j = "limb" /\ IsName(e.limbs)
  BY <1>5, <1>10, RunsName
<1>11. CASE e.j = "cell" /\ Within(e.p, e) /\ Within(e.q, e)
  BY <1>5, <1>6, <1>11, RunsCell
<1>12. CASE e.j = "increment" /\ Within(e.val, e)
  BY <1>5, <1>6, <1>12, RunsIncrement
<1>13. CASE e.j = "cell_check" /\ Within(e.val, e)
  BY <1>5, <1>6, <1>13, RunsCellCheck
<1>14. CASE e.j = "eq" /\ Within(e.a, e) /\ Within(e.b, e)
  BY <1>5, <1>6, <1>14, RunsEqual
<1>15. CASE e.j = "ne" /\ Within(e.a, e) /\ Within(e.b, e)
  BY <1>5, <1>6, <1>15, RunsUnequal
<1>16. CASE e.j = "if" /\ Within(e.cond, e) /\ Within(e.then, e) /\ Within(e.after, e)
  BY <1>5, <1>6, <1>16, RunsIf
<1>17. CASE e.j = "assert" /\ Within(e.cond, e) /\ Within(e.then, e)
  BY <1>5, <1>6, <1>17, RunsAssert
<1>18. CASE e.j = "print" /\ Within(e.body, e) /\ Within(e.next, e)
  BY <1>5, <1>6, <1>18, RunsPrint
<1>19. CASE /\ e.j = "edit" /\ Within([j |-> "limb", limbs |-> e.limb], e)
            /\ Within(e.val, e) /\ Within(e.next, e)
  BY <1>5, <1>6, <1>8, <1>19, RunsEdit
<1>20. CASE /\ e.j = "let" /\ \E x \in Name : e.typ = Named(NoneJ, x)
            /\ Within(e.val, e) /\ Within(e.next, e) /\ Nest[e.next] < Nest[e]
  <2>1. PICK x \in Name : e.typ = Named(NoneJ, x)
    BY <1>20
  <2>2. Runs(e.val) /\ Runs(e.next)
    BY <1>6, <1>20
  <2>3. Runs(e)
    BY <1>20, <2>1, <2>2, RunsLet
  <2> QED BY <1>5, <2>3
<1> QED BY <1>7, <1>9, <1>10, <1>11, <1>12, <1>13, <1>14, <1>15, <1>16, <1>17, <1>18, <1>19, <1>20
        DEF IsStraight

\* What a program of the specification came to.
LEMMA ProgramRuns ==
  ASSUME Tied, GivenStraight, Inv, phase \in {"compiled", "ran"}
  PROVE  /\ Closed(program, <<>>) /\ IsNoun(minted.nock)
         /\ phase = "ran" => Same(outcome, Meant)
<1>1. program \in Expr /\ Room(<<>>, program) /\ Describes(<<>>, AtomJ)
  BY ProgramStraight
<1>2. Compiled(Mint(program, AtomJ), Closed(program, <<>>))
  BY <1>1, CompilesStraight DEF Compiles
<1>3. minted = Mint(program, AtomJ) /\ ~HasError(minted.nock)
  BY DEF Inv
<1>4. Closed(program, <<>>) /\ IsNoun(minted.nock)
  BY <1>2, <1>3 DEF Compiled, Code
<1>5. ASSUME phase = "ran" PROVE Same(outcome, Meant)
  <2>1. outcome = Tar(Atom(0), minted.nock, 3 * Fuel)
    BY <1>5 DEF Inv
  <2>2. PICK fuel \in Nat : fuel = 3 * Fuel
    BY FuelAssumption
  <2>3. Place(<<>>, AtomJ, <<>>, Atom(0))
    BY DescribesNothing, HoldsNothing DEF Place
  <2>4. Same(Tar(Atom(0), Mint(program, AtomJ).nock, fuel), Means(program, <<>>, Fuel))
    BY <1>1, <1>4, <2>3, RunsStraight DEF Runs
  <2> QED BY <1>3, <2>1, <2>2, <2>4 DEF Meant
<1> QED BY <1>4, <1>5

\* What the code of a program without functions, loops and objects computes is what
\* the program means, and it crashes where the program does (Computes): every name
\* has the axis of the value last bound or assigned to it, under shadowing and
\* assignments in branches.
THEOREM ComputedAsMeant ==
  ASSUME Tied
  PROVE  Spec => [](GivenStraight => Computes)
<1>1. Inv => (GivenStraight => Computes)
  BY ProgramRuns DEF Computes, Same
<1> QED BY <1>1, InvHolds, PTL

\* Every formula made of such a program, and whatever it computes, is a noun
\* (TypeOK): no error is left in code that is run.
THEOREM CompilerTypes ==
  ASSUME Tied
  PROVE  Spec => [](GivenStraight => TypeOK)
<1>1. Inv => (GivenStraight => TypeOK)
  <2> SUFFICES ASSUME Inv, GivenStraight PROVE TypeOK
    OBVIOUS
  <2>1. source \in Sources /\ phase \in {"given", "compiled", "refused", "ran"}
    BY DEF Inv
  <2>2. phase \in {"compiled", "ran"} => IsNoun(minted.nock)
    BY ProgramRuns
  <2>3. CASE phase = "ran"
    <3>1. Same(outcome, Meant)
      BY <2>3, ProgramRuns
    <3> QED BY <2>1, <2>2, <3>1 DEF TypeOK, Same, Datum
  <2>4. CASE phase # "ran"
    BY <2>1, <2>2, <2>4 DEF TypeOK, Inv
  <2> QED BY <2>3, <2>4
<1> QED BY <1>1, InvHolds, PTL
-----------------------------------------------------------------------------
(* The type of an expression describes its value.                          *)

LEMMA CellJParts ==
  ASSUME NEW p, NEW q, NEW r, NEW s, CellJ(p, q) = CellJ(r, s)
  PROVE  p = r /\ q = s
<1>1. CellJ(p, q).p = p /\ CellJ(p, q).q = q /\ CellJ(r, s).p = r /\ CellJ(r, s).q = s
  BY DEF CellJ
<1> QED BY <1>1

\* There is one way to take the type of a subject apart.
LEMMA OneBehind ==
  ASSUME NEW types \in Bindings, NEW t, NEW ts, NEW us,
         Behind(ts, types, t), Behind(us, types, t), NEW k \in 0..Len(types)
  PROVE  ts[k] = us[k]
<1> DEFINE Bad == {i \in 0..Len(types) : ts[i] # us[i]}
<1>1. Len(types) \in Nat
  BY DEF Bindings
<1>2. SUFFICES ASSUME Bad # {} PROVE FALSE
  OBVIOUS
<1>3. PICK i \in Bad : \A h \in Bad : i <= h
  <2>1. Bad \in SUBSET Nat
    BY <1>1
  <2> HIDE DEF Bad
  <2> QED BY <1>2, <2>1, LeastNat
<1>4. i # 0
  BY <1>3 DEF Behind
<1>5. PICK h \in 0..Len(types) : h = i - 1 /\ ~(i <= h) /\ i \in 1..Len(types)
  <2>1. i - 1 \in 0..Len(types) /\ ~(i <= i - 1) /\ i \in 1..Len(types)
    BY <1>1, <1>3, <1>4
  <2> QED BY <2>1
<1>6. ts[h] = us[h]
  BY <1>3, <1>5
<1>7. PICK b, c : ts[h] = CellJ(b, ts[i]) /\ us[h] = CellJ(c, us[i])
  BY <1>5 DEF Behind
<1>8. ts[i] = us[i]
  <2>1. CellJ(b, ts[i]) = CellJ(c, us[i])
    BY <1>6, <1>7
  <2> QED BY <2>1, CellJParts
<1> QED BY <1>3, <1>8

LEMMA OneBoundType ==
  ASSUME NEW types \in Bindings, NEW t, NEW m \in 1..Len(types), NEW u, NEW v,
         BoundType(types, t, m, u), BoundType(types, t, m, v)
  PROVE  u = v
<1>1. PICK ts, b : Behind(ts, types, t) /\ ts[m - 1] = CellJ(b, ts[m]) /\ u = Named(b, "")
  BY DEF BoundType
<1>2. PICK us, c : Behind(us, types, t) /\ us[m - 1] = CellJ(c, us[m]) /\ v = Named(c, "")
  BY DEF BoundType
<1>3. m - 1 \in 0..Len(types)
  BY DEF Bindings
<1>4. ts[m - 1] = us[m - 1]
  BY <1>1, <1>2, <1>3, OneBehind
<1>5. b = c
  BY <1>1, <1>2, <1>4, CellJParts
<1> QED BY <1>1, <1>2, <1>5

\* What the type of the subject says of the values in scope is so.
Typed(types, t, env) ==
  \A m \in 1..Len(types) : \A u : BoundType(types, t, m, u) => HasType(env[m].val, u)

\* A value of a type, if any.
Fine(v, t) == v = Crash \/ (Datum(v) /\ HasType(v, t))

LEMMA TypedNothing == Typed(<<>>, AtomJ, <<>>)
BY DEF Typed

\* A name given to a type, and stripped again, is none of its parts.
LEMMA HasTypeNamed ==
  ASSUME NEW u, Plain(u), NEW x, NEW v
  PROVE  HasType(v, Named(Named(u, x), "")) <=> HasType(v, u)
<1> DEFINE w == Named(Named(u, x), "")
           n == Named(u, x)
<1>1. "kind" \in DOMAIN u /\ (u.kind \in {"cell", "fork"} => "p" \in DOMAIN u /\ "q" \in DOMAIN u)
  BY DEF Plain
<1>2. DOMAIN n = DOMAIN u /\ n.kind = u.kind
      /\ (u.kind \in {"cell", "fork"} => n.p = u.p /\ n.q = u.q)
  BY <1>1 DEF Named
<1>3. w = Named(n, "")
  OBVIOUS
<1> HIDE DEF n, w
<1>4. w.kind = u.kind /\ (u.kind \in {"cell", "fork"} => w.p = u.p /\ w.q = u.q)
  BY <1>1, <1>2, <1>3 DEF Named
<1> USE DEF w
<1> SUFFICES HasType(v, w) <=> HasType(v, u)
  OBVIOUS
<1> HIDE DEF w
<1>5. CASE u.kind = "cell"
  BY <1>4, <1>5 DEF HasType
<1>6. CASE u.kind = "fork"
  BY <1>4, <1>6 DEF HasType
<1>7. CASE u.kind = "atom"
  BY <1>4, <1>7 DEF HasType
<1>8. CASE u.kind \notin {"cell", "fork", "atom"}
  BY <1>4, <1>8 DEF HasType
<1> QED BY <1>5, <1>6, <1>7, <1>8

LEMMA TypedBound ==
  ASSUME NEW types \in Bindings, NEW t, NEW env, Binding(types, env), Typed(types, t, env),
         NEW x \in Name, NEW u, Plain(u), NEW v, HasType(v, u)
  PROVE  Typed(<<Named(NoneJ, x)>> \o types, CellJ(Named(u, x), t), Bind(Named(NoneJ, x), v, env))
<1> DEFINE more == <<Named(NoneJ, x)>> \o types
           below == CellJ(Named(u, x), t)
           inner == Bind(Named(NoneJ, x), v, env)
           l == Len(types)
<1>1. /\ l \in Nat /\ Len(more) = l + 1
      /\ \A k \in 2..(l + 1) : more[k] = types[k - 1]
  BY DEF Bindings
<1>2. inner[1].val = v /\ \A k \in 2..(l + 1) : inner[k] = env[k - 1]
  <2> DEFINE b == [typ |-> Named(NoneJ, x), val |-> v]
  <2>1. PICK S : env \in Seq(S)
    BY DEF Binding
  <2>2. Len(env) = l /\ b.val = v
    BY DEF Binding
  <2>3. inner = <<b>> \o env
    BY DEF Bind
  <2>4. env \in Seq(S \cup {b}) /\ <<b>> \in Seq(S \cup {b})
    BY <2>1
  <2> HIDE DEF b, inner
  <2> QED BY <2>2, <2>3, <2>4
<1> SUFFICES ASSUME NEW m \in 1..(l + 1), NEW w, BoundType(more, below, m, w)
             PROVE  HasType(inner[m].val, w)
  BY <1>1 DEF Typed
<1>3. PICK ts, b : /\ Behind(ts, more, below) /\ ts[m - 1] = CellJ(b, ts[m])
                   /\ Binder(b, more[m].name) /\ w = Named(b, "")
  BY DEF BoundType
<1>4. CASE m = 1
  <2>1. CellJ(b, ts[1]) = CellJ(Named(u, x), t)
    <3>1. ts[0] = CellJ(Named(u, x), t)
      BY <1>3 DEF Behind
    <3>2. m - 1 = 0
      BY <1>4
    <3> QED BY <1>3, <1>4, <3>1, <3>2
  <2>2. b = Named(u, x)
    BY <2>1, CellJParts
  <2> HIDE DEF inner
  <2> QED BY <1>2, <1>3, <1>4, <2>2, HasTypeNamed
<1>5. CASE m # 1
  <2> DEFINE us == [k \in 0..l |-> ts[k + 1]]
  <2>1. ts[0] = below /\ ts[l + 1] = AtomJ
        /\ \A k \in 1..(l + 1) : \E c : Binder(c, more[k].name) /\ ts[k - 1] = CellJ(c, ts[k])
    <3> HIDE DEF more, below
    <3> QED BY <1>1, <1>3 DEF Behind
  <2>2. us[0] = t
    <3>1. PICK c : ts[0] = CellJ(c, ts[1])
      BY <1>1, <2>1
    <3>2. CellJ(c, ts[1]) = CellJ(Named(u, x), t)
      BY <2>1, <3>1
    <3>3. ts[1] = t
      BY <3>2, CellJParts
    <3> QED BY <1>1, <3>3
  <2>3. us[l] = AtomJ
    BY <1>1, <2>1
  <2>4. ASSUME NEW k \in 1..l
        PROVE  \E c : Binder(c, types[k].name) /\ us[k - 1] = CellJ(c, us[k])
    <3>1. PICK i \in 2..(l + 1) : i = k + 1
      BY <1>1
    <3>2. i - 1 = k /\ i \in 1..(l + 1) /\ k - 1 \in 0..l /\ k \in 0..l /\ (k - 1) + 1 = k
      BY <1>1, <3>1
    <3>3. more[i] = types[k] /\ us[k - 1] = ts[k] /\ us[k] = ts[i]
      <4> HIDE DEF more
      <4> QED BY <1>1, <3>1, <3>2
    <3>4. PICK c : Binder(c, more[i].name) /\ ts[i - 1] = CellJ(c, ts[i])
      BY <2>1, <3>2
    <3> HIDE DEF us, more
    <3> QED BY <3>2, <3>3, <3>4
  <2>5. Behind(us, types, t)
    <3> HIDE DEF us
    <3> QED BY <2>2, <2>3, <2>4 DEF Behind
  <2>6. PICK h \in 1..l : h = m - 1 /\ m \in 2..(l + 1)
    BY <1>1, <1>5
  <2>7. us[h - 1] = CellJ(b, us[h]) /\ Binder(b, types[h].name) /\ inner[m] = env[h]
    <3>1. h - 1 \in 0..l /\ h \in 0..l /\ (h - 1) + 1 = m - 1 /\ h + 1 = m
      BY <1>1, <2>6
    <3>2. us[h - 1] = ts[m - 1] /\ us[h] = ts[m]
      BY <3>1
    <3>3. more[m] = types[h] /\ inner[m] = env[h]
      <4> HIDE DEF more, inner
      <4> QED BY <1>1, <1>2, <2>6
    <3> HIDE DEF us, more, inner
    <3> QED BY <1>3, <3>2, <3>3
  <2>8. BoundType(types, t, h, w)
    <3> HIDE DEF us
    <3> QED BY <1>3, <2>5, <2>7 DEF BoundType
  <2>9. HasType(env[h].val, w)
    BY <2>8 DEF Typed
  <2> HIDE DEF inner
  <2> QED BY <2>7, <2>9
<1> QED BY <1>4, <1>5

LEMMA TypedEdited ==
  ASSUME NEW types \in Bindings, NEW t, NEW env, Binding(types, env), Typed(types, t, env),
         NEW m \in 1..Len(types), NEW u, BoundType(types, t, m, u), NEW v, HasType(v, u)
  PROVE  Typed(types, t, [env EXCEPT ![m].val = v])
<1> DEFINE later == [env EXCEPT ![m].val = v]
<1>1. DOMAIN env = 1..Len(types)
  BY DEF Binding
<1>2. PICK w : env[m] = [typ |-> types[m], val |-> w]
  BY <1>1 DEF Binding
<1>3. \A k \in 1..Len(types) : later[k].val = IF k = m THEN v ELSE env[k].val
  <2>1. later[m] = [[typ |-> types[m], val |-> w] EXCEPT !.val = v]
    BY <1>1, <1>2
  <2>2. \A k \in 1..Len(types) : k # m => later[k] = env[k]
    BY <1>1
  <2> HIDE DEF later
  <2> QED BY <2>1, <2>2
<1> HIDE DEF later
<1>4. ASSUME NEW k \in 1..Len(types), NEW c, BoundType(types, t, k, c)
      PROVE  HasType(later[k].val, c)
  <2>1. CASE k = m
    <3>1. c = u
      BY <1>4, <2>1, OneBoundType
    <3> QED BY <1>3, <2>1, <3>1
  <2>2. CASE k # m
    <3>1. HasType(env[k].val, c)
      BY <1>4 DEF Typed
    <3> QED BY <1>3, <2>2, <3>1
  <2> QED BY <2>1, <2>2
<1>5. Typed(types, t, later)
  BY <1>4 DEF Typed
<1> QED BY <1>5 DEF later
LEMMA KeepsTypesForms ==
  ASSUME NEW j, NEW t
  PROVE  LET keeps(e) == RecKeepsTypes(e, t)
             below == CellJ(Named(RecMint(j.val, t).typ, j.typ.name), t)
         IN  /\ j.j = "cell" => (KeepsTypes(j, t) <=> keeps(j.p) /\ keeps(j.q))
             /\ j.j \in {"increment", "cell_check"} => (KeepsTypes(j, t) <=> keeps(j.val))
             /\ j.j \in {"eq", "ne"} => (KeepsTypes(j, t) <=> keeps(j.a) /\ keeps(j.b))
             /\ j.j = "if" => (KeepsTypes(j, t) <=> keeps(j.cond) /\ keeps(j.then) /\ keeps(j.after))
             /\ j.j = "assert" => (KeepsTypes(j, t) <=> keeps(j.cond) /\ keeps(j.then))
             /\ j.j = "print" => (KeepsTypes(j, t) <=> keeps(j.body) /\ keeps(j.next))
             /\ j.j = "let" => (KeepsTypes(j, t) <=> keeps(j.val) /\ RecKeepsTypes(j.next, below))
             /\ j.j = "edit" =>
                  (KeepsTypes(j, t) <=> /\ RecMint(j.val, t).typ = MintLimb(j.limb, t).typ
                                        /\ keeps(j.val) /\ keeps(j.next))
<1>1. CASE j.j = "cell"
  BY <1>1 DEF KeepsTypes
<1>2. CASE j.j \in {"increment", "cell_check"}
  BY <1>2 DEF KeepsTypes
<1>3. CASE j.j \in {"eq", "ne"}
  BY <1>3 DEF KeepsTypes
<1>4. CASE j.j = "if"
  BY <1>4 DEF KeepsTypes
<1>5. CASE j.j = "assert"
  BY <1>5 DEF KeepsTypes
<1>6. CASE j.j = "print"
  BY <1>6 DEF KeepsTypes
<1>7. CASE j.j = "let"
  BY <1>7 DEF KeepsTypes
<1>8. CASE j.j = "edit"
  BY <1>8 DEF KeepsTypes
<1> QED BY <1>1, <1>2, <1>3, <1>4, <1>5, <1>6, <1>7, <1>8

\* Values and their types.
LEMMA FineCrash == \A t : Fine(Crash, t)
BY DEF Fine

LEMMA FineValue ==
  ASSUME Tied, NEW v, NEW t, Fine(v, t)
  PROVE  v = Crash \/ Datum(v)
BY DEF Fine

LEMMA FineAtom ==
  ASSUME Tied, NEW v, Datum(v), v.kind = "atom"
  PROVE  Fine(v, AtomJ)
<1>1. AtomJ.kind = "atom" /\ IsAtom(v)
  BY DEF AtomJ, IsAtom
<1>2. HasType(v, AtomJ)
  BY <1>1 DEF HasType
<1> QED BY <1>2 DEF Fine

LEMMA FineNumber ==
  ASSUME Tied, NEW n \in Nat
  PROVE  Fine(Atom(n), AtomJ)
<1>1. Datum(Atom(n)) /\ Atom(n).kind = "atom"
  BY DatumFacts, AtomParts DEF Atom
<1> QED BY <1>1, FineAtom

LEMMA FineLoobean ==
  ASSUME Tied, NEW b \in BOOLEAN
  PROVE  Fine(Loobean(b), AtomJ)
<1>1. Loobean(b) \in {Atom(0), Atom(1)}
  BY DEF Loobean, True, False
<1>2. 0 \in Nat /\ 1 \in Nat
  OBVIOUS
<1> QED BY <1>1, <1>2, FineNumber

LEMMA FineCell ==
  ASSUME Tied, NEW p, NEW q, NEW a, NEW b, Fine(p, a), Fine(q, b)
  PROVE  Fine(Strict(p, Strict(q, Cell(p, q))), CellJ(a, b))
<1>1. CASE p = Crash \/ q = Crash
  <2>1. (p = Crash \/ Datum(p)) /\ (q = Crash \/ Datum(q))
    BY DEF Fine
  <2>2. Strict(p, Strict(q, Cell(p, q))) = Crash
    <3>1. CASE p = Crash
      BY <3>1, ValueFacts
    <3>2. CASE Datum(p) /\ q = Crash
      BY <3>2, ValueFacts
    <3> QED BY <1>1, <2>1, <3>1, <3>2
  <2> QED BY <2>2, FineCrash
<1>2. CASE p # Crash /\ q # Crash
  <2>1. Datum(p) /\ Datum(q) /\ HasType(p, a) /\ HasType(q, b)
    BY <1>2 DEF Fine
  <2>2. Strict(p, Strict(q, Cell(p, q))) = Cell(p, q) /\ Datum(Cell(p, q))
    BY <2>1, ValueFacts, DatumFacts
  <2>3. HasType(Cell(p, q), CellJ(a, b))
    <3>1. CellJ(a, b).kind = "cell" /\ CellJ(a, b).p = a /\ CellJ(a, b).q = b
      BY DEF CellJ
    <3>2. IsCell(Cell(p, q)) /\ Cell(p, q).p = p /\ Cell(p, q).q = q
      BY DEF IsCell, Cell
    <3>3. RecHasType(p, a) /\ RecHasType(q, b)
      BY <2>1 DEF Tied
    <3> QED BY <3>1, <3>2, <3>3 DEF HasType
  <2> QED BY <2>2, <2>3 DEF Fine
<1> QED BY <1>1, <1>2

\* A value of either type.
LEMMA FineFork ==
  ASSUME Tied, NEW v, NEW a, NEW b, Fine(v, a) \/ Fine(v, b)
  PROVE  Fine(v, ForkJ(a, b))
<1>1. ForkJ(a, b).kind = "fork" /\ ForkJ(a, b).p = a /\ ForkJ(a, b).q = b
  BY DEF ForkJ
<1>2. RecHasType(v, a) = HasType(v, a) /\ RecHasType(v, b) = HasType(v, b)
  BY DEF Tied
<1>3. HasType(v, a) \/ HasType(v, b) => HasType(v, ForkJ(a, b))
  BY <1>1, <1>2 DEF HasType
<1> QED BY <1>3 DEF Fine

\* Whichever is chosen.
LEMMA FineChoice ==
  ASSUME Tied, NEW c, c = Crash \/ Datum(c), NEW p, NEW q, NEW t, Fine(p, t), Fine(q, t)
  PROVE  Fine(DataOnly(c, IF c = True THEN p ELSE IF c = False THEN q ELSE Crash), t)
<1>1. CASE c = Crash
  BY <1>1, ValueFacts, FineCrash
<1>2. CASE Datum(c)
  <2> DEFINE w == IF c = True THEN p ELSE IF c = False THEN q ELSE Crash
  <2>1. DataOnly(c, w) = w
    BY <1>2, ValueFacts
  <2>2. Fine(w, t)
    BY FineCrash
  <2> HIDE DEF w
  <2>3. Fine(DataOnly(c, w), t)
    BY <2>1, <2>2
  <2> QED BY <2>3 DEF w
<1> QED BY <1>1, <1>2

\* A comparison.
LEMMA FineComparison ==
  ASSUME Tied, NEW u, NEW v, u = Crash \/ Datum(u), v = Crash \/ Datum(v), NEW b \in BOOLEAN
  PROVE  Fine(DataOnly(u, DataOnly(v, Loobean(b))), AtomJ)
<1>1. CASE u = Crash \/ v = Crash
  BY <1>1, FailedOperand, FineCrash
<1>2. CASE Datum(u) /\ Datum(v)
  <2>1. DataOnly(u, DataOnly(v, Loobean(b))) = Loobean(b)
    BY <1>2, ValueFacts
  <2> QED BY <2>1, FineLoobean
<1> QED BY <1>1, <1>2

\* A place at which j is closed, and its assignments keep the types of its names.
Ready(j, types, t, env, n) ==
  /\ Room(types, j) /\ Place(types, t, env, n) /\ Typed(types, t, env)
  /\ Closed(j, types) /\ KeepsTypes(j, t)

\* There j means a value of the type that mint says.
Suits(j) ==
  \A types, t, env, n, again :
    Ready(j, types, t, env, n) => Fine(Means(j, env, again), Mint(j, t).typ)

LEMMA PartSuits ==
  ASSUME Tied, NEW j \in Expr, NEW types, NEW t, NEW env, NEW n, NEW again,
         Ready(j, types, t, env, n),
         NEW e, Within(e, j), Suits(e), RecClosed(e, types), RecKeepsTypes(e, t)
  PROVE  Fine(RecMeans(e, env, again), RecMint(e, t).typ)
<1>1. e \in Expr /\ Room(types, e)
  BY RoomWithin DEF Within, Ready
<1>2. /\ RecMint(e, t) = Mint(e, t) /\ RecMeans(e, env, again) = Means(e, env, again)
      /\ RecClosed(e, types) = Closed(e, types) /\ RecKeepsTypes(e, t) = KeepsTypes(e, t)
  BY <1>1 DEF Tied
<1>3. Ready(e, types, t, env, n)
  BY <1>1, <1>2 DEF Ready
<1> QED BY <1>2, <1>3 DEF Suits

LEMMA SuitsLeaf ==
  ASSUME Tied, NEW j \in Expr, (j.j = "atom" /\ j.n \in Nat) \/ j.j = "crash"
  PROVE  Suits(j)
<1> SUFFICES ASSUME NEW types, NEW t, NEW env, NEW n, NEW again, Ready(j, types, t, env, n)
             PROVE  Fine(Means(j, env, again), Mint(j, t).typ)
  BY DEF Suits
<1>1. CASE j.j = "atom" /\ j.n \in Nat
  <2>1. Mint(j, t).typ = AtomJ /\ Means(j, env, again) = Atom(j.n)
    BY <1>1, MintOfForms, MeansOfForms, MintedParts
  <2> QED BY <1>1, <2>1, FineNumber
<1>2. CASE j.j = "crash"
  <2>1. Means(j, env, again) = Crash
    BY <1>2, MeansOfForms
  <2> QED BY <2>1, FineCrash
<1> QED BY <1>1, <1>2

LEMMA SuitsName ==
  ASSUME Tied, NEW j \in Expr, j.j = "limb", IsName(j.limbs)
  PROVE  Suits(j)
<1> SUFFICES ASSUME NEW types, NEW t, NEW env, NEW n, NEW again, Ready(j, types, t, env, n)
             PROVE  Fine(Means(j, env, again), Mint(j, t).typ)
  BY DEF Suits
<1>1. PICK x \in Name : j.limbs = <<NameL(x)>>
  BY DEF IsName
<1>2. /\ Fits(types) /\ types \in Bindings /\ Describes(types, t) /\ Holds(types, env, n)
      /\ Closed(j, types) /\ Typed(types, t, env)
  BY RoomFits DEF Ready, Place
<1>3. IsBound(types, x)
  BY <1>1, <1>2, ClosedName
<1>4. PICK m : LatestOf(types, x, m)
  BY <1>2, <1>3, LatestExists
<1>5. BoundType(types, t, m, Mint(j, t).typ)
  <2>1. Mint(j, t) = MintLimb(<<NameL(x)>>, t)
    BY <1>1, MintOfForms
  <2>2. BoundType(types, t, m, MintLimb(<<NameL(x)>>, t).typ)
    BY <1>2, <1>4, CompiledName
  <2> QED BY <2>1, <2>2
<1>6. Binding(types, env) /\ m \in 1..Len(env) /\ m \in 1..Len(types)
  BY <1>2, <1>4, LatestBinding DEF Holds, LatestOf
<1> DEFINE v == env[m].val
<1>7. Datum(v) /\ HasType(v, Mint(j, t).typ)
  BY <1>2, <1>5, <1>6, BindingParts DEF Typed
<1>8. Lookup(env, <<NameL(x)>>) = v
  BY <1>2, <1>4, <1>6, LookupName
<1>9. Means(j, env, again) = v
  <2>1. Means(j, env, again) = MeansLimb(j.limbs, env, again)
    BY MeansOfForms
  <2>2. j.limbs[1].sort = "name" /\ v.kind # "thunk"
    <3>1. <<NameL(x)>>[1].sort = "name"
      BY DEF NameL
    <3> QED BY <1>1, <1>7, <3>1 DEF Datum
  <2>3. Lookup(env, j.limbs) = v
    BY <1>1, <1>8
  <2> HIDE DEF v
  <2> QED BY <2>1, <2>2, <2>3 DEF MeansLimb
<1> QED BY <1>7, <1>9 DEF Fine

LEMMA SuitsIncrement ==
  ASSUME Tied, NEW j \in Expr, j.j = "increment", Within(j.val, j), Suits(j.val)
  PROVE  Suits(j)
<1> SUFFICES ASSUME NEW types, NEW t, NEW env, NEW n, NEW again, Ready(j, types, t, env, n)
             PROVE  Fine(Means(j, env, again), Mint(j, t).typ)
  BY DEF Suits
<1> DEFINE v == RecMeans(j.val, env, again)
<1>1. RecClosed(j.val, types) /\ RecKeepsTypes(j.val, t)
  BY ClosedForms, KeepsTypesForms DEF Ready
<1>2. v = Crash \/ Datum(v)
  BY <1>1, PartSuits DEF Fine
<1>3. Mint(j, t).typ = AtomJ
  BY MintOfForms, MintedParts
<1>4. Means(j, env, again) = Strict(v, IF v.kind = "atom" THEN Atom(v.n + 1) ELSE Crash)
  BY MeansOfForms
<1> HIDE DEF v
<1>5. CASE v = Crash
  <2>1. Means(j, env, again) = Crash
    BY <1>4, <1>5, ValueFacts
  <2> QED BY <2>1, FineCrash
<1>6. CASE Datum(v) /\ v.kind = "atom"
  <2>1. PICK k \in Nat : k = v.n + 1
    BY <1>6, DatumFacts
  <2>2. Means(j, env, again) = Atom(k)
    BY <1>4, <1>6, <2>1, ValueFacts
  <2> QED BY <1>3, <2>2, FineNumber
<1>7. CASE Datum(v) /\ v.kind # "atom"
  <2>1. Means(j, env, again) = Crash
    BY <1>4, <1>7, ValueFacts
  <2> QED BY <2>1, FineCrash
<1> QED BY <1>2, <1>5, <1>6, <1>7

LEMMA SuitsCellCheck ==
  ASSUME Tied, NEW j \in Expr, j.j = "cell_check", Within(j.val, j), Suits(j.val)
  PROVE  Suits(j)
<1> SUFFICES ASSUME NEW types, NEW t, NEW env, NEW n, NEW again, Ready(j, types, t, env, n)
             PROVE  Fine(Means(j, env, again), Mint(j, t).typ)
  BY DEF Suits
<1> DEFINE v == RecMeans(j.val, env, again)
<1>1. RecClosed(j.val, types) /\ RecKeepsTypes(j.val, t)
  BY ClosedForms, KeepsTypesForms DEF Ready
<1>2. v = Crash \/ Datum(v)
  BY <1>1, PartSuits DEF Fine
<1>3. Mint(j, t).typ = AtomJ
  BY MintOfForms, MintedParts
<1>4. PICK b \in BOOLEAN : b = (v.kind # "atom")
  OBVIOUS
<1>5. Means(j, env, again) = Strict(v, Loobean(b))
  BY <1>4, MeansOfForms
<1> HIDE DEF v
<1>6. CASE v = Crash
  BY <1>5, <1>6, ValueFacts, FineCrash
<1>7. CASE Datum(v)
  <2>1. Means(j, env, again) = Loobean(b)
    BY <1>5, <1>7, ValueFacts
  <2> QED BY <1>3, <2>1, FineLoobean
<1> QED BY <1>2, <1>6, <1>7

LEMMA SuitsComparison ==
  ASSUME Tied, NEW j \in Expr, j.j \in {"eq", "ne"},
         Within(j.a, j), Within(j.b, j), Suits(j.a), Suits(j.b)
  PROVE  Suits(j)
<1> SUFFICES ASSUME NEW types, NEW t, NEW env, NEW n, NEW again, Ready(j, types, t, env, n)
             PROVE  Fine(Means(j, env, again), Mint(j, t).typ)
  BY DEF Suits
<1> DEFINE u == RecMeans(j.a, env, again)
           v == RecMeans(j.b, env, again)
<1>1. /\ RecClosed(j.a, types) /\ RecKeepsTypes(j.a, t)
      /\ RecClosed(j.b, types) /\ RecKeepsTypes(j.b, t)
  BY ClosedForms, KeepsTypesForms DEF Ready
<1>2. (u = Crash \/ Datum(u)) /\ (v = Crash \/ Datum(v))
  BY <1>1, PartSuits DEF Fine
<1>3. Mint(j, t).typ = AtomJ
  BY MintOfForms, MintedParts
<1>4. \E b \in BOOLEAN : Means(j, env, again) = DataOnly(u, DataOnly(v, Loobean(b)))
  <2>1. (u = v) \in BOOLEAN /\ (~(u = v)) \in BOOLEAN
    OBVIOUS
  <2>2. CASE j.j = "eq"
    <3>1. Means(j, env, again) = DataOnly(u, DataOnly(v, Loobean(u = v)))
      BY <2>2, MeansOfForms
    <3> QED BY <2>1, <3>1
  <2>3. CASE j.j = "ne"
    <3>1. Means(j, env, again) = DataOnly(u, DataOnly(v, Loobean(~(u = v))))
      BY <2>3, MeansOfForms
    <3> QED BY <2>1, <3>1
  <2> QED BY <2>2, <2>3
<1> HIDE DEF u, v
<1> QED BY <1>2, <1>3, <1>4, FineComparison

LEMMA SuitsCell ==
  ASSUME Tied, NEW j \in Expr, j.j = "cell",
         Within(j.p, j), Within(j.q, j), Suits(j.p), Suits(j.q)
  PROVE  Suits(j)
<1> SUFFICES ASSUME NEW types, NEW t, NEW env, NEW n, NEW again, Ready(j, types, t, env, n)
             PROVE  Fine(Means(j, env, again), Mint(j, t).typ)
  BY DEF Suits
<1> DEFINE u == RecMeans(j.p, env, again)
           v == RecMeans(j.q, env, again)
           a == RecMint(j.p, t).typ
           b == RecMint(j.q, t).typ
<1>1. /\ RecClosed(j.p, types) /\ RecKeepsTypes(j.p, t)
      /\ RecClosed(j.q, types) /\ RecKeepsTypes(j.q, t)
  BY ClosedForms, KeepsTypesForms DEF Ready
<1>2. Fine(u, a) /\ Fine(v, b)
  BY <1>1, PartSuits
<1>3. Mint(j, t).typ = CellJ(a, b)
  BY MintOfForms, MintedParts
<1>4. Means(j, env, again) = Strict(u, Strict(v, Cell(u, v)))
  BY MeansOfForms
<1> HIDE DEF u, v, a, b
<1> QED BY <1>2, <1>3, <1>4, FineCell

LEMMA SuitsIf ==
  ASSUME Tied, NEW j \in Expr, j.j = "if",
         Within(j.cond, j), Within(j.then, j), Within(j.after, j),
         Suits(j.cond), Suits(j.then), Suits(j.after)
  PROVE  Suits(j)
<1> SUFFICES ASSUME NEW types, NEW t, NEW env, NEW n, NEW again, Ready(j, types, t, env, n)
             PROVE  Fine(Means(j, env, again), Mint(j, t).typ)
  BY DEF Suits
<1> DEFINE c == RecMeans(j.cond, env, again)
           u == RecMeans(j.then, env, again)
           v == RecMeans(j.after, env, again)
           a == RecMint(j.then, t).typ
           b == RecMint(j.after, t).typ
<1>1. /\ RecClosed(j.cond, types) /\ RecKeepsTypes(j.cond, t)
      /\ RecClosed(j.then, types) /\ RecKeepsTypes(j.then, t)
      /\ RecClosed(j.after, types) /\ RecKeepsTypes(j.after, t)
  BY ClosedForms, KeepsTypesForms DEF Ready
<1>2. (c = Crash \/ Datum(c)) /\ Fine(u, a) /\ Fine(v, b)
  BY <1>1, PartSuits DEF Fine
<1>3. Mint(j, t).typ = ForkJ(a, b)
  BY MintOfForms, MintedParts
<1>4. Means(j, env, again) = DataOnly(c, IF c = True THEN u ELSE IF c = False THEN v ELSE Crash)
  BY MeansOfForms
<1> HIDE DEF c, u, v, a, b
<1>5. Fine(u, ForkJ(a, b)) /\ Fine(v, ForkJ(a, b))
  BY <1>2, FineFork
<1> QED BY <1>2, <1>3, <1>4, <1>5, FineChoice

LEMMA SuitsAssert ==
  ASSUME Tied, NEW j \in Expr, j.j = "assert",
         Within(j.cond, j), Within(j.then, j), Suits(j.cond), Suits(j.then)
  PROVE  Suits(j)
<1> SUFFICES ASSUME NEW types, NEW t, NEW env, NEW n, NEW again, Ready(j, types, t, env, n)
             PROVE  Fine(Means(j, env, again), Mint(j, t).typ)
  BY DEF Suits
<1> DEFINE c == RecMeans(j.cond, env, again)
           u == RecMeans(j.then, env, again)
           a == RecMint(j.then, t).typ
<1>1. /\ RecClosed(j.cond, types) /\ RecKeepsTypes(j.cond, t)
      /\ RecClosed(j.then, types) /\ RecKeepsTypes(j.then, t)
  BY ClosedForms, KeepsTypesForms DEF Ready
<1>2. (c = Crash \/ Datum(c)) /\ Fine(u, a)
  BY <1>1, PartSuits DEF Fine
<1>3. Mint(j, t).typ = a
  BY MintOfForms, MintedParts
<1>4. Means(j, env, again) =
        DataOnly(c, IF c = True THEN u ELSE IF c = False THEN Crash ELSE Crash)
  BY MeansOfForms
<1> HIDE DEF c, u, a
<1> QED BY <1>2, <1>3, <1>4, FineCrash, FineChoice

LEMMA SuitsPrint ==
  ASSUME Tied, NEW j \in Expr, j.j = "print", Within(j.next, j), Suits(j.next)
  PROVE  Suits(j)
<1> SUFFICES ASSUME NEW types, NEW t, NEW env, NEW n, NEW again, Ready(j, types, t, env, n)
             PROVE  Fine(Means(j, env, again), Mint(j, t).typ)
  BY DEF Suits
<1>1. RecClosed(j.next, types) /\ RecKeepsTypes(j.next, t)
  BY ClosedForms, KeepsTypesForms DEF Ready
<1>2. Fine(RecMeans(j.next, env, again), RecMint(j.next, t).typ)
  BY <1>1, PartSuits
<1>3. Mint(j, t).typ = RecMint(j.next, t).typ /\ Means(j, env, again) = RecMeans(j.next, env, again)
  BY MintOfForms, MintedParts, MeansOfForms
<1> QED BY <1>2, <1>3

LEMMA SuitsLet ==
  ASSUME Tied, NEW j \in Expr, j.j = "let", NEW x \in Name, j.typ = Named(NoneJ, x),
         Within(j.val, j), Within(j.next, j), Nest[j.next] < Nest[j], Suits(j.val), Suits(j.next)
  PROVE  Suits(j)
<1> SUFFICES ASSUME NEW types, NEW t, NEW env, NEW n, NEW again, Ready(j, types, t, env, n)
             PROVE  Fine(Means(j, env, again), Mint(j, t).typ)
  BY DEF Suits
<1> DEFINE more == <<Named(NoneJ, x)>> \o types
           u == RecMint(j.val, t).typ
           below == CellJ(Named(u, x), t)
           v == RecMeans(j.val, env, again)
           inner == Bind(j.typ, v, env)
           pushed == Pair(v, n)
<1>1. /\ Room(types, j) /\ types \in Bindings /\ Describes(types, t) /\ Holds(types, env, n)
      /\ Typed(types, t, env)
  BY DEF Ready, Place
<1>2. j.typ.name = x
  BY DEF Named, NoneJ
<1>3. RecClosed(j.val, types) /\ RecClosed(j.next, more)
  BY ClosedForms DEF Ready
<1>4. RecKeepsTypes(j.val, t) /\ RecKeepsTypes(j.next, below)
  BY <1>2, KeepsTypesForms DEF Ready
<1>5. j.val \in Expr /\ j.next \in Expr
  BY DEF Within
<1>6. Fine(v, u)
  BY <1>3, <1>4, PartSuits
<1>7. Plain(u)
  <2>1. Compiles(j.val)
    BY <1>5, CompilesStraight
  <2> QED BY <1>1, <1>3, <2>1, CompiledPart DEF Compiled
<1>8. Room(more, j.next) /\ Describes(more, below)
  <2>1. Binder(Named(u, x), x)
    BY <1>7, LetTypeOfPlain
  <2> QED BY <1>1, <2>1, RoomBound
<1>9. Mint(j, t).typ = RecMint(j.next, below).typ
  <2>1. Mint(j, t) = MintLet(j, t)
    BY MintOfForms
  <2>2. MintLet(j, t) = Minted(Push(RecMint(j.val, t).nock, RecMint(j.next, below).nock),
                               RecMint(j.next, below).typ)
    BY <1>7, MintOfLet
  <2> QED BY <2>1, <2>2, MintedParts
<1>10. Means(j, env, again) = Strict(v, RecMeans(j.next, inner, again))
  BY MeansOfForms
<1>11. CASE v = Crash
  <2>1. Strict(Crash, RecMeans(j.next, inner, again)) = Crash
    BY ValueFacts
  <2> HIDE DEF v, inner
  <2> QED BY <1>10, <1>11, <2>1, FineCrash
<1>12. CASE Datum(v) /\ HasType(v, u)
  <2>1. Holds(more, inner, pushed) /\ Typed(more, below, inner)
    <3> HIDE DEF v, u
    <3> QED BY <1>1, <1>7, <1>12, HoldsBound, TypedBound DEF Holds
  <2>2. Closed(j.next, more) /\ KeepsTypes(j.next, below)
        /\ RecMint(j.next, below) = Mint(j.next, below)
        /\ RecMeans(j.next, inner, again) = Means(j.next, inner, again)
    BY <1>3, <1>4, <1>5 DEF Tied
  <2>3. Ready(j.next, more, below, inner, pushed)
    <3> HIDE DEF more, below, inner, pushed
    <3> QED BY <1>8, <2>1, <2>2 DEF Ready, Place, Room
  <2>4. Fine(Means(j.next, inner, again), Mint(j.next, below).typ)
    <3> HIDE DEF more, below, inner, pushed
    <3> QED BY <2>3 DEF Suits
  <2>5. Strict(v, RecMeans(j.next, inner, again)) = RecMeans(j.next, inner, again)
    <3> HIDE DEF v, inner
    <3> QED BY <1>12, ValueFacts
  <2> HIDE DEF v, inner, below
  <2> QED BY <1>9, <1>10, <2>2, <2>4, <2>5
<1> HIDE DEF v, u
<1> QED BY <1>6, <1>11, <1>12 DEF Fine

LEMMA SuitsEdit ==
  ASSUME Tied, NEW j \in Expr, j.j = "edit", NEW target, target = [j |-> "limb", limbs |-> j.limb],
         IsName(j.limb), Within(target, j), Within(j.val, j), Within(j.next, j),
         Suits(j.val), Suits(j.next)
  PROVE  Suits(j)
<1> SUFFICES ASSUME NEW types, NEW t, NEW env, NEW n, NEW again, Ready(j, types, t, env, n)
             PROVE  Fine(Means(j, env, again), Mint(j, t).typ)
  BY DEF Suits
<1> DEFINE u == RecMint(j.val, t).typ
           v == RecMeans(j.val, env, again)
           later == Assign(env, j.limb, v)
<1>1. /\ types \in Bindings /\ Describes(types, t) /\ Holds(types, env, n) /\ Fits(types)
      /\ Room(types, j) /\ Typed(types, t, env)
  BY RoomFits DEF Ready, Place
<1>2. RecClosed(target, types) /\ RecClosed(j.val, types) /\ RecClosed(j.next, types)
  BY ClosedForms DEF Ready
<1>3. u = MintLimb(j.limb, t).typ /\ RecKeepsTypes(j.val, t) /\ RecKeepsTypes(j.next, t)
  BY KeepsTypesForms DEF Ready
<1>4. target \in Expr /\ j.next \in Expr
  BY DEF Within
<1>5. Fine(v, u)
  BY <1>2, <1>3, PartSuits
<1>6. PICK x \in Name : j.limb = <<NameL(x)>>
  BY DEF IsName
<1>7. IsBound(types, x)
  <2>1. target.j = "limb" /\ target.limbs = <<NameL(x)>>
    BY <1>6
  <2>2. Closed(target, types)
    BY <1>2, <1>4 DEF Tied
  <2> QED BY <1>1, <2>1, <2>2, ClosedName
<1>8. PICK m : LatestOf(types, x, m)
  BY <1>1, <1>7, LatestExists
<1>9. BoundType(types, t, m, u)
  <2>1. BoundType(types, t, m, MintLimb(<<NameL(x)>>, t).typ)
    BY <1>1, <1>8, CompiledName
  <2> QED BY <1>3, <1>6, <2>1
<1>10. Binding(types, env) /\ m \in 1..Len(env) /\ m \in 1..Len(types)
  BY <1>1, <1>8, LatestBinding DEF Holds, LatestOf
<1>11. Mint(j, t).typ = RecMint(j.next, t).typ
  <2>1. Mint(j, t) = MintEdit(j, t)
    BY MintOfForms
  <2>2. MintEdit(j, t) = Minted(Then(Edit(HeadAt(m), RecMint(j.val, t).nock, Axis(1)),
                                     RecMint(j.next, t).nock),
                                RecMint(j.next, t).typ)
    BY <1>1, <1>6, <1>8, MintOfEdit
  <2> QED BY <2>1, <2>2, MintedParts
<1>12. Means(j, env, again) = Strict(v, RecMeans(j.next, later, again))
  BY MeansOfForms
<1>13. CASE v = Crash
  <2>1. Strict(Crash, RecMeans(j.next, later, again)) = Crash
    BY ValueFacts
  <2> HIDE DEF v, later
  <2> QED BY <1>12, <1>13, <2>1, FineCrash
<1>14. CASE Datum(v) /\ HasType(v, u)
  <2> DEFINE after == Hax(HeadAt(m), v, n)
  <2>1. later = [env EXCEPT ![m].val = v]
    <3> HIDE DEF v
    <3> QED BY <1>1, <1>6, <1>8, <1>10, AssignName
  <2>2. Holds(types, later, after)
    <3> HIDE DEF v, later
    <3> QED BY <1>1, <1>10, <1>14, <2>1, HoldsEdited
  <2>3. Typed(types, t, later)
    <3> HIDE DEF v, u, later
    <3> QED BY <1>1, <1>9, <1>10, <1>14, <2>1, TypedEdited
  <2>4. Closed(j.next, types) /\ KeepsTypes(j.next, t)
        /\ RecMint(j.next, t) = Mint(j.next, t)
        /\ RecMeans(j.next, later, again) = Means(j.next, later, again)
    BY <1>2, <1>3, <1>4 DEF Tied
  <2>5. Ready(j.next, types, t, later, after)
    <3> HIDE DEF later, after
    <3> QED BY <1>1, <2>2, <2>3, <2>4, RoomWithin DEF Ready, Place
  <2>6. Fine(Means(j.next, later, again), Mint(j.next, t).typ)
    <3> HIDE DEF later, after
    <3> QED BY <2>5 DEF Suits
  <2>7. Strict(v, RecMeans(j.next, later, again)) = RecMeans(j.next, later, again)
    <3> HIDE DEF v, later
    <3> QED BY <1>14, ValueFacts
  <2> HIDE DEF v, later
  <2> QED BY <1>11, <1>12, <2>4, <2>6, <2>7
<1> HIDE DEF v, u
<1> QED BY <1>5, <1>13, <1>14 DEF Fine

LEMMA SuitsStraight ==
  ASSUME Tied, NEW j \in Expr
  PROVE  Suits(j)
<1> DEFINE Bad == {n \in Nat : \E e \in Expr : Size[e] = n /\ ~Suits(e)}
<1>1. Size \in [Expr -> Nat] /\ \A e \in Expr : IsStraight(e)
  BY StraightAssumption
<1>2. SUFFICES Bad = {}
  BY <1>1
<1>3. SUFFICES ASSUME Bad # {} PROVE FALSE
  OBVIOUS
<1>4. PICK n \in Bad : \A m \in Bad : n <= m
  <2>1. Bad \in SUBSET Nat
    OBVIOUS
  <2> HIDE DEF Bad
  <2> QED BY <1>3, <2>1, LeastNat
<1>5. PICK e \in Expr : Size[e] = n /\ ~Suits(e)
  BY <1>4
<1>6. ASSUME NEW d, Within(d, e) PROVE Suits(d)
  <2>1. d \in Expr /\ Size[d] < n /\ Size[d] \in Nat
    BY <1>1, <1>5, <1>6 DEF Within
  <2>2. ~(n <= Size[d]) /\ Size[d] \notin Bad
    BY <1>4, <2>1
  <2> QED BY <2>1, <2>2
<1> HIDE DEF Bad
<1>7. IsStraight(e)
  BY <1>1
<1>8. ASSUME e.j = "edit", Within([j |-> "limb", limbs |-> e.limb], e)
      PROVE  IsName(e.limb)
  <2> DEFINE target == [j |-> "limb", limbs |-> e.limb]
  <2>1. target \in Expr /\ target.j = "limb" /\ target.limbs = e.limb
    BY <1>8 DEF Within
  <2>2. IsStraight(target)
    BY <1>1, <2>1
  <2> HIDE DEF target
  <2> QED BY <2>1, <2>2 DEF IsStraight
<1>9. CASE (e.j = "atom" /\ e.n \in Nat) \/ e.j = "crash"
  BY <1>5, <1>9, SuitsLeaf
<1>10. CASE e.j = "limb" /\ IsName(e.limbs)
  BY <1>5, <1>10, SuitsName
<1>11. CASE e.j = "cell" /\ Within(e.p, e) /\ Within(e.q, e)
  BY <1>5, <1>6, <1>11, SuitsCell
<1>12. CASE e.j = "increment" /\ Within(e.val, e)
  BY <1>5, <1>6, <1>12, SuitsIncrement
<1>13. CASE e.j = "cell_check" /\ Within(e.val, e)
  BY <1>5, <1>6, <1>13, SuitsCellCheck
<1>14. CASE e.j = "eq" /\ Within(e.a, e) /\ Within(e.b, e)
  BY <1>5, <1>6, <1>14, SuitsComparison
<1>15. CASE e.j = "ne" /\ Within(e.a, e) /\ Within(e.b, e)
  BY <1>5, <1>6, <1>15, SuitsComparison
<1>16. CASE e.j = "if" /\ Within(e.cond, e) /\ Within(e.then, e) /\ Within(e.after, e)
  BY <1>5, <1>6, <1>16, SuitsIf
<1>17. CASE e.j = "assert" /\ Within(e.cond, e) /\ Within(e.then, e)
  BY <1>5, <1>6, <1>17, SuitsAssert
<1>18. CASE e.j = "print" /\ Within(e.body, e) /\ Within(e.next, e)
  BY <1>5, <1>6, <1>18, SuitsPrint
<1>19. CASE /\ e.j = "edit" /\ Within([j |-> "limb", limbs |-> e.limb], e)
            /\ Within(e.val, e) /\ Within(e.next, e)
  BY <1>5, <1>6, <1>8, <1>19, SuitsEdit
<1>20. CASE /\ e.j = "let" /\ \E x \in Name : e.typ = Named(NoneJ, x)
            /\ Within(e.val, e) /\ Within(e.next, e) /\ Nest[e.next] < Nest[e]
  <2>1. PICK x \in Name : e.typ = Named(NoneJ, x)
    BY <1>20
  <2>2. Suits(e.val) /\ Suits(e.next)
    BY <1>6, <1>20
  <2>3. Suits(e)
    BY <1>20, <2>1, <2>2, SuitsLet
  <2> QED BY <1>5, <2>3
<1> QED BY <1>7, <1>9, <1>10, <1>11, <1>12, <1>13, <1>14, <1>15, <1>16, <1>17, <1>18, <1>19, <1>20
        DEF IsStraight

\* The noun that such a program makes has the type that mint gives the program
\* (TypeDescribes), if every assignment keeps the type of its name, which the
\* compiler does not check.
THEOREM TypeSaysWhatIsMade ==
  ASSUME Tied
  PROVE  Spec => [](GivenStraight /\ KeepsTypes(program, AtomJ) => TypeDescribes)
<1>1. Inv => (GivenStraight /\ KeepsTypes(program, AtomJ) => TypeDescribes)
  <2> SUFFICES ASSUME Inv, GivenStraight, KeepsTypes(program, AtomJ),
                      phase = "ran", outcome # Crash
               PROVE  HasType(outcome, minted.typ)
    BY DEF TypeDescribes
  <2>1. program \in Expr /\ Room(<<>>, program) /\ Describes(<<>>, AtomJ)
    BY ProgramStraight
  <2>2. Closed(program, <<>>) /\ outcome = Meant
    BY ProgramRuns DEF Same
  <2>3. Ready(program, <<>>, AtomJ, <<>>, Atom(0))
    BY <2>1, <2>2, DescribesNothing, HoldsNothing, TypedNothing DEF Ready, Place
  <2>4. Fine(Means(program, <<>>, Fuel), Mint(program, AtomJ).typ)
    BY <2>1, <2>3, SuitsStraight DEF Suits
  <2>5. minted = Mint(program, AtomJ)
    BY DEF Inv
  <2> QED BY <2>2, <2>4, <2>5 DEF Fine, Meant
<1> QED BY <1>1, InvHolds, PTL
=============================================================================
