---------------------------- MODULE ParserProofs ----------------------------
(***************************************************************************)
(* For all tokens: whatever the parser has read, the calls under way find  *)
(* the values they need, leave one, and take the brackets that are open.   *)
(***************************************************************************)
EXTENDS ParserStack, SequenceTheorems, Iteration

(* How many values there will be, with the conditions that make it certain. *)

\* Entries that rely on the tokens around the one they are met at.
Fits(item, here) ==
  /\ item.do \in {"call", "expect", "build", "rename"} /\ item.n \in Nat
  /\ item.do = "expect" => item.what # End
  /\ item.do = "rename" => item.n = 1
  /\ item.do = "call" =>
       /\ item.what = "literal" => here.next \in Literal
       /\ item.what = "name" => here.next \in Names
       /\ item.what = "pair" => here.next = "("
       /\ item.what = "metatype" => here.next \in Type
       /\ item.what = "argument" => here.last = "(("

\* The number of values after an entry; -1 when there are too few, or when the
\* entry cannot be there.
Left(item, n, fits) == IF n >= Needs(item) /\ fits THEN n - Needs(item) + Leaves(item) ELSE -1
After(item, n, here) == Left(item, n, Fits(item, here))

\* The first of some entries is met here, the others anywhere.
Here == [last |-> Token(pos - 1), next |-> Token(pos)]
Anywhere == [last |-> End, next |-> End]
Place(k, here) == IF k = 1 THEN here ELSE Anywhere

Heights(entries, n, here) ==
  LET h[k \in Nat] == IF k = 0 THEN n ELSE After(entries[k], h[k - 1], Place(k, here))
  IN  h
Height(entries, n, here) == Heights(entries, n, here)[Len(entries)]

\* What is open after some entries.
Owed(entries) == [k \in DOMAIN entries |-> Owes(entries[k])]
Shut(entries, open) == Opened(Owed(entries), open)[Len(entries)]

\* What is open before the token at.
Open(at) == Opened(input, <<>>)[at - 1]

IsSeq(s) == s \in Seq(Range(s))
Tokens == Names \cup Literal \cup Keyword \cup Punctuator

Inv ==
  /\ input \in Seq(Tokens) /\ pos \in 1..(Len(input) + 1)
  /\ outcome.kind \in Kinds /\ outcome.at \in 0..(Len(input) + 1)
  /\ outcome.kind = "parsed" => todo = <<>> /\ pos = Len(input) + 1
  /\ IsSeq(todo) /\ IsSeq(vals)
  /\ Height(todo, Len(vals), Here) = 1
  /\ ~Swallowed => Shut(todo, Open(pos)) = <<>>
-----------------------------------------------------------------------------
(* Brackets.                                                               *)

Bracket == {"(", "((", "[", LBrace, ")", "]", RBrace}

LEMMA Differ ==
  /\ LBrace \notin {"(", "((", "[", ")", "]"} /\ LBrace # RBrace
  /\ RBrace \notin {"(", "((", "[", ")", "]"}
BY Zenon DEF LBrace, RBrace

LEMMA TakeFacts ==
  ASSUME NEW open, NEW t
  PROVE  /\ t \in DOMAIN Closing => Take(open, t) = <<Closing[t], open>>
         /\ t \notin DOMAIN Closing /\ t \in {")", RBrace, "]"} => Take(<<t, open>>, t) = open
         /\ t \notin DOMAIN Closing /\ t \notin {")", RBrace, "]"} => Take(open, t) = open
<1>1. ASSUME t \in DOMAIN Closing, t \notin {")", RBrace, "]"}
      PROVE  Take(open, t) = <<Closing[t], open>>
  BY <1>1 DEF Take
<1>2. ASSUME t \notin DOMAIN Closing, t \in {")", RBrace, "]"}
      PROVE  Take(<<t, open>>, t) = open
  BY <1>2 DEF Take
<1>3. ASSUME t \notin DOMAIN Closing, t \notin {")", RBrace, "]"}
      PROVE  Take(open, t) = open
  BY <1>3 DEF Take
<1>4. t \in DOMAIN Closing => t \notin {")", RBrace, "]"}
  BY Differ DEF Closing
<1> QED BY <1>1, <1>2, <1>3, <1>4

LEMMA NoBracket ==
  ASSUME NEW open, NEW t, t \notin Bracket
  PROVE  Take(open, t) = open
<1>1. t \notin DOMAIN Closing /\ t \notin {")", RBrace, "]"}
  BY DEF Closing, Bracket
<1> QED BY <1>1, TakeFacts

LEMMA Matching ==
  ASSUME NEW open
  PROVE  /\ Take(Take(open, "("), ")") = open
         /\ Take(Take(open, "(("), ")") = open
         /\ Take(Take(open, LBrace), RBrace) = open
         /\ Take(Take(open, "["), "]") = open
<1>1. DOMAIN Closing = {"(", "((", LBrace, "["}
  BY DEF Closing
<1>2. Closing["("] = ")" /\ Closing["(("] = ")" /\ Closing[LBrace] = RBrace
      /\ Closing["["] = "]"
  BY Differ DEF Closing
<1>3. \A b \in {"(", "((", LBrace, "["} : Take(open, b) = <<Closing[b], open>>
  BY <1>1, TakeFacts
<1>4. \A b \in {")", RBrace, "]"} : b \notin DOMAIN Closing
  BY <1>1, Differ
<1>5. \A b \in {")", RBrace, "]"} : Take(<<b, open>>, b) = open
  BY <1>4, TakeFacts
<1> QED BY <1>2, <1>3, <1>5

LEMMA NoneIsNoBracket == "none" \notin Bracket
BY Zenon DEF Bracket, LBrace, RBrace

\* Tokens that are no brackets.
Mark == {"-", ">", "=", ":", ".", "+", "?", "$", "&", "<", "*", "!", "/", "%", "@", "#",
         Semicolon, Comma, Underscore}

LEMMA MarksAreNoBrackets == Mark \cap Bracket = {}
BY Zenon DEF Mark, Bracket, LBrace, RBrace, Semicolon, Comma, Underscore

LEMMA TokenSets ==
  /\ End \notin Tokens
  /\ Names \cap Literal = {} /\ Names \cap Keyword = {} /\ Names \cap Punctuator = {}
  /\ Literal \cap Keyword = {} /\ Literal \cap Punctuator = {} /\ Keyword \cap Punctuator = {}
  /\ Tokens \cap Paired = {}
  /\ Bracket \subseteq Punctuator /\ Mark \subseteq Punctuator
  /\ (Names \cup Literal \cup Keyword \cup Mark) \cap Bracket = {}
<1> DEFINE kinds == <<Name, Type, Number, Text, Keyword, Punctuator, Paired>>
<1>1. \A i, j \in 1..7 : i # j => kinds[i] \cap kinds[j] = {}
  BY TokensAssumption
<1>2. /\ kinds[1] = Name /\ kinds[2] = Type /\ kinds[3] = Number /\ kinds[4] = Text
      /\ kinds[5] = Keyword /\ kinds[6] = Punctuator /\ kinds[7] = Paired
  OBVIOUS
<1> HIDE DEF kinds
<1>3. /\ Name \cap Number = {} /\ Name \cap Text = {}
      /\ Type \cap Number = {} /\ Type \cap Text = {}
      /\ Name \cap Keyword = {} /\ Type \cap Keyword = {} /\ Name \cap Punctuator = {}
      /\ Type \cap Punctuator = {} /\ Number \cap Keyword = {} /\ Text \cap Keyword = {}
      /\ Number \cap Punctuator = {} /\ Text \cap Punctuator = {}
      /\ Keyword \cap Punctuator = {}
  BY <1>1, <1>2
<1>4. /\ Name \cap Paired = {} /\ Type \cap Paired = {} /\ Number \cap Paired = {}
      /\ Text \cap Paired = {} /\ Keyword \cap Paired = {} /\ Punctuator \cap Paired = {}
  BY <1>1, <1>2
<1>5. Bracket \subseteq Punctuator /\ Mark \subseteq Punctuator
  BY DEF Bracket, Mark, Punctuator
<1>6. End \in Paired
  BY DEF Paired
<1> QED BY <1>3, <1>4, <1>5, <1>6, MarksAreNoBrackets DEF Names, Literal, Tokens
-----------------------------------------------------------------------------
(* The recursions.                                                         *)

\* The four recursions on entries: what they leave open, the values after them,
\* the same with the conditions, and the ranks.
NextEntry(which, entries, start, f, k) ==
  IF k = 0 THEN start
  ELSE IF which = "open" THEN Take(f[k - 1], entries[k])
  ELSE IF which = "values" THEN f[k - 1] - Needs(entries[k]) + Leaves(entries[k])
  ELSE IF which = "ranks"
         THEN Rank(entries[k]) + (IF Tokenless(entries[k]) THEN f[k - 1] ELSE 0)
  ELSE Left(entries[k].item, f[k - 1], entries[k].fits)

\* Each of them has a solution.
LEMMA EntriesUnfold ==
  ASSUME NEW which, NEW entries, NEW start
  PROVE  \E f : f = [k \in Nat |-> NextEntry(which, entries, start, f, k)]
<1> DEFINE Entry(f, k) == NextEntry(which, entries, start, f, k)
           IsPrefix(g, n) == g = [i \in 0..n |-> Entry(g, i)]
<1>0. ASSUME NEW f, NEW g, NEW k \in Nat, k # 0 => f[k - 1] = g[k - 1]
      PROVE  Entry(f, k) = Entry(g, k)
  BY <1>0 DEF NextEntry
<1> HIDE DEF Entry
<1>1. \A n \in Nat : \E g : IsPrefix(g, n)
  <2> DEFINE Missing == {n \in Nat : ~\E g : IsPrefix(g, n)}
  <2>1. SUFFICES ASSUME Missing # {} PROVE FALSE
    OBVIOUS
  <2>2. PICK n \in Missing : \A m \in Missing : n <= m
    <3>1. Missing \in SUBSET Nat
      OBVIOUS
    <3> HIDE DEF Missing
    <3> QED BY <2>1, <3>1, LeastNat
  <2>3. n \in Nat
    BY <2>2
  <2>4. CASE n = 0
    <3> DEFINE none == [i \in {} |-> i]
               g == [i \in 0..n |-> Entry(none, i)]
    <3>1. ASSUME NEW i \in 0..n PROVE Entry(none, i) = Entry(g, i)
      <4>1. i \in Nat /\ i = 0
        BY <2>4
      <4> HIDE DEF g, none
      <4> QED BY <1>0, <4>1
    <3>2. IsPrefix(g, n)
      BY <3>1
    <3> QED BY <2>2, <3>2
  <2>5. CASE n # 0
    <3>1. n - 1 \in Nat /\ ~(n <= n - 1)
      BY <2>3, <2>5
    <3>2. PICK h : IsPrefix(h, n - 1)
      BY <2>2, <3>1
    <3> DEFINE g == [i \in 0..n |-> Entry(h, i)]
    <3>3. ASSUME NEW i \in 0..(n - 1) PROVE h[i] = g[i]
      <4>1. i \in 0..n
        BY <3>1
      <4>2. h[i] = Entry(h, i)
        BY <3>2
      <4> QED BY <4>1, <4>2
    <3>4. ASSUME NEW i \in 0..n PROVE Entry(h, i) = Entry(g, i)
      <4>1. i \in Nat /\ (i # 0 => i - 1 \in 0..(n - 1))
        BY <2>3
      <4>2. i # 0 => h[i - 1] = g[i - 1]
        BY <3>3, <4>1
      <4> HIDE DEF g
      <4> QED BY <1>0, <4>1, <4>2
    <3>5. IsPrefix(g, n)
      BY <3>4
    <3> QED BY <2>2, <3>5
  <2> QED BY <2>4, <2>5
<1>2. ASSUME NEW m \in Nat, NEW n \in Nat, NEW g, NEW h, IsPrefix(g, m), IsPrefix(h, n), m <= n
      PROVE  \A i \in 0..m : g[i] = h[i]
  <2> DEFINE Apart == {i \in 0..m : g[i] # h[i]}
  <2>1. SUFFICES ASSUME Apart # {} PROVE FALSE
    OBVIOUS
  <2>2. Apart \in SUBSET Nat
    OBVIOUS
  <2>3. PICK i \in Apart : \A j \in Apart : i <= j
    BY <2>1, <2>2, LeastNat
  <2>4. i \in Nat /\ i \in 0..m /\ i \in 0..n
    BY <1>2, <2>3
  <2>5. i # 0 => i - 1 \in 0..m /\ ~(i <= i - 1)
    BY <2>4
  <2>6. i # 0 => g[i - 1] = h[i - 1]
    BY <2>3, <2>5
  <2>7. Entry(g, i) = Entry(h, i)
    BY <1>0, <2>4, <2>6
  <2>8. g[i] = Entry(g, i) /\ h[i] = Entry(h, i)
    BY <1>2, <2>4
  <2> QED BY <2>3, <2>7, <2>8
<1> DEFINE choice(n) == CHOOSE g : IsPrefix(g, n)
<1>3. ASSUME NEW n \in Nat PROVE IsPrefix(choice(n), n)
  <2> HIDE DEF IsPrefix
  <2> QED BY <1>1
<1> DEFINE f == [n \in Nat |-> choice(n)[n]]
<1> HIDE DEF choice
<1>4. ASSUME NEW k \in Nat PROVE f[k] = Entry(f, k)
  <2>1. k # 0 => k - 1 \in Nat /\ k - 1 <= k /\ k - 1 \in 0..(k - 1)
    OBVIOUS
  <2>2. k # 0 => choice(k - 1)[k - 1] = choice(k)[k - 1]
    <3> HIDE DEF IsPrefix
    <3> QED BY <1>2, <1>3, <2>1
  <2>3. k # 0 => f[k - 1] = choice(k)[k - 1]
    BY <2>1, <2>2
  <2>4. Entry(f, k) = Entry(choice(k), k)
    <3> HIDE DEF f, IsPrefix
    <3> QED BY <1>0, <2>3
  <2>5. choice(k)[k] = Entry(choice(k), k)
    <3>1. IsPrefix(choice(k), k) /\ k \in 0..k
      BY <1>3
    <3> QED BY <3>1
  <2> QED BY <2>4, <2>5
<1>5. f = [k \in Nat |-> f[k]]
  OBVIOUS
<1> HIDE DEF f
<1>6. f = [k \in Nat |-> Entry(f, k)]
  BY <1>4, <1>5
<1> QED BY <1>6 DEF Entry

\* What is open after one more token.
LEMMA OpenedUnfolds ==
  ASSUME NEW ts, NEW open
  PROVE  /\ Opened(ts, open)[0] = open
         /\ \A k \in Nat : k # 0 => Opened(ts, open)[k] = Take(Opened(ts, open)[k - 1], ts[k])
<1> DEFINE Unfolds(f) == f = [k \in Nat |-> IF k = 0 THEN open ELSE Take(f[k - 1], ts[k])]
           o == CHOOSE f : Unfolds(f)
<1>1. PICK f : f = [k \in Nat |-> NextEntry("open", ts, open, f, k)]
  BY EntriesUnfold
<1>2. Unfolds(f)
  BY <1>1 DEF NextEntry
<1>3. Unfolds(o)
  <2> HIDE DEF Unfolds
  <2> QED BY <1>2
<1>4. Opened(ts, open) = o
  BY DEF Opened
<1> HIDE DEF o
<1>5. \A k \in Nat : o[k] = IF k = 0 THEN open ELSE Take(o[k - 1], ts[k])
  BY <1>3
<1> HIDE DEF Unfolds
<1> QED BY <1>4, <1>5

\* The number of values after one more entry.
LEMMA HeightsUnfold ==
  ASSUME NEW entries, NEW n, NEW here
  PROVE  /\ Heights(entries, n, here)[0] = n
         /\ \A k \in Nat : k # 0 =>
              Heights(entries, n, here)[k]
                = After(entries[k], Heights(entries, n, here)[k - 1], Place(k, here))
<1> DEFINE Unfolds(f) ==
             f = [k \in Nat |-> IF k = 0 THEN n
                                ELSE After(entries[k], f[k - 1], Place(k, here))]
           h == CHOOSE f : Unfolds(f)
           met == [k \in Nat |-> [item |-> entries[k],
                                  fits |-> Fits(entries[k], Place(k, here))]]
<1>1. PICK f : f = [k \in Nat |-> NextEntry("heights", met, n, f, k)]
  BY EntriesUnfold
<1>2. Unfolds(f)
  BY <1>1 DEF NextEntry, After
<1>3. Unfolds(h)
  <2> HIDE DEF Unfolds
  <2> QED BY <1>2
<1>4. Heights(entries, n, here) = h
  BY DEF Heights
<1> HIDE DEF h
<1>5. \A k \in Nat : h[k] = IF k = 0 THEN n ELSE After(entries[k], h[k - 1], Place(k, here))
  BY <1>3
<1> HIDE DEF Unfolds
<1> QED BY <1>4, <1>5

LEMMA ValuesUnfold ==
  /\ Values[0] = Len(vals)
  /\ \A k \in Nat : k # 0 => Values[k] = Values[k - 1] - Needs(todo[k]) + Leaves(todo[k])
<1> DEFINE Unfolds(f) ==
             f = [k \in Nat |-> IF k = 0 THEN Len(vals)
                                ELSE f[k - 1] - Needs(todo[k]) + Leaves(todo[k])]
           n == CHOOSE f : Unfolds(f)
<1>1. PICK f : f = [k \in Nat |-> NextEntry("values", todo, Len(vals), f, k)]
  BY EntriesUnfold
<1>2. Unfolds(f)
  BY <1>1 DEF NextEntry
<1>3. Unfolds(n)
  <2> HIDE DEF Unfolds
  <2> QED BY <1>2
<1>4. Values = n
  BY DEF Values
<1> HIDE DEF n
<1>5. \A k \in Nat : n[k] = IF k = 0 THEN Len(vals)
                           ELSE n[k - 1] - Needs(todo[k]) + Leaves(todo[k])
  BY <1>3
<1> HIDE DEF Unfolds
<1> QED BY <1>4, <1>5

\* The ranks of the last entries, and of one more.
Lasts(entries, f) ==
  f = [k \in Nat |-> IF k = 0 THEN 0
                     ELSE LET item == entries[Len(entries) + 1 - k]
                          IN  Rank(item) + (IF Tokenless(item) THEN f[k - 1] ELSE 0)]

LEMMA RanksUnfold ==
  ASSUME NEW entries
  PROVE  \E f : Lasts(entries, f) /\ Ranks(entries) = f[Len(entries)]
<1> DEFINE back == [k \in Nat |-> entries[Len(entries) + 1 - k]]
           r == CHOOSE f : Lasts(entries, f)
<1>1. PICK f : f = [k \in Nat |-> NextEntry("ranks", back, 0, f, k)]
  BY EntriesUnfold
<1>2. Lasts(entries, f)
  BY <1>1 DEF NextEntry, Lasts
<1>3. Lasts(entries, r)
  BY <1>2
<1>4. Ranks(entries) = r[Len(entries)]
  BY DEF Ranks, Lasts
<1> QED BY <1>3, <1>4
-----------------------------------------------------------------------------
(* What entries do one after another.                                      *)

LEMMA SeqFacts ==
  ASSUME NEW s, IsSeq(s)
  PROVE  /\ Len(s) \in Nat /\ DOMAIN s = 1..Len(s)
         /\ s # <<>> => Len(s) > 0 /\ IsSeq(Tail(s)) /\ Head(s) = s[1]
<1>1. Len(s) \in Nat /\ DOMAIN s = 1..Len(s)
  BY LenProperties DEF IsSeq
<1>2. s # <<>> => Len(s) > 0 /\ Tail(s) \in Seq(Range(s))
  BY HeadTailProperties, EmptySeq DEF IsSeq
<1>3. s # <<>> => IsSeq(Tail(s))
  BY <1>2, SeqOfRange DEF IsSeq
<1> QED BY <1>1, <1>2, <1>3

LEMMA ConcatFacts ==
  ASSUME NEW a, NEW b, IsSeq(a), IsSeq(b)
  PROVE  /\ IsSeq(a \o b) /\ Len(a \o b) = Len(a) + Len(b)
         /\ \A k \in 1..Len(a) : (a \o b)[k] = a[k]
         /\ \A k \in 1..Len(b) : (a \o b)[Len(a) + k] = b[k]
         /\ <<>> \o b = b
<1> DEFINE S == Range(a) \cup Range(b)
<1>1. a \in Seq(S) /\ b \in Seq(S)
  BY SeqMonotonic DEF IsSeq
<1>2. Len(a) \in Nat /\ Len(b) \in Nat
  BY <1>1, LenProperties
<1> HIDE DEF S
<1>3. /\ a \o b \in Seq(S) /\ Len(a \o b) = Len(a) + Len(b)
      /\ \A i \in 1..(Len(a) + Len(b)) : (a \o b)[i]
           = IF i <= Len(a) THEN a[i] ELSE b[i - Len(a)]
  BY <1>1, ConcatProperties
<1>4. IsSeq(a \o b)
  BY <1>3, SeqOfRange DEF IsSeq
<1>5. <<>> \o b = b
  BY <1>1, ConcatEmptySeq
<1> QED BY <1>2, <1>3, <1>4, <1>5

\* Too few values stay too few.
LEMMA HeightsSink ==
  ASSUME NEW entries, NEW n, NEW here, NEW k \in Nat, Heights(entries, n, here)[k] = -1
  PROVE  \A j \in Nat : j >= k => Heights(entries, n, here)[j] = -1
<1> DEFINE h == Heights(entries, n, here)
           Bad == {j \in Nat : j >= k /\ h[j] # -1}
<1>1. \A j \in Nat : j # 0 => h[j] = After(entries[j], h[j - 1], Place(j, here))
  BY HeightsUnfold
<1>2. h[k] = -1
  OBVIOUS
<1> HIDE DEF h
<1> SUFFICES ASSUME Bad # {} PROVE FALSE
  BY DEF h
<1>3. PICK j \in Bad : \A i \in Bad : j <= i
  BY LeastNat
<1>4. j \in Nat /\ j # k /\ j > k /\ j - 1 \in Nat /\ j - 1 >= k
  BY <1>2, <1>3
<1>5. h[j - 1] = -1
  BY <1>3, <1>4
<1>6. Fits(entries[j], Place(j, here)) => Needs(entries[j]) \in Nat
  BY DEF Fits, Needs
<1>7. After(entries[j], -1, Place(j, here)) = -1
  BY <1>6 DEF After, Left
<1> QED BY <1>1, <1>3, <1>4, <1>5, <1>7

\* One sequence of entries, and then another.
LEMMA HeightConcat ==
  ASSUME NEW a, NEW b, IsSeq(a), IsSeq(b), a # <<>>, NEW n, NEW here
  PROVE  Height(a \o b, n, here) = Height(b, Height(a, n, here), Anywhere)
<1> DEFINE c == a \o b
           h == Heights(c, n, here)
           f == Heights(a, n, here)
           g == Heights(b, Height(a, n, here), Anywhere)
           m == Len(a)
<1>1. /\ h[0] = n /\ \A k \in Nat : k # 0 => h[k] = After(c[k], h[k - 1], Place(k, here))
      /\ f[0] = n /\ \A k \in Nat : k # 0 => f[k] = After(a[k], f[k - 1], Place(k, here))
      /\ g[0] = f[m]
         /\ \A k \in Nat : k # 0 => g[k] = After(b[k], g[k - 1], Place(k, Anywhere))
  <2>1. f[m] = Height(a, n, here)
    BY DEF Height
  <2>2. h[0] = n /\ \A k \in Nat : k # 0 => h[k] = After(c[k], h[k - 1], Place(k, here))
    <3> HIDE DEF c
    <3> QED BY HeightsUnfold
  <2>3. f[0] = n /\ \A k \in Nat : k # 0 => f[k] = After(a[k], f[k - 1], Place(k, here))
    BY HeightsUnfold
  <2>4. /\ g[0] = Height(a, n, here)
        /\ \A k \in Nat : k # 0 => g[k] = After(b[k], g[k - 1], Place(k, Anywhere))
    BY HeightsUnfold
  <2> HIDE DEF h, f, g, c, m
  <2> QED BY <2>1, <2>2, <2>3, <2>4
<1>2. /\ m \in Nat /\ m > 0 /\ Len(b) \in Nat /\ Len(c) = m + Len(b)
      /\ \A k \in 1..m : c[k] = a[k]
      /\ \A k \in 1..Len(b) : c[m + k] = b[k]
  BY SeqFacts, ConcatFacts
<1>3. Height(c, n, here) = h[Len(c)] /\ Height(b, Height(a, n, here), Anywhere) = g[Len(b)]
  BY DEF Height
<1> HIDE DEF h, f, g, m, c
<1>4. \A k \in 0..m : h[k] = f[k]
  <2> DEFINE Bad == {k \in 0..m : h[k] # f[k]}
  <2> SUFFICES ASSUME Bad # {} PROVE FALSE
    OBVIOUS
  <2>1. Bad \in SUBSET Nat
    BY <1>2
  <2>2. PICK k \in Bad : \A i \in Bad : k <= i
    BY <2>1, LeastNat
  <2>3. k \in 1..m /\ k \in Nat /\ k # 0 /\ k - 1 \in 0..m /\ k - 1 \notin Bad
    BY <1>1, <1>2, <2>2
  <2>4. h[k - 1] = f[k - 1] /\ c[k] = a[k]
    BY <1>2, <2>3
  <2> QED BY <1>1, <2>2, <2>3, <2>4
<1>5. \A k \in 0..Len(b) : h[m + k] = g[k]
  <2> DEFINE Bad == {k \in 0..Len(b) : h[m + k] # g[k]}
  <2> SUFFICES ASSUME Bad # {} PROVE FALSE
    OBVIOUS
  <2>1. Bad \in SUBSET Nat
    BY <1>2
  <2>2. PICK k \in Bad : \A i \in Bad : k <= i
    BY <2>1, LeastNat
  <2>3. k # 0
    <3>1. m \in 0..m /\ m + 0 = m
      BY <1>2
    <3> QED BY <1>1, <1>4, <2>2, <3>1
  <2>4. /\ k \in 1..Len(b) /\ k \in Nat /\ k - 1 \in 0..Len(b) /\ k - 1 \notin Bad
        /\ m + k \in Nat /\ m + k # 0 /\ m + k # 1 /\ (m + k) - 1 = m + (k - 1)
    BY <1>2, <2>2, <2>3
  <2>5. Place(m + k, here) = Anywhere /\ Place(k, Anywhere) = Anywhere
    BY <2>4 DEF Place
  <2>6. h[m + (k - 1)] = g[k - 1] /\ c[m + k] = b[k]
    BY <1>2, <2>4
  <2>7. h[m + k] = After(b[k], h[m + (k - 1)], Anywhere)
        /\ g[k] = After(b[k], g[k - 1], Anywhere)
    BY <1>1, <2>3, <2>4, <2>5, <2>6
  <2> QED BY <2>2, <2>6, <2>7
<1> QED BY <1>2, <1>3, <1>5 DEF c

LEMMA ShutConcat ==
  ASSUME NEW a, NEW b, IsSeq(a), IsSeq(b), NEW open
  PROVE  Shut(a \o b, open) = Shut(b, Shut(a, open))
<1> DEFINE h == Opened(Owed(a \o b), open)
           f == Opened(Owed(a), open)
           g == Opened(Owed(b), Shut(a, open))
           m == Len(a)
           c == a \o b
<1>1. /\ h[0] = open /\ \A k \in Nat : k # 0 => h[k] = Take(h[k - 1], Owed(c)[k])
      /\ f[0] = open /\ \A k \in Nat : k # 0 => f[k] = Take(f[k - 1], Owed(a)[k])
      /\ g[0] = f[m] /\ \A k \in Nat : k # 0 => g[k] = Take(g[k - 1], Owed(b)[k])
  BY OpenedUnfolds DEF Shut
<1>2. /\ m \in Nat /\ Len(b) \in Nat /\ Len(c) = m + Len(b)
      /\ \A k \in 1..m : c[k] = a[k]
      /\ \A k \in 1..Len(b) : c[m + k] = b[k]
      /\ DOMAIN a = 1..m /\ DOMAIN b = 1..Len(b) /\ DOMAIN c = 1..Len(c)
  BY SeqFacts, ConcatFacts
<1>3. Shut(c, open) = h[Len(c)] /\ Shut(b, Shut(a, open)) = g[Len(b)]
  BY DEF Shut
<1>0. /\ \A k \in 1..m : Owed(c)[k] = Owed(a)[k]
      /\ \A k \in 1..Len(b) : Owed(c)[m + k] = Owed(b)[k]
  <2> HIDE DEF m, c
  <2>1. \A k \in 1..Len(c) : Owed(c)[k] = Owes(c[k])
    BY <1>2 DEF Owed
  <2>2. ASSUME NEW k \in 1..m PROVE Owed(c)[k] = Owed(a)[k]
    <3>1. k \in 1..Len(c) /\ Owed(a)[k] = Owes(a[k])
      BY <1>2 DEF Owed
    <3> QED BY <1>2, <2>1, <3>1
  <2>3. ASSUME NEW k \in 1..Len(b) PROVE Owed(c)[m + k] = Owed(b)[k]
    <3>1. m + k \in 1..Len(c) /\ Owed(b)[k] = Owes(b[k])
      BY <1>2 DEF Owed
    <3> QED BY <1>2, <2>1, <3>1
  <2> QED BY <2>2, <2>3
<1> HIDE DEF h, f, g, m, c
<1>4. \A k \in 0..m : h[k] = f[k]
  <2> DEFINE Bad == {k \in 0..m : h[k] # f[k]}
  <2> SUFFICES ASSUME Bad # {} PROVE FALSE
    OBVIOUS
  <2>1. Bad \in SUBSET Nat
    BY <1>2
  <2>2. PICK k \in Bad : \A i \in Bad : k <= i
    BY <2>1, LeastNat
  <2>3. k \in 1..m /\ k \in Nat /\ k # 0 /\ k - 1 \in 0..m /\ k - 1 \notin Bad
    BY <1>1, <1>2, <2>2
  <2> QED BY <1>0, <1>1, <1>2, <2>2, <2>3
<1>5. \A k \in 0..Len(b) : h[m + k] = g[k]
  <2> DEFINE Bad == {k \in 0..Len(b) : h[m + k] # g[k]}
  <2> SUFFICES ASSUME Bad # {} PROVE FALSE
    OBVIOUS
  <2>1. Bad \in SUBSET Nat
    BY <1>2
  <2>2. PICK k \in Bad : \A i \in Bad : k <= i
    BY <2>1, LeastNat
  <2>3. k # 0
    <3>1. m \in 0..m /\ m + 0 = m
      BY <1>2
    <3> QED BY <1>1, <1>4, <2>2, <3>1
  <2>4. /\ k \in 1..Len(b) /\ k \in Nat /\ k - 1 \in 0..Len(b) /\ k - 1 \notin Bad
        /\ m + k \in Nat /\ m + k # 0 /\ (m + k) - 1 = m + (k - 1)
    BY <1>2, <2>2, <2>3
  <2>5. h[m + (k - 1)] = g[k - 1] /\ Owed(c)[m + k] = Owed(b)[k]
    BY <1>0, <2>4
  <2>6. h[m + k] = Take(h[m + (k - 1)], Owed(c)[m + k]) /\ g[k] = Take(g[k - 1], Owed(b)[k])
    BY <1>1, <2>3, <2>4
  <2> QED BY <2>2, <2>5, <2>6
<1> QED BY <1>2, <1>3, <1>5 DEF c

(* The entries of a tuple, one by one.                                      *)

LEMMA Entries0 ==
  ASSUME NEW n, NEW here, NEW open
  PROVE  IsSeq(<<>>) /\ Height(<<>>, n, here) = n /\ Shut(<<>>, open) = open
<1>1. Len(<<>>) = 0 /\ IsSeq(<<>>)
  BY EmptySeq DEF IsSeq
<1> QED BY <1>1, HeightsUnfold, OpenedUnfolds DEF Height, Shut

LEMMA Entries1 ==
  ASSUME NEW a, NEW n, NEW here, NEW open
  PROVE  /\ IsSeq(<<a>>)
         /\ Height(<<a>>, n, here)
              = After(a, n, here)
         /\ Shut(<<a>>, open)
              = Take(open, Owes(a))
<1> DEFINE entries == <<a>>
<1>1. /\ Len(entries) = 1 /\ DOMAIN entries = 1..1
      /\ entries \in Seq({a})
      /\ entries[1] = a
  OBVIOUS
<1>2. IsSeq(entries)
  BY <1>1, SeqOfRange DEF IsSeq
<1> HIDE DEF entries
<1>3. /\ Owed(entries)[1] = Owes(a)
  BY <1>1 DEF Owed
<1>4. /\ \A k \in {1} :
           /\ Heights(entries, n, here)[k]
                = After(entries[k], Heights(entries, n, here)[k - 1], Place(k, here))
           /\ Opened(Owed(entries), open)[k]
                = Take(Opened(Owed(entries), open)[k - 1], Owed(entries)[k])
      /\ Heights(entries, n, here)[0] = n /\ Opened(Owed(entries), open)[0] = open
  BY HeightsUnfold, OpenedUnfolds
<1>5. /\ Place(1, here) = here
  BY DEF Place
<1> QED BY <1>1, <1>2, <1>3, <1>4, <1>5 DEF Height, Shut, entries

LEMMA Entries2 ==
  ASSUME NEW a, NEW b, NEW n, NEW here, NEW open
  PROVE  /\ IsSeq(<<a, b>>)
         /\ Height(<<a, b>>, n, here)
              = After(b, After(a, n, here), Anywhere)
         /\ Shut(<<a, b>>, open)
              = Take(Take(open, Owes(a)), Owes(b))
<1> DEFINE entries == <<a, b>>
<1>1. /\ Len(entries) = 2 /\ DOMAIN entries = 1..2
      /\ entries \in Seq({a, b})
      /\ entries[1] = a /\ entries[2] = b
  OBVIOUS
<1>2. IsSeq(entries)
  BY <1>1, SeqOfRange DEF IsSeq
<1> HIDE DEF entries
<1>3. /\ Owed(entries)[1] = Owes(a) /\ Owed(entries)[2] = Owes(b)
  BY <1>1 DEF Owed
<1>4. /\ \A k \in {1, 2} :
           /\ Heights(entries, n, here)[k]
                = After(entries[k], Heights(entries, n, here)[k - 1], Place(k, here))
           /\ Opened(Owed(entries), open)[k]
                = Take(Opened(Owed(entries), open)[k - 1], Owed(entries)[k])
      /\ Heights(entries, n, here)[0] = n /\ Opened(Owed(entries), open)[0] = open
  BY HeightsUnfold, OpenedUnfolds
<1>5. /\ Place(1, here) = here /\ Place(2, here) = Anywhere
  BY DEF Place
<1> QED BY <1>1, <1>2, <1>3, <1>4, <1>5 DEF Height, Shut, entries

LEMMA Entries3 ==
  ASSUME NEW a, NEW b, NEW c, NEW n, NEW here, NEW open
  PROVE  /\ IsSeq(<<a, b, c>>)
         /\ Height(<<a, b, c>>, n, here)
              = After(c, After(b, After(a, n, here), Anywhere), Anywhere)
         /\ Shut(<<a, b, c>>, open)
              = Take(Take(Take(open, Owes(a)), Owes(b)), Owes(c))
<1> DEFINE entries == <<a, b, c>>
<1>1. /\ Len(entries) = 3 /\ DOMAIN entries = 1..3
      /\ entries \in Seq({a, b, c})
      /\ entries[1] = a /\ entries[2] = b /\ entries[3] = c
  OBVIOUS
<1>2. IsSeq(entries)
  BY <1>1, SeqOfRange DEF IsSeq
<1> HIDE DEF entries
<1>3. /\ Owed(entries)[1] = Owes(a) /\ Owed(entries)[2] = Owes(b)
      /\ Owed(entries)[3] = Owes(c)
  BY <1>1 DEF Owed
<1>4. /\ \A k \in {1, 2, 3} :
           /\ Heights(entries, n, here)[k]
                = After(entries[k], Heights(entries, n, here)[k - 1], Place(k, here))
           /\ Opened(Owed(entries), open)[k]
                = Take(Opened(Owed(entries), open)[k - 1], Owed(entries)[k])
      /\ Heights(entries, n, here)[0] = n /\ Opened(Owed(entries), open)[0] = open
  BY HeightsUnfold, OpenedUnfolds
<1>5. /\ Place(1, here) = here /\ Place(2, here) = Anywhere /\ Place(3, here) = Anywhere
  BY DEF Place
<1> QED BY <1>1, <1>2, <1>3, <1>4, <1>5 DEF Height, Shut, entries

LEMMA Entries4 ==
  ASSUME NEW a, NEW b, NEW c, NEW d, NEW n, NEW here, NEW open
  PROVE  /\ IsSeq(<<a, b, c, d>>)
         /\ Height(<<a, b, c, d>>, n, here)
              = After(d, After(c, After(b, After(a, n, here), Anywhere), Anywhere),
                  Anywhere)
         /\ Shut(<<a, b, c, d>>, open)
              = Take(Take(Take(Take(open, Owes(a)), Owes(b)), Owes(c)), Owes(d))
<1> DEFINE entries == <<a, b, c, d>>
<1>1. /\ Len(entries) = 4 /\ DOMAIN entries = 1..4
      /\ entries \in Seq({a, b, c, d})
      /\ entries[1] = a /\ entries[2] = b /\ entries[3] = c /\ entries[4] = d
  OBVIOUS
<1>2. IsSeq(entries)
  BY <1>1, SeqOfRange DEF IsSeq
<1> HIDE DEF entries
<1>3. /\ Owed(entries)[1] = Owes(a) /\ Owed(entries)[2] = Owes(b)
      /\ Owed(entries)[3] = Owes(c) /\ Owed(entries)[4] = Owes(d)
  BY <1>1 DEF Owed
<1>4. /\ \A k \in {1, 2, 3, 4} :
           /\ Heights(entries, n, here)[k]
                = After(entries[k], Heights(entries, n, here)[k - 1], Place(k, here))
           /\ Opened(Owed(entries), open)[k]
                = Take(Opened(Owed(entries), open)[k - 1], Owed(entries)[k])
      /\ Heights(entries, n, here)[0] = n /\ Opened(Owed(entries), open)[0] = open
  BY HeightsUnfold, OpenedUnfolds
<1>5. /\ Place(1, here) = here /\ Place(2, here) = Anywhere /\ Place(3, here) = Anywhere
      /\ Place(4, here) = Anywhere
  BY DEF Place
<1> QED BY <1>1, <1>2, <1>3, <1>4, <1>5 DEF Height, Shut, entries

LEMMA Entries5 ==
  ASSUME NEW a, NEW b, NEW c, NEW d, NEW e, NEW n, NEW here, NEW open
  PROVE  /\ IsSeq(<<a, b, c, d, e>>)
         /\ Height(<<a, b, c, d, e>>, n, here)
              = After(e, After(d, After(c, After(b, After(a, n, here), Anywhere),
                  Anywhere), Anywhere), Anywhere)
         /\ Shut(<<a, b, c, d, e>>, open)
              = Take(Take(Take(Take(Take(open, Owes(a)), Owes(b)), Owes(c)), Owes(d)),
                  Owes(e))
<1> DEFINE entries == <<a, b, c, d, e>>
<1>1. /\ Len(entries) = 5 /\ DOMAIN entries = 1..5
      /\ entries \in Seq({a, b, c, d, e})
      /\ entries[1] = a /\ entries[2] = b /\ entries[3] = c /\ entries[4] = d
      /\ entries[5] = e
  OBVIOUS
<1>2. IsSeq(entries)
  BY <1>1, SeqOfRange DEF IsSeq
<1> HIDE DEF entries
<1>3. /\ Owed(entries)[1] = Owes(a) /\ Owed(entries)[2] = Owes(b)
      /\ Owed(entries)[3] = Owes(c) /\ Owed(entries)[4] = Owes(d)
      /\ Owed(entries)[5] = Owes(e)
  BY <1>1 DEF Owed
<1>4. /\ \A k \in {1, 2, 3, 4, 5} :
           /\ Heights(entries, n, here)[k]
                = After(entries[k], Heights(entries, n, here)[k - 1], Place(k, here))
           /\ Opened(Owed(entries), open)[k]
                = Take(Opened(Owed(entries), open)[k - 1], Owed(entries)[k])
      /\ Heights(entries, n, here)[0] = n /\ Opened(Owed(entries), open)[0] = open
  BY HeightsUnfold, OpenedUnfolds
<1>5. /\ Place(1, here) = here /\ Place(2, here) = Anywhere /\ Place(3, here) = Anywhere
      /\ Place(4, here) = Anywhere /\ Place(5, here) = Anywhere
  BY DEF Place
<1> QED BY <1>1, <1>2, <1>3, <1>4, <1>5 DEF Height, Shut, entries

LEMMA Entries6 ==
  ASSUME NEW a, NEW b, NEW c, NEW d, NEW e, NEW f, NEW n, NEW here, NEW open
  PROVE  /\ IsSeq(<<a, b, c, d, e, f>>)
         /\ Height(<<a, b, c, d, e, f>>, n, here)
              = After(f, After(e, After(d, After(c, After(b, After(a, n, here), Anywhere),
                  Anywhere), Anywhere), Anywhere), Anywhere)
         /\ Shut(<<a, b, c, d, e, f>>, open)
              = Take(Take(Take(Take(Take(Take(open, Owes(a)), Owes(b)), Owes(c)), Owes(d)),
                  Owes(e)), Owes(f))
<1> DEFINE entries == <<a, b, c, d, e, f>>
<1>1. /\ Len(entries) = 6 /\ DOMAIN entries = 1..6
      /\ entries \in Seq({a, b, c, d, e, f})
      /\ entries[1] = a /\ entries[2] = b /\ entries[3] = c /\ entries[4] = d
      /\ entries[5] = e /\ entries[6] = f
  OBVIOUS
<1>2. IsSeq(entries)
  BY <1>1, SeqOfRange DEF IsSeq
<1> HIDE DEF entries
<1>3. /\ Owed(entries)[1] = Owes(a) /\ Owed(entries)[2] = Owes(b)
      /\ Owed(entries)[3] = Owes(c) /\ Owed(entries)[4] = Owes(d)
      /\ Owed(entries)[5] = Owes(e) /\ Owed(entries)[6] = Owes(f)
  BY <1>1 DEF Owed
<1>4. /\ \A k \in {1, 2, 3, 4, 5, 6} :
           /\ Heights(entries, n, here)[k]
                = After(entries[k], Heights(entries, n, here)[k - 1], Place(k, here))
           /\ Opened(Owed(entries), open)[k]
                = Take(Opened(Owed(entries), open)[k - 1], Owed(entries)[k])
      /\ Heights(entries, n, here)[0] = n /\ Opened(Owed(entries), open)[0] = open
  BY HeightsUnfold, OpenedUnfolds
<1>5. /\ Place(1, here) = here /\ Place(2, here) = Anywhere /\ Place(3, here) = Anywhere
      /\ Place(4, here) = Anywhere /\ Place(5, here) = Anywhere /\ Place(6, here) = Anywhere
  BY DEF Place
<1> QED BY <1>1, <1>2, <1>3, <1>4, <1>5 DEF Height, Shut, entries

LEMMA Entries7 ==
  ASSUME NEW a, NEW b, NEW c, NEW d, NEW e, NEW f, NEW g, NEW n, NEW here, NEW open
  PROVE  /\ IsSeq(<<a, b, c, d, e, f, g>>)
         /\ Height(<<a, b, c, d, e, f, g>>, n, here)
              = After(g, After(f, After(e, After(d, After(c, After(b, After(a, n, here),
                  Anywhere), Anywhere), Anywhere), Anywhere), Anywhere), Anywhere)
         /\ Shut(<<a, b, c, d, e, f, g>>, open)
              = Take(Take(Take(Take(Take(Take(Take(open, Owes(a)), Owes(b)), Owes(c)),
                  Owes(d)), Owes(e)), Owes(f)), Owes(g))
<1> DEFINE entries == <<a, b, c, d, e, f, g>>
<1>1. /\ Len(entries) = 7 /\ DOMAIN entries = 1..7
      /\ entries \in Seq({a, b, c, d, e, f, g})
      /\ entries[1] = a /\ entries[2] = b /\ entries[3] = c /\ entries[4] = d
      /\ entries[5] = e /\ entries[6] = f /\ entries[7] = g
  OBVIOUS
<1>2. IsSeq(entries)
  BY <1>1, SeqOfRange DEF IsSeq
<1> HIDE DEF entries
<1>3. /\ Owed(entries)[1] = Owes(a) /\ Owed(entries)[2] = Owes(b)
      /\ Owed(entries)[3] = Owes(c) /\ Owed(entries)[4] = Owes(d)
      /\ Owed(entries)[5] = Owes(e) /\ Owed(entries)[6] = Owes(f)
      /\ Owed(entries)[7] = Owes(g)
  BY <1>1 DEF Owed
<1>4. /\ \A k \in {1, 2, 3, 4, 5, 6, 7} :
           /\ Heights(entries, n, here)[k]
                = After(entries[k], Heights(entries, n, here)[k - 1], Place(k, here))
           /\ Opened(Owed(entries), open)[k]
                = Take(Opened(Owed(entries), open)[k - 1], Owed(entries)[k])
      /\ Heights(entries, n, here)[0] = n /\ Opened(Owed(entries), open)[0] = open
  BY HeightsUnfold, OpenedUnfolds
<1>5. /\ Place(1, here) = here /\ Place(2, here) = Anywhere /\ Place(3, here) = Anywhere
      /\ Place(4, here) = Anywhere /\ Place(5, here) = Anywhere /\ Place(6, here) = Anywhere
      /\ Place(7, here) = Anywhere
  BY DEF Place
<1> QED BY <1>1, <1>2, <1>3, <1>4, <1>5 DEF Height, Shut, entries

LEMMA Entries8 ==
  ASSUME NEW a, NEW b, NEW c, NEW d, NEW e, NEW f, NEW g, NEW h, NEW n, NEW here, NEW open
  PROVE  /\ IsSeq(<<a, b, c, d, e, f, g, h>>)
         /\ Height(<<a, b, c, d, e, f, g, h>>, n, here)
              = After(h, After(g, After(f, After(e, After(d, After(c, After(b, After(a, n,
                  here), Anywhere), Anywhere), Anywhere), Anywhere), Anywhere), Anywhere),
                  Anywhere)
         /\ Shut(<<a, b, c, d, e, f, g, h>>, open)
              = Take(Take(Take(Take(Take(Take(Take(Take(open, Owes(a)), Owes(b)), Owes(c)),
                  Owes(d)), Owes(e)), Owes(f)), Owes(g)), Owes(h))
<1> DEFINE entries == <<a, b, c, d, e, f, g, h>>
<1>1. /\ Len(entries) = 8 /\ DOMAIN entries = 1..8
      /\ entries \in Seq({a, b, c, d, e, f, g, h})
      /\ entries[1] = a /\ entries[2] = b /\ entries[3] = c /\ entries[4] = d
      /\ entries[5] = e /\ entries[6] = f /\ entries[7] = g /\ entries[8] = h
  OBVIOUS
<1>2. IsSeq(entries)
  BY <1>1, SeqOfRange DEF IsSeq
<1> HIDE DEF entries
<1>3. /\ Owed(entries)[1] = Owes(a) /\ Owed(entries)[2] = Owes(b)
      /\ Owed(entries)[3] = Owes(c) /\ Owed(entries)[4] = Owes(d)
      /\ Owed(entries)[5] = Owes(e) /\ Owed(entries)[6] = Owes(f)
      /\ Owed(entries)[7] = Owes(g) /\ Owed(entries)[8] = Owes(h)
  BY <1>1 DEF Owed
<1>4. /\ \A k \in {1, 2, 3, 4, 5, 6, 7, 8} :
           /\ Heights(entries, n, here)[k]
                = After(entries[k], Heights(entries, n, here)[k - 1], Place(k, here))
           /\ Opened(Owed(entries), open)[k]
                = Take(Opened(Owed(entries), open)[k - 1], Owed(entries)[k])
      /\ Heights(entries, n, here)[0] = n /\ Opened(Owed(entries), open)[0] = open
  BY HeightsUnfold, OpenedUnfolds
<1>5. /\ Place(1, here) = here /\ Place(2, here) = Anywhere /\ Place(3, here) = Anywhere
      /\ Place(4, here) = Anywhere /\ Place(5, here) = Anywhere /\ Place(6, here) = Anywhere
      /\ Place(7, here) = Anywhere /\ Place(8, here) = Anywhere
  BY DEF Place
<1> QED BY <1>1, <1>2, <1>3, <1>4, <1>5 DEF Height, Shut, entries
-----------------------------------------------------------------------------
(* What each kind of entry needs, leaves and takes.                         *)

LEMMA AfterFacts ==
  ASSUME NEW item, NEW n \in Int, NEW here, After(item, n, here) # -1
  PROVE  /\ Fits(item, here) /\ Needs(item) \in Nat /\ n >= Needs(item)
         /\ After(item, n, here) = n - Needs(item) + Leaves(item)
         /\ After(item, n, here) \in Nat
<1>1. Fits(item, here) /\ n >= Needs(item)
  BY DEF After, Left
<1>2. Needs(item) \in Nat
  BY <1>1 DEF Fits, Needs
<1>3. Leaves(item) \in {0, 1}
  BY DEF Leaves
<1>4. After(item, n, here) = n - Needs(item) + Leaves(item)
  BY <1>1 DEF After, Left
<1> QED BY <1>1, <1>2, <1>3, <1>4

\* The calls that need nothing, and those that replace the last value.
Plain == {"jock", "inner", "body", "keyword", "punctuator", "axis", "lambda", "jype", "leaf",
          "after-if"}
Kept == {"infix", "inner-infix", "after-name", "axis-call", "lambda-call", "second-jype",
         "unreserved"}

LEMMA PlainCall ==
  ASSUME NEW what \in Plain, NEW n \in Nat, NEW here
  PROVE  After(Call(what), n, here) = n + 1
<1>1. Fits(Call(what), here) /\ Needs(Call(what)) = 0 /\ Leaves(Call(what)) = 1
  BY DEF Fits, Needs, Leaves, Call, Plain
<1> QED BY <1>1 DEF After, Left

LEMMA KeptCall ==
  ASSUME NEW what \in Kept, NEW n \in Nat, n > 0, NEW here
  PROVE  After(Call(what), n, here) = n
<1>1. Fits(Call(what), here) /\ Needs(Call(what)) = 1 /\ Leaves(Call(what)) = 1
  BY DEF Fits, Needs, Leaves, Call, Kept
<1> QED BY <1>1 DEF After, Left

\* The calls that may only come first.
LEMMA FirstCall ==
  ASSUME NEW what \in {"literal", "name", "pair", "metatype", "argument"}, NEW n \in Nat,
           NEW here,
         Fits(Call(what), here)
  PROVE  After(Call(what), n, here) = n + 1
<1>1. Needs(Call(what)) = 0 /\ Leaves(Call(what)) = 1
  BY DEF Needs, Leaves, Call
<1> QED BY <1>1 DEF After, Left

LEMMA FirstFits ==
  ASSUME NEW here
  PROVE  /\ Fits(Call("literal"), here) <=> here.next \in Literal
         /\ Fits(Call("name"), here) <=> here.next \in Names
         /\ Fits(Call("pair"), here) <=> here.next = "("
         /\ Fits(Call("metatype"), here) <=> here.next \in Type
         /\ Fits(Call("argument"), here) <=> here.last = "(("
BY DEF Fits, Call

LEMMA ClosingCall ==
  ASSUME NEW what \in {"parameter", "result"}, NEW n \in Nat, NEW here
  PROVE  After(Call(what), n, here) = n + 1
<1>1. Fits(Call(what), here) /\ Needs(Call(what)) = 0 /\ Leaves(Call(what)) = 1
  BY DEF Fits, Needs, Leaves, Call
<1> QED BY <1>1 DEF After, Left

LEMMA OtherCall ==
  ASSUME NEW n \in Nat, NEW here
  PROVE  /\ After(Call("last-case"), n, here) = n
         /\ n >= 2 => After(Call("attach"), n, here) = n - 1
<1>1. /\ Fits(Call("attach"), here) /\ Needs(Call("attach")) = 2 /\ Leaves(Call("attach")) = 1
      /\ Fits(Call("last-case"), here) /\ Needs(Call("last-case")) = 0
      /\ Leaves(Call("last-case")) = 0
  BY DEF Fits, Needs, Leaves, Call
<1> QED BY <1>1 DEF After, Left

LEMMA LoopCall ==
  ASSUME NEW what \in {"tuple", "set", "list", "wing", "cases"}, NEW m \in Nat, NEW n \in Nat,
         n >= m, NEW here
  PROVE  After(Loop(what, m), n, here) = n - m + 1
<1>1. Fits(Loop(what, m), here) /\ Needs(Loop(what, m)) = m /\ Leaves(Loop(what, m)) = 1
  BY DEF Fits, Needs, Leaves, Loop
<1> QED BY <1>1 DEF After, Left

LEMMA NamedLoopCall ==
  ASSUME NEW what \in {"fields", "methods"}, NEW m \in Nat, NEW n \in Nat, n > m, NEW here
  PROVE  After(Loop(what, m), n, here) = n - m
<1>1. Fits(Loop(what, m), here) /\ Needs(Loop(what, m)) = m + 1 /\ Leaves(Loop(what, m)) = 1
  BY DEF Fits, Needs, Leaves, Loop
<1> QED BY <1>1 DEF After, Left

LEMMA Expected ==
  ASSUME NEW punc \in Bracket \cup Mark, NEW n \in Nat, NEW here
  PROVE  After(Expect(punc), n, here) = n
<1>0. punc # End
  BY TokenSets DEF Tokens
<1>1. Fits(Expect(punc), here) /\ Needs(Expect(punc)) = 0 /\ Leaves(Expect(punc)) = 0
  BY <1>0 DEF Fits, Needs, Leaves, Expect
<1> QED BY <1>1 DEF After, Left

LEMMA Built ==
  ASSUME NEW node, NEW m \in Nat, NEW n \in Nat, n >= m, NEW here
  PROVE  After(Build(node, m), n, here) = n - m + 1
<1>1. Fits(Build(node, m), here) /\ Needs(Build(node, m)) = m /\ Leaves(Build(node, m)) = 1
  BY DEF Fits, Needs, Leaves, Build
<1> QED BY <1>1 DEF After, Left

LEMMA Renamed ==
  ASSUME NEW name, NEW n \in Nat, n > 0, NEW here
  PROVE  After(Rename(name), n, here) = n
<1>1. Fits(Rename(name), here) /\ Needs(Rename(name)) = 1 /\ Leaves(Rename(name)) = 1
  BY DEF Fits, Needs, Leaves, Rename
<1> QED BY <1>1 DEF After, Left

LEMMA CallOwes ==
  ASSUME NEW what \in Plain \cup Kept \cup {"literal", "name", "pair", "metatype", "last-case",
                                            "attach"}, NEW open
  PROVE  Take(open, Owes(Call(what))) = open
<1>1. Owes(Call(what)) = "none"
  BY DEF Owes, Call, Closer, Plain, Kept
<1> QED BY <1>1, NoBracket, NoneIsNoBracket

LEMMA ItemOwes ==
  ASSUME NEW what, NEW m, NEW open
  PROVE  /\ Take(open, Owes(Build(what, m))) = open /\ Take(open, Owes(Rename(what))) = open
         /\ Take(open, Owes(Loop("wing", m))) = open
         /\ Take(open, Owes(Loop("cases", m))) = open
<1>1. /\ Owes(Build(what, m)) = "none" /\ Owes(Rename(what)) = "none"
      /\ Owes(Loop("wing", m)) = "none" /\ Owes(Loop("cases", m)) = "none"
  BY DEF Owes, Build, Rename, Loop, Closer
<1> QED BY <1>1, NoBracket, NoneIsNoBracket

LEMMA BracketOwes ==
  ASSUME NEW m
  PROVE  /\ Owes(Loop("tuple", m)) = ")" /\ Owes(Loop("list", m)) = "]"
         /\ Owes(Loop("set", m)) = RBrace /\ Owes(Loop("fields", m)) = RBrace
         /\ Owes(Loop("methods", m)) = RBrace /\ Owes(Call("argument")) = ")"
         /\ Owes(Call("parameter")) = ")" /\ Owes(Call("result")) = ")"
         /\ Owes(Expect(m)) = m
BY DEF Owes, Loop, Closer, Call, Expect

LEMMA MarkOwes ==
  ASSUME NEW punc \in Mark, NEW open
  PROVE  Take(open, Owes(Expect(punc))) = open
<1>1. Owes(Expect(punc)) = punc
  BY BracketOwes
<1> QED BY <1>1, NoBracket, MarksAreNoBrackets
-----------------------------------------------------------------------------
(* A step that takes tokens and has more to do keeps the invariant.        *)

Due == After(Head(todo), Len(vals), Here)
Closed == Take(Open(pos), Owes(Head(todo)))

LEMMA HeadAndTail ==
  ASSUME NEW s, IsSeq(s), s # <<>>
  PROVE  s = <<Head(s)>> \o Tail(s)
<1>1. s \in Seq(Range(s)) /\ Len(s) \in Nat /\ Len(s) > 0 /\ Head(s) = s[1]
  BY SeqFacts DEF IsSeq
<1>2. 1 \in 1..Len(s) /\ Len(s) \in 1..Len(s)
  BY <1>1
<1>3. SubSeq(s, 1, Len(s)) = <<s[1]>> \o SubSeq(s, 2, Len(s))
  BY <1>1, <1>2, SubSeqRecursiveFirst
<1> QED BY <1>1, <1>3, SubSeqFull, TailIsSubSeq

\* The first of some entries, and then the others.
LEMMA FirstEntry ==
  ASSUME NEW s, IsSeq(s), s # <<>>, NEW n, NEW here, NEW open
  PROVE  /\ Height(s, n, here) = Height(Tail(s), After(Head(s), n, here), Anywhere)
         /\ Shut(s, open) = Shut(Tail(s), Take(open, Owes(Head(s))))
<1>1. s = <<Head(s)>> \o Tail(s) /\ IsSeq(Tail(s)) /\ IsSeq(<<Head(s)>>) /\ <<Head(s)>> # <<>>
  BY HeadAndTail, SeqFacts, Entries1
<1> DEFINE first == <<Head(s)>>  rest == Tail(s)
<1>2. Height(first, n, here) = After(Head(s), n, here)
      /\ Shut(first, open) = Take(open, Owes(Head(s)))
  BY Entries1
<1>3. s = first \o rest /\ IsSeq(rest) /\ IsSeq(first) /\ first # <<>>
  BY <1>1
<1> HIDE DEF first, rest
<1>4. Height(first \o rest, n, here) = Height(rest, Height(first, n, here), Anywhere)
  BY <1>3, HeightConcat
<1>5. Shut(first \o rest, open) = Shut(rest, Shut(first, open))
  BY <1>3, ShutConcat
<1> QED BY <1>2, <1>3, <1>4, <1>5 DEF rest

LEMMA AnywhereIsHere ==
  ASSUME NEW item, NEW here, Fits(item, Anywhere)
  PROVE  Fits(item, here)
<1>1. End \notin Literal /\ End \notin Names /\ End \notin Type /\ End # "(" /\ End # "(("
  <2> DEFINE kinds == <<Name, Type, Number, Text, Keyword, Punctuator, Paired>>
  <2>1. \A i, j \in 1..7 : i # j => kinds[i] \cap kinds[j] = {}
    BY TokensAssumption
  <2>2. End \in kinds[7] /\ "(" \in kinds[6] /\ "((" \in kinds[6]
    BY DEF Paired, Punctuator
  <2>3. /\ kinds[7] \cap kinds[1] = {} /\ kinds[7] \cap kinds[2] = {}
        /\ kinds[7] \cap kinds[3] = {}
        /\ kinds[7] \cap kinds[4] = {} /\ kinds[7] \cap kinds[6] = {}
    BY <2>1
  <2> QED BY <2>2, <2>3 DEF Names, Literal
<1> QED BY <1>1 DEF Fits, Anywhere

\* Entries that can be anywhere can be here.
LEMMA HeightHere ==
  ASSUME NEW s, IsSeq(s), NEW n \in Int, NEW here, Height(s, n, Anywhere) = 1
  PROVE  Height(s, n, here) = 1
<1>1. CASE s = <<>>
  BY <1>1, Entries0
<1>2. CASE s # <<>>
  <2> DEFINE rest == Tail(s)
             first == After(Head(s), n, Anywhere)
  <2>1. Height(s, n, Anywhere) = Height(rest, first, Anywhere)
    BY <1>2, FirstEntry
  <2>2. Height(s, n, here) = Height(rest, After(Head(s), n, here), Anywhere)
    BY <1>2, FirstEntry
  <2>3. first # -1
    <3> SUFFICES ASSUME first = -1 PROVE FALSE
      OBVIOUS
    <3>1. Heights(rest, -1, Anywhere)[0] = -1 /\ Len(rest) \in Nat
      BY <1>2, HeightsUnfold, SeqFacts
    <3>2. Heights(rest, -1, Anywhere)[Len(rest)] = -1
      BY <3>1, HeightsSink
    <3> QED BY <2>1, <3>2 DEF Height
  <2>4. Fits(Head(s), Anywhere)
    BY <2>3, AfterFacts
  <2>5. After(Head(s), n, here) = first
    BY <2>4, AnywhereIsHere DEF After
  <2> QED BY <2>1, <2>2, <2>5
<1> QED BY <1>1, <1>2

\* What the entry at hand finds.
LEMMA HeadDue ==
  ASSUME Inv, todo # <<>>
  PROVE  /\ Len(vals) \in Nat /\ Due \in Nat
         /\ Fits(Head(todo), Here) /\ Needs(Head(todo)) \in Nat
         /\ Len(vals) >= Needs(Head(todo))
         /\ Due = Len(vals) - Needs(Head(todo)) + Leaves(Head(todo))
         /\ IsSeq(Tail(todo)) /\ Height(Tail(todo), Due, Anywhere) = 1
         /\ ~Swallowed => Shut(Tail(todo), Closed) = <<>>
<1>1. Len(vals) \in Nat /\ IsSeq(todo) /\ IsSeq(Tail(todo))
  BY SeqFacts DEF Inv
<1>2. Height(Tail(todo), Due, Anywhere) = 1
  BY <1>1, FirstEntry DEF Inv, Due
<1>3. ~Swallowed => Shut(Tail(todo), Closed) = <<>>
  BY <1>1, FirstEntry DEF Inv, Closed
<1>4. Due # -1
  <2> SUFFICES ASSUME Due = -1 PROVE FALSE
    OBVIOUS
  <2> DEFINE rest == Tail(todo)
  <2>1. Heights(rest, -1, Anywhere)[0] = -1 /\ Len(rest) \in Nat
    BY <1>1, HeightsUnfold, SeqFacts
  <2>2. Heights(rest, -1, Anywhere)[Len(rest)] = -1
    BY <2>1, HeightsSink
  <2> QED BY <1>2, <2>2 DEF Height
<1> QED BY <1>1, <1>2, <1>3, <1>4, AfterFacts DEF Due

\* Before a later token.
HereAfter(take) == [last |-> Token(pos + take - 1), next |-> Token(pos + take)]

LEMMA StepKeeps ==
  ASSUME Inv, outcome.kind = "parsing", todo # <<>>,
         NEW take \in Nat, NEW push, NEW then, Step(take, push, then),
         IsSeq(push), IsSeq(then), pos + take <= Len(input) + 1,
         Height(then, Len(vals) + Len(push), HereAfter(take)) = Due,
         Swallowed' \/ Shut(then, Open(pos + take)) = Closed
  PROVE  Inv'
<1>1. /\ pos' = pos + take /\ vals' = vals \o push /\ todo' = then \o Tail(todo)
      /\ input' = input /\ outcome' = outcome
  BY DEF Step
<1>2. /\ input' \in Seq(Tokens) /\ pos' \in 1..(Len(input') + 1)
      /\ outcome'.kind \in Kinds /\ outcome'.at \in 0..(Len(input') + 1)
      /\ outcome'.kind # "parsed"
  <2>1. Len(input) \in Nat
    BY DEF Inv
  <2> QED BY <1>1, <2>1 DEF Inv
<1>3. IsSeq(vals') /\ Len(vals') = Len(vals) + Len(push) /\ Len(vals') \in Nat
  BY <1>1, ConcatFacts, SeqFacts DEF Inv
<1>4. IsSeq(todo')
  BY <1>1, ConcatFacts, HeadDue
<1>5. Here' = HereAfter(take)
  <2>0. pos \in Int
    BY DEF Inv
  <2>1. pos' - 1 = pos + take - 1 /\ pos' = pos + take /\ input' = input
    BY <1>1, <2>0
  <2>2. Token(pos - 1)' = Token(pos + take - 1)
    BY <2>1 DEF Token
  <2>3. Token(pos)' = Token(pos + take)
    BY <2>1 DEF Token
  <2> QED BY <2>2, <2>3 DEF Here, HereAfter
<1> DEFINE rest == Tail(todo)
<1>6. Height(then \o rest, Len(vals'), HereAfter(take)) = 1
  <2>1. IsSeq(rest) /\ Height(rest, Due, Anywhere) = 1 /\ Due \in Int
    BY HeadDue
  <2>2. Height(then, Len(vals'), HereAfter(take)) = Due
    BY <1>3
  <2> HIDE DEF rest
  <2>3. CASE then = <<>>
    <3>1. Len(vals') = Due
      BY <2>2, <2>3, Entries0
    <3>2. then \o rest = rest
      BY <2>1, <2>3, ConcatFacts
    <3> QED BY <2>1, <3>1, <3>2, HeightHere
  <2>4. CASE then # <<>>
    <3>1. Height(then \o rest, Len(vals'), HereAfter(take))
            = Height(rest, Height(then, Len(vals'), HereAfter(take)), Anywhere)
      BY <2>1, <2>4, HeightConcat
    <3> QED BY <2>1, <2>2, <3>1
  <2> QED BY <2>3, <2>4
<1>7. Height(todo', Len(vals'), Here') = 1
  BY <1>1, <1>5, <1>6
<1>8. Swallowed => Swallowed'
  <2>1. Len(input) \in Nat /\ pos \in Nat
    BY DEF Inv
  <2> QED BY <1>1, <2>1 DEF Swallowed, Token
<1>9. ASSUME ~Swallowed' PROVE Shut(todo', Open(pos)') = <<>>
  <2>1. Open(pos)' = Open(pos + take)
    BY <1>1 DEF Open
  <2>2. IsSeq(rest) /\ Shut(rest, Closed) = <<>>
    BY <1>8, <1>9, HeadDue
  <2> HIDE DEF rest
  <2>3. Shut(then \o rest, Open(pos + take)) = Shut(rest, Shut(then, Open(pos + take)))
    BY <2>2, ShutConcat
  <2>4. Shut(then, Open(pos + take)) = Closed
    BY <1>9
  <2> USE DEF rest
  <2> QED BY <1>1, <2>1, <2>2, <2>3, <2>4
<1> QED BY <1>2, <1>3, <1>4, <1>7, <1>9 DEF Inv

\* A step that makes one value of some.
LEMMA MakeKeeps ==
  ASSUME Inv, outcome.kind = "parsing", todo # <<>>, UNCHANGED <<input, pos, outcome>>,
         todo' = Tail(todo), IsSeq(vals'), Len(vals') = Due, Closed = Open(pos)
  PROVE  Inv'
<1>1. /\ input' \in Seq(Tokens) /\ pos' \in 1..(Len(input') + 1)
      /\ outcome'.kind \in Kinds /\ outcome'.at \in 0..(Len(input') + 1)
      /\ outcome'.kind # "parsed"
  BY DEF Inv
<1>2. IsSeq(todo') /\ Height(todo', Due, Anywhere) = 1 /\ Due \in Int
  BY HeadDue
<1>3. Height(todo', Len(vals'), Here') = 1
  BY <1>2, HeightHere
<1>4. Swallowed' = Swallowed /\ Open(pos)' = Open(pos)
  BY DEF Swallowed, Token, Open
<1>5. ~Swallowed' => Shut(todo', Open(pos)') = <<>>
  BY <1>4, HeadDue
<1> QED BY <1>1, <1>2, <1>3, <1>5 DEF Inv
-----------------------------------------------------------------------------
(* The tokens ahead, and the entry at hand.                                *)

LEMMA TokenAhead ==
  ASSUME Inv, NEW k \in Nat, Ahead(k) # End
  PROVE  /\ pos + k \in 1..Len(input) /\ pos + k + 1 <= Len(input) + 1
         /\ Ahead(k) \in Tokens
         /\ Open(pos + k + 1) = Take(Open(pos + k), Ahead(k))
<1>1. input \in Seq(Tokens) /\ pos \in Int /\ pos >= 1 /\ Len(input) \in Nat
      /\ DOMAIN input = 1..Len(input)
  BY LenProperties DEF Inv
<1>2. pos + k \in DOMAIN input /\ Ahead(k) = input[pos + k]
  BY DEF Ahead, Token
<1>3. /\ pos + k \in Nat /\ pos + k # 0 /\ (pos + k + 1) - 1 = pos + k
  BY <1>1
<1>4. Open(pos + k + 1) = Take(Open(pos + k), Ahead(k))
  BY <1>2, <1>3, OpenedUnfolds DEF Open
<1>5. input[pos + k] \in Tokens
  BY <1>1, <1>2, ElementOfSeq
<1> QED BY <1>1, <1>2, <1>4, <1>5

\* A token that is no bracket.
LEMMA MarkAhead ==
  ASSUME Inv, NEW k \in Nat, Ahead(k) \in Names \cup Literal \cup Keyword \cup Mark
  PROVE  pos + k + 1 <= Len(input) + 1 /\ Open(pos + k + 1) = Open(pos + k)
<1>1. Ahead(k) \in Tokens /\ Ahead(k) \notin Bracket /\ Ahead(k) # End
  BY TokenSets DEF Tokens
<1> QED BY <1>1, TokenAhead, NoBracket

LEMMA BracketAhead ==
  ASSUME Inv, NEW k \in Nat, Ahead(k) \in Bracket
  PROVE  pos + k + 1 <= Len(input) + 1 /\ Open(pos + k + 1) = Take(Open(pos + k), Ahead(k))
<1>1. Ahead(k) # End
  BY TokenSets DEF Tokens
<1> QED BY <1>1, TokenAhead

LEMMA AtPlain ==
  ASSUME Inv, NEW what \in Plain, Doing(what)
  PROVE  /\ outcome.kind = "parsing" /\ todo # <<>> /\ Len(vals) \in Nat
         /\ Due = Len(vals) + 1 /\ Closed = Open(pos)
<1> DEFINE item == Head(todo)
<1>1. item.do = "call" /\ item.what \in Plain /\ outcome.kind = "parsing" /\ todo # <<>>
  BY DEF Doing
<1> HIDE DEF item
<1>2. Needs(item) = 0 /\ Leaves(item) = 1 /\ Owes(item) = "none"
  BY <1>1 DEF Needs, Leaves, Owes, Plain, Closer
<1> USE DEF item
<1> QED BY <1>1, <1>2, HeadDue, NoBracket, NoneIsNoBracket DEF Closed

LEMMA AtKept ==
  ASSUME Inv, NEW what \in Kept, Doing(what)
  PROVE  /\ outcome.kind = "parsing" /\ todo # <<>> /\ Len(vals) \in Nat
         /\ Len(vals) > 0 /\ Due = Len(vals) /\ Closed = Open(pos)
<1> DEFINE item == Head(todo)
<1>1. item.do = "call" /\ item.what \in Kept /\ outcome.kind = "parsing" /\ todo # <<>>
  BY DEF Doing
<1> HIDE DEF item
<1>2. Needs(item) = 1 /\ Leaves(item) = 1 /\ Owes(item) = "none"
  BY <1>1 DEF Needs, Leaves, Owes, Kept, Closer
<1> USE DEF item
<1> QED BY <1>1, <1>2, HeadDue, NoBracket, NoneIsNoBracket DEF Closed

LEMMA AtFirst ==
  ASSUME Inv, NEW what \in {"literal", "name", "pair", "metatype", "argument"}, Doing(what)
  PROVE  /\ outcome.kind = "parsing" /\ todo # <<>> /\ Len(vals) \in Nat
         /\ Due = Len(vals) + 1
         /\ Closed = IF what = "argument" THEN Take(Open(pos), ")") ELSE Open(pos)
         /\ what = "literal" => Ahead(0) \in Literal
         /\ what = "name" => Ahead(0) \in Names
         /\ what = "pair" => Ahead(0) = "("
         /\ what = "metatype" => Ahead(0) \in Type
         /\ what = "argument" => Token(pos - 1) = "(("
<1> DEFINE item == Head(todo)
<1>1. item.do = "call" /\ item.what = what /\ outcome.kind = "parsing" /\ todo # <<>>
  BY DEF Doing
<1>0. Fits(item, Here) /\ Len(vals) \in Nat /\ Due = Len(vals) - Needs(item) + Leaves(item)
  BY <1>1, HeadDue
<1>3. Closed = Take(Open(pos), Owes(item))
  BY DEF Closed
<1> HIDE DEF item
<1>2. /\ Needs(item) = 0 /\ Leaves(item) = 1
      /\ Owes(item) = IF what = "argument" THEN ")" ELSE "none"
  BY <1>1 DEF Needs, Leaves, Owes, Closer
<1>4. Here.next = Ahead(0) /\ Here.last = Token(pos - 1)
  <2>1. pos + 0 = pos
    BY DEF Inv
  <2> QED BY <2>1 DEF Here, Ahead
<1>5. /\ what = "literal" => Here.next \in Literal
      /\ what = "name" => Here.next \in Names
      /\ what = "pair" => Here.next = "("
      /\ what = "metatype" => Here.next \in Type
      /\ what = "argument" => Here.last = "(("
  BY <1>0, <1>1 DEF Fits
<1>6. Closed = IF what = "argument" THEN Take(Open(pos), ")") ELSE Open(pos)
  BY <1>2, <1>3, NoBracket, NoneIsNoBracket
<1> QED BY <1>0, <1>1, <1>2, <1>4, <1>5, <1>6

\* The loops: what they have read is there, and their bracket is open.
LEMMA AtLoop ==
  ASSUME Inv, NEW what \in {"tuple", "set", "list", "wing", "cases"}, Doing(what)
  PROVE  /\ outcome.kind = "parsing" /\ todo # <<>> /\ Len(vals) \in Nat
         /\ Head(todo).n \in Nat /\ Len(vals) >= Head(todo).n
         /\ Due = Len(vals) - Head(todo).n + 1
         /\ what \in DOMAIN Closer => Closed = Take(Open(pos), Closer[what])
         /\ what \notin DOMAIN Closer => Closed = Open(pos)
<1> DEFINE item == Head(todo)
<1>1. item.do = "call" /\ item.what = what /\ outcome.kind = "parsing" /\ todo # <<>>
  BY DEF Doing
<1>2. /\ Fits(item, Here) /\ Len(vals) \in Nat /\ Len(vals) >= Needs(item)
      /\ Due = Len(vals) - Needs(item) + Leaves(item)
  BY <1>1, HeadDue
<1>3. Closed = Take(Open(pos), Owes(item))
  BY DEF Closed
<1> HIDE DEF item
<1>4. Needs(item) = item.n /\ Leaves(item) = 1
  BY <1>1 DEF Needs, Leaves
<1>5. item.n \in Nat
  BY <1>2 DEF Fits
<1>6. Owes(item) = IF what \in DOMAIN Closer THEN Closer[what] ELSE "none"
  BY <1>1 DEF Owes, Closer
<1>7. what \notin DOMAIN Closer => Closed = Open(pos)
  BY <1>3, <1>6, NoBracket, NoneIsNoBracket
<1> QED BY <1>1, <1>2, <1>3, <1>4, <1>5, <1>6, <1>7 DEF item

LEMMA AtNamedLoop ==
  ASSUME Inv, NEW what \in {"fields", "methods"}, Doing(what)
  PROVE  /\ outcome.kind = "parsing" /\ todo # <<>> /\ Len(vals) \in Nat
         /\ Head(todo).n \in Nat /\ Len(vals) > Head(todo).n
         /\ Due = Len(vals) - Head(todo).n
         /\ Closed = Take(Open(pos), RBrace)
<1> DEFINE item == Head(todo)
<1>1. item.do = "call" /\ item.what = what /\ outcome.kind = "parsing" /\ todo # <<>>
  BY DEF Doing
<1>2. /\ Fits(item, Here) /\ Len(vals) \in Nat /\ Len(vals) >= Needs(item)
      /\ Due = Len(vals) - Needs(item) + Leaves(item)
  BY <1>1, HeadDue
<1>3. Closed = Take(Open(pos), Owes(item))
  BY DEF Closed
<1> HIDE DEF item
<1>4. Needs(item) = item.n + 1 /\ Leaves(item) = 1 /\ Owes(item) = RBrace
  BY <1>1 DEF Needs, Leaves, Owes, Closer
<1>5. item.n \in Nat
  BY <1>2 DEF Fits
<1> QED BY <1>1, <1>2, <1>3, <1>4, <1>5 DEF item

LEMMA AtClosing ==
  ASSUME Inv, NEW what \in {"parameter", "result"}, Doing(what)
  PROVE  /\ outcome.kind = "parsing" /\ todo # <<>> /\ Len(vals) \in Nat
         /\ Due = Len(vals) + 1 /\ Closed = Take(Open(pos), ")")
<1> DEFINE item == Head(todo)
<1>1. item.do = "call" /\ item.what = what /\ outcome.kind = "parsing" /\ todo # <<>>
  BY DEF Doing
<1>2. Len(vals) \in Nat /\ Due = Len(vals) - Needs(item) + Leaves(item)
  BY <1>1, HeadDue
<1>3. Closed = Take(Open(pos), Owes(item))
  BY DEF Closed
<1> HIDE DEF item
<1>4. Needs(item) = 0 /\ Leaves(item) = 1 /\ Owes(item) = ")"
  BY <1>1 DEF Needs, Leaves, Owes, Closer
<1> QED BY <1>1, <1>2, <1>3, <1>4

LEMMA AtOther ==
  ASSUME Inv, NEW what \in {"last-case", "attach"}, Doing(what)
  PROVE  /\ outcome.kind = "parsing" /\ todo # <<>> /\ Len(vals) \in Nat
         /\ what = "last-case" => Due = Len(vals)
         /\ what = "attach" => Len(vals) >= 2 /\ Due = Len(vals) - 1
         /\ Closed = Open(pos)
<1> DEFINE item == Head(todo)
<1>1. item.do = "call" /\ item.what = what /\ outcome.kind = "parsing" /\ todo # <<>>
  BY DEF Doing
<1>2. /\ Len(vals) \in Nat /\ Len(vals) >= Needs(item)
      /\ Due = Len(vals) - Needs(item) + Leaves(item)
  BY <1>1, HeadDue
<1>3. Closed = Take(Open(pos), Owes(item))
  BY DEF Closed
<1> HIDE DEF item
<1>4. /\ what = "last-case" => Needs(item) = 0 /\ Leaves(item) = 0
      /\ what = "attach" => Needs(item) = 2 /\ Leaves(item) = 1
      /\ Owes(item) = "none"
  BY <1>1 DEF Needs, Leaves, Owes, Closer
<1> QED BY <1>1, <1>2, <1>3, <1>4, NoBracket, NoneIsNoBracket

(* Steps of the usual forms.                                               *)

LEMMA HereIsNow ==
  ASSUME Inv
  PROVE  HereAfter(0) = Here /\ pos + 0 = pos /\ pos \in Int /\ pos <= Len(input) + 1
         /\ IsSeq(<<>>) /\ Len(<<>>) = 0
<1>1. pos + 0 = pos /\ pos + 0 - 1 = pos - 1 /\ pos \in Int /\ Len(input) \in Nat
  BY DEF Inv
<1> QED BY <1>1, Entries0 DEF HereAfter, Here, Inv

\* More to do, and nothing read.
LEMMA StayKeeps ==
  ASSUME Inv, outcome.kind = "parsing", todo # <<>>,
         NEW then, Step(0, <<>>, then), IsSeq(then),
         Height(then, Len(vals), Here) = Due, Shut(then, Open(pos)) = Closed
  PROVE  Inv'
<1>1. Len(vals) + Len(<<>>) = Len(vals)
  BY HereIsNow, HeadDue
<1> QED BY <1>1, HereIsNow, StepKeeps

\* Tokens are taken, and there is more to do.
LEMMA TakeKeeps ==
  ASSUME Inv, outcome.kind = "parsing", todo # <<>>,
         NEW take \in Nat, NEW then, Step(take, <<>>, then), IsSeq(then),
         pos + take <= Len(input) + 1,
         Height(then, Len(vals), HereAfter(take)) = Due, Shut(then, Open(pos + take)) = Closed
  PROVE  Inv'
<1>1. Len(vals) + Len(<<>>) = Len(vals)
  BY HereIsNow, HeadDue
<1> QED BY <1>1, HereIsNow, StepKeeps

\* And one value is made of them.
LEMMA PushKeeps ==
  ASSUME Inv, outcome.kind = "parsing", todo # <<>>,
         NEW take \in Nat, NEW value, NEW then, Step(take, <<value>>, then), IsSeq(then),
         pos + take <= Len(input) + 1,
         Height(then, Len(vals) + 1, HereAfter(take)) = Due,
         Shut(then, Open(pos + take)) = Closed
  PROVE  Inv'
<1>1. IsSeq(<<value>>) /\ Len(<<value>>) = 1
  BY Entries1
<1> QED BY <1>1, StepKeeps

\* Tokens that are no brackets, and brackets, among the next four.
Unbracketed == Names \cup Literal \cup Keyword \cup Mark

LEMMA NextTokens ==
  ASSUME Inv
  PROVE  /\ Ahead(0) \in Unbracketed => pos + 1 <= Len(input) + 1 /\ Open(pos + 1) = Open(pos)
         /\ Ahead(1) \in Unbracketed =>
              pos + 2 <= Len(input) + 1 /\ Open(pos + 2) = Open(pos + 1)
         /\ Ahead(2) \in Unbracketed =>
              pos + 3 <= Len(input) + 1 /\ Open(pos + 3) = Open(pos + 2)
         /\ Ahead(3) \in Unbracketed =>
              pos + 4 <= Len(input) + 1 /\ Open(pos + 4) = Open(pos + 3)
         /\ Ahead(0) \in Bracket =>
              pos + 1 <= Len(input) + 1 /\ Open(pos + 1) = Take(Open(pos), Ahead(0))
         /\ Ahead(1) \in Bracket =>
              pos + 2 <= Len(input) + 1 /\ Open(pos + 2) = Take(Open(pos + 1), Ahead(1))
         /\ Ahead(2) \in Bracket =>
              pos + 3 <= Len(input) + 1 /\ Open(pos + 3) = Take(Open(pos + 2), Ahead(2))
<1>1. /\ pos + 0 = pos /\ pos + 0 + 1 = pos + 1 /\ pos + 1 + 1 = pos + 2
      /\ pos + 2 + 1 = pos + 3 /\ pos + 3 + 1 = pos + 4
  BY DEF Inv
<1>2. ASSUME NEW k \in Nat, Ahead(k) \in Unbracketed
      PROVE  pos + k + 1 <= Len(input) + 1 /\ Open(pos + k + 1) = Open(pos + k)
  BY <1>2, MarkAhead DEF Unbracketed
<1>3. ASSUME NEW k \in Nat, Ahead(k) \in Bracket
      PROVE  pos + k + 1 <= Len(input) + 1 /\ Open(pos + k + 1) = Take(Open(pos + k), Ahead(k))
  BY <1>3, BracketAhead
<1>4. /\ Ahead(0) \in Unbracketed => pos + 1 <= Len(input) + 1 /\ Open(pos + 1) = Open(pos)
      /\ Ahead(0) \in Bracket =>
           pos + 1 <= Len(input) + 1 /\ Open(pos + 1) = Take(Open(pos), Ahead(0))
  BY <1>1, <1>2, <1>3
<1>5. /\ Ahead(1) \in Unbracketed => pos + 2 <= Len(input) + 1 /\ Open(pos + 2) = Open(pos + 1)
      /\ Ahead(1) \in Bracket =>
           pos + 2 <= Len(input) + 1 /\ Open(pos + 2) = Take(Open(pos + 1), Ahead(1))
  BY <1>1, <1>2, <1>3
<1>6. /\ Ahead(2) \in Unbracketed => pos + 3 <= Len(input) + 1 /\ Open(pos + 3) = Open(pos + 2)
      /\ Ahead(2) \in Bracket =>
           pos + 3 <= Len(input) + 1 /\ Open(pos + 3) = Take(Open(pos + 2), Ahead(2))
  BY <1>1, <1>2, <1>3
<1>7. Ahead(3) \in Unbracketed => pos + 4 <= Len(input) + 1 /\ Open(pos + 4) = Open(pos + 3)
  BY <1>1, <1>2
<1> QED BY <1>4, <1>5, <1>6, <1>7

\* What stands between brackets, and what follows it.
LEMMA Brackets ==
  /\ "(" \in Bracket /\ "((" \in Bracket /\ LBrace \in Bracket
  /\ ")" \in Bracket /\ RBrace \in Bracket
BY DEF Bracket

LEMMA BlockAlone ==
  ASSUME NEW what \in Plain, NEW start, NEW end
  PROVE  /\ IsSeq(Block(start, what, end)) /\ Block(start, what, end) # <<>>
         /\ \A n \in Nat : \A here : start \in Bracket /\ end \in Bracket =>
              Height(Block(start, what, end), n, here) = n + 1
         /\ \A open : Take(Take(open, start), end) = open =>
              Shut(Block(start, what, end), open) = open
<1> DEFINE block == <<Expect(start), Call(what), Expect(end)>>
<1>1. ASSUME NEW n \in Nat, NEW here, start \in Bracket, end \in Bracket
      PROVE  Height(block, n, here) = n + 1
  <2>1. /\ After(Expect(start), n, here) = n /\ After(Call(what), n, Anywhere) = n + 1
        /\ After(Expect(end), n + 1, Anywhere) = n + 1
    BY <1>1, Expected, PlainCall
  <2> QED BY <2>1, Entries3
<1>2. ASSUME NEW open, Take(Take(open, start), end) = open
      PROVE  Shut(block, open) = open
  <2>1. /\ Owes(Expect(start)) = start /\ Owes(Expect(end)) = end
        /\ Take(Take(open, start), Owes(Call(what))) = Take(open, start)
    BY BracketOwes, CallOwes
  <2> QED BY <1>2, <2>1, Entries3
<1>3. IsSeq(block) /\ block # <<>>
  BY Entries3
<1> QED BY <1>1, <1>2, <1>3 DEF Block

LEMMA BlockThen ==
  ASSUME NEW what \in Plain, NEW start \in Bracket, NEW end \in Bracket,
         NEW then, IsSeq(then), NEW n \in Nat, NEW here
  PROVE  /\ IsSeq(Block(start, what, end) \o then)
         /\ Height(Block(start, what, end) \o then, n, here) = Height(then, n + 1, Anywhere)
<1> DEFINE block == Block(start, what, end)
<1>1. IsSeq(block) /\ Height(block, n, here) = n + 1 /\ block # <<>>
  BY BlockAlone
<1> HIDE DEF block
<1>2. Height(block \o then, n, here) = Height(then, Height(block, n, here), Anywhere)
  BY <1>1, HeightConcat
<1>3. IsSeq(block \o then)
  BY <1>1, ConcatFacts
<1> QED BY <1>1, <1>2, <1>3 DEF block

LEMMA BlockShut ==
  ASSUME NEW what \in Plain, NEW start, NEW end, NEW then, IsSeq(then),
         NEW open, Take(Take(open, start), end) = open
  PROVE  Shut(Block(start, what, end) \o then, open) = Shut(then, open)
<1> DEFINE block == Block(start, what, end)
<1>1. IsSeq(block) /\ Shut(block, open) = open
  BY BlockAlone
<1> HIDE DEF block
<1>2. Shut(block \o then, open) = Shut(then, Shut(block, open))
  BY <1>1, ShutConcat
<1> QED BY <1>1, <1>2 DEF block

LEMMA BlockAmid ==
  ASSUME NEW first, IsSeq(first), first # <<>>, NEW what \in Plain, NEW n, NEW here, NEW open,
         Height(first, n, here) \in Nat, NEW then, IsSeq(then),
         NEW start \in Bracket, NEW end \in Bracket,
         Take(Take(Shut(first, open), start), end) = Shut(first, open)
  PROVE  /\ IsSeq(first \o Block(start, what, end) \o then)
         /\ Height(first \o Block(start, what, end) \o then, n, here)
              = Height(then, Height(first, n, here) + 1, Anywhere)
         /\ Shut(first \o Block(start, what, end) \o then, open)
              = Shut(then, Shut(first, open))
<1> DEFINE block == Block(start, what, end)
           m == Height(first, n, here)
           both == first \o block
<1>1. /\ IsSeq(block) /\ Height(block, m, Anywhere) = m + 1
      /\ Shut(block, Shut(first, open)) = Shut(first, open)
  BY BlockAlone
<1> HIDE DEF block
<1>2. IsSeq(both) /\ Height(both, n, here) = m + 1
  BY <1>1, ConcatFacts, HeightConcat
<1>3. Shut(both, open) = Shut(first, open)
  BY <1>1, ShutConcat
<1>4. both # <<>>
  <2>1. Len(first) > 0 /\ Len(both) = Len(first) + Len(block) /\ Len(block) \in Nat
    BY <1>1, SeqFacts, ConcatFacts
  <2>2. Len(<<>>) = 0
    OBVIOUS
  <2> QED BY <2>1, <2>2, SeqFacts
<1> HIDE DEF both, m
<1>5. IsSeq(both \o then) /\ Height(both \o then, n, here) = Height(then, m + 1, Anywhere)
  BY <1>2, <1>4, ConcatFacts, HeightConcat
<1>6. Shut(both \o then, open) = Shut(then, Shut(first, open))
  BY <1>2, <1>3, ShutConcat
<1> QED BY <1>5, <1>6 DEF both, block, m
-----------------------------------------------------------------------------
(* Expressions.                                                            *)

\* What starts with a token can be called where that token is next.
LEMMA StartEntry ==
  ASSUME Inv, ~AtEnd, NEW n \in Nat, NEW open
  PROVE  LET start == Call(StartOf(Ahead(0))) IN
         After(start, n, Here) = n + 1 /\ Take(open, Owes(start)) = open
<1> DEFINE what == StartOf(Ahead(0))
<1>1. Ahead(0) \in Tokens /\ Here.next = Ahead(0)
  BY TokenAhead, HereIsNow DEF AtEnd, Here, Ahead
<1>2. CASE Ahead(0) \in Literal
  <2>1. what = "literal"
    BY <1>2, TokenSets DEF StartOf
  <2> QED BY <1>1, <1>2, <2>1, FirstCall, FirstFits, CallOwes
<1>3. CASE Ahead(0) \in Names
  <2>1. what = "name"
    BY <1>3, TokenSets DEF StartOf
  <2> QED BY <1>1, <1>3, <2>1, FirstCall, FirstFits, CallOwes
<1>4. CASE Ahead(0) \in Keyword
  <2>1. what = "keyword"
    BY <1>4, TokenSets DEF StartOf
  <2>2. what \in Plain
    BY <2>1 DEF Plain
  <2> QED BY <2>2, PlainCall, CallOwes
<1>5. CASE Ahead(0) \in Punctuator
  <2>1. what = "punctuator"
    BY <1>5, TokenSets DEF StartOf
  <2>2. what \in Plain
    BY <2>1 DEF Plain
  <2> QED BY <2>2, PlainCall, CallOwes
<1> QED BY <1>1, <1>2, <1>3, <1>4, <1>5 DEF Tokens

LEMMA MatchJockKeeps ==
  ASSUME Inv, MatchJock
  PROVE  Inv'
<1> DEFINE start == Call(StartOf(Ahead(0)))
           then == <<start, Call("infix")>>
<1>1. Doing("jock") /\ ~AtEnd /\ Step(0, <<>>, then)
  BY DEF MatchJock
<1>2. /\ outcome.kind = "parsing" /\ todo # <<>> /\ Len(vals) \in Nat
      /\ Due = Len(vals) + 1 /\ Closed = Open(pos)
  BY <1>1, AtPlain DEF Plain
<1>3. After(start, Len(vals), Here) = Len(vals) + 1 /\ Take(Open(pos), Owes(start)) = Open(pos)
  BY <1>1, <1>2, StartEntry
<1>4. /\ After(Call("infix"), Len(vals) + 1, Anywhere) = Len(vals) + 1
      /\ Take(Open(pos), Owes(Call("infix"))) = Open(pos)
  BY <1>2, KeptCall, CallOwes DEF Kept
<1>5. IsSeq(then) /\ Height(then, Len(vals), Here) = Due /\ Shut(then, Open(pos)) = Closed
  BY <1>2, <1>3, <1>4, Entries2
<1> QED BY <1>1, <1>2, <1>5, StayKeeps

LEMMA MatchInnerJockKeeps ==
  ASSUME Inv, MatchInnerJock
  PROVE  Inv'
<1> DEFINE start == Call(StartOf(Ahead(0)))
           then == <<start, Call("inner-infix")>>
<1>1. Doing("inner") /\ ~AtEnd
  BY DEF MatchInnerJock
<1>2. /\ outcome.kind = "parsing" /\ todo # <<>> /\ Len(vals) \in Nat
      /\ Due = Len(vals) + 1 /\ Closed = Open(pos)
  BY <1>1, AtPlain DEF Plain
<1>3. CASE Ahead(0) \in Keyword
  <2>1. Step(0, <<>>, <<Call("jock")>>)
    BY <1>3 DEF MatchInnerJock
  <2>2. /\ IsSeq(<<Call("jock")>>) /\ Height(<<Call("jock")>>, Len(vals), Here) = Due
        /\ Shut(<<Call("jock")>>, Open(pos)) = Closed
    BY <1>2, PlainCall, CallOwes, Entries1 DEF Plain
  <2> QED BY <1>2, <2>1, <2>2, StayKeeps
<1>4. CASE Ahead(0) \notin Keyword
  <2>1. Step(0, <<>>, then)
    BY <1>4 DEF MatchInnerJock
  <2>2. IsSeq(then) /\ Height(then, Len(vals), Here) = Due /\ Shut(then, Open(pos)) = Closed
    BY <1>1, <1>2, StartEntry, KeptCall, CallOwes, Entries2 DEF Kept
  <2> QED BY <1>2, <2>1, <2>2, StayKeeps
<1> QED BY <1>3, <1>4

LEMMA MatchJockBodyKeeps ==
  ASSUME Inv, MatchJockBody
  PROVE  Inv'
<1> DEFINE then == <<Call(StartOf(Ahead(0)))>>
<1>1. Doing("body") /\ ~AtEnd /\ Step(0, <<>>, then)
  BY DEF MatchJockBody
<1>2. /\ outcome.kind = "parsing" /\ todo # <<>> /\ Len(vals) \in Nat
      /\ Due = Len(vals) + 1 /\ Closed = Open(pos)
  BY <1>1, AtPlain DEF Plain
<1>3. IsSeq(then) /\ Height(then, Len(vals), Here) = Due /\ Shut(then, Open(pos)) = Closed
  BY <1>1, <1>2, StartEntry, Entries1
<1> QED BY <1>1, <1>2, <1>3, StayKeeps

\* The tokens of an operator.
LEMMA OperatorTokens ==
  ASSUME Inv, AnyOperator # <<>>
  PROVE  IF AnyOperator[1] \in {TwoToken[p] : p \in DOMAIN TwoToken}
           THEN Ahead(0) \in Mark /\ Ahead(1) \in Mark
           ELSE Ahead(0) \in Mark
<1> DEFINE two == <<Ahead(0), Ahead(1)>>
<1>1. CASE two \in DOMAIN TwoToken
  <2>1. Ahead(0) \in {"=", "<", ">", "!", "*"} /\ Ahead(1) \in {"=", "*"}
    BY <1>1 DEF TwoToken
  <2>2. Ahead(0) \in Mark /\ Ahead(1) \in Mark
    BY <2>1 DEF Mark
  <2> QED BY <2>2
<1>2. CASE two \notin DOMAIN TwoToken
  <2>1. Ahead(0) \in Comparator \cup Operator /\ AnyOperator = <<Ahead(0)>>
    BY <1>2 DEF AnyOperator
  <2>2. Ahead(0) # End
    BY <2>1, Zenon DEF End, Comparator, Operator
  <2>3. Ahead(0) \notin Paired
    BY <2>2, TokenAhead, TokenSets
  <2>4. Ahead(0) \in {"<", ">", "+", "-", "*", "/", "%"}
    BY <2>1, <2>3 DEF Comparator, Operator, Paired
  <2>5. \A p \in DOMAIN TwoToken : TwoToken[p] \in {"==", "<=", ">=", "!=", "**"}
    BY DEF TwoToken
  <2>6. Ahead(0) \in Mark
    BY <2>4 DEF Mark
  <2>7. AnyOperator[1] \notin {TwoToken[p] : p \in DOMAIN TwoToken}
    BY <2>1, <2>4, <2>5
  <2> QED BY <2>6, <2>7
<1> QED BY <1>1, <1>2

LEMMA InfixKeeps ==
  ASSUME Inv, Infix
  PROVE  Inv'
<1> DEFINE op == AnyOperator[1]
           take == IF op \in {TwoToken[p] : p \in DOMAIN TwoToken} THEN 2 ELSE 1
           then == <<Call("inner"), Build(op, 2)>>
<1>1. PICK what \in Kept : Doing(what)
  BY DEF Infix, Kept
<1>2. Step(take, <<>>, then) /\ AnyOperator # <<>>
  BY DEF Infix, HasInfix
<1>3. /\ outcome.kind = "parsing" /\ todo # <<>> /\ Len(vals) \in Nat
      /\ Len(vals) > 0 /\ Due = Len(vals) /\ Closed = Open(pos)
  BY <1>1, AtKept
<1>4. take \in Nat /\ pos + take <= Len(input) + 1 /\ Open(pos + take) = Open(pos)
  BY <1>2, OperatorTokens, NextTokens DEF Unbracketed
<1> HIDE DEF take, op
<1>5. /\ IsSeq(then) /\ Height(then, Len(vals), HereAfter(take)) = Due
      /\ Shut(then, Open(pos + take)) = Closed
  <2>1. /\ After(Call("inner"), Len(vals), HereAfter(take)) = Len(vals) + 1
        /\ Take(Open(pos), Owes(Call("inner"))) = Open(pos)
    BY <1>3, PlainCall, CallOwes DEF Plain
  <2>2. After(Build(op, 2), Len(vals) + 1, Anywhere) = Len(vals)
    BY <1>3, Built
  <2>3. Take(Open(pos), Owes(Build(op, 2))) = Open(pos)
    BY ItemOwes
  <2> QED BY <1>3, <1>4, <2>1, <2>2, <2>3, Entries2
<1> QED BY <1>2, <1>3, <1>4, <1>5, TakeKeeps

LEMMA NoInfixKeeps ==
  ASSUME Inv, NoInfix
  PROVE  Inv'
<1>1. PICK what \in Kept : Doing(what)
  BY DEF NoInfix, Kept
<1>2. /\ outcome.kind = "parsing" /\ todo # <<>> /\ Len(vals) \in Nat
      /\ Due = Len(vals) /\ Closed = Open(pos)
  BY <1>1, AtKept
<1> QED BY <1>2, Entries0, StayKeeps DEF NoInfix

LEMMA MatchLiteralKeeps ==
  ASSUME Inv, MatchLiteral
  PROVE  Inv'
<1>1. Doing("literal") /\ Step(1, <<Leaf("atom", Ahead(0))>>, <<>>)
  BY DEF MatchLiteral
<1>2. /\ outcome.kind = "parsing" /\ todo # <<>> /\ Len(vals) \in Nat
      /\ Due = Len(vals) + 1 /\ Closed = Open(pos) /\ Ahead(0) \in Literal
  BY <1>1, AtFirst
<1>3. pos + 1 <= Len(input) + 1 /\ Open(pos + 1) = Open(pos)
  BY <1>2, NextTokens DEF Unbracketed
<1> QED BY <1>1, <1>2, <1>3, Entries0, PushKeeps

LEMMA MatchAxisKeeps ==
  ASSUME Inv, MatchAxis
  PROVE  Inv'
<1>1. Doing("axis") /\ Ahead(0) \in Number /\ Step(1, <<Leaf("axis", Ahead(0))>>, <<>>)
  BY DEF MatchAxis
<1>2. /\ outcome.kind = "parsing" /\ todo # <<>> /\ Len(vals) \in Nat
      /\ Due = Len(vals) + 1 /\ Closed = Open(pos)
  BY <1>1, AtPlain DEF Plain
<1>3. pos + 1 <= Len(input) + 1 /\ Open(pos + 1) = Open(pos)
  BY <1>1, NextTokens DEF Unbracketed, Literal
<1> QED BY <1>1, <1>2, <1>3, Entries0, PushKeeps

LEMMA ElementKeeps ==
  ASSUME Inv, Element
  PROVE  Inv'
<1> DEFINE n == Head(todo).n
           then(kind) == <<Call("inner"), Loop(kind, n + 1)>>
<1>1. PICK kind \in {"tuple", "set", "list"} : Doing(kind) /\ Step(0, <<>>, then(kind))
  BY DEF Element, Closer
<1>2. /\ outcome.kind = "parsing" /\ todo # <<>> /\ Len(vals) \in Nat /\ n \in Nat
      /\ Len(vals) >= n /\ Due = Len(vals) - n + 1 /\ Closed = Take(Open(pos), Closer[kind])
  BY <1>1, AtLoop DEF Closer
<1> HIDE DEF n
<1>3. /\ After(Call("inner"), Len(vals), Here) = Len(vals) + 1
      /\ After(Loop(kind, n + 1), Len(vals) + 1, Anywhere) = Due
  BY <1>2, PlainCall, LoopCall DEF Plain
<1>4. Take(Open(pos), Owes(Call("inner"))) = Open(pos)
      /\ Owes(Loop(kind, n + 1)) = Closer[kind]
  BY <1>1, CallOwes, BracketOwes DEF Plain, Closer
<1>5. /\ IsSeq(then(kind)) /\ Height(then(kind), Len(vals), Here) = Due
      /\ Shut(then(kind), Open(pos)) = Closed
  BY <1>2, <1>3, <1>4, Entries2
<1> QED BY <1>1, <1>2, <1>5, StayKeeps

LEMMA LastElementKeeps ==
  ASSUME Inv, LastElement
  PROVE  Inv'
<1> DEFINE n == Head(todo).n
           then(kind) == IF kind = "tuple" /\ n = 1 THEN <<>> ELSE <<Build(kind, n)>>
<1>1. PICK kind \in {"tuple", "set", "list"} :
        Doing(kind) /\ Ahead(0) = Closer[kind] /\ Step(1, <<>>, then(kind))
  BY DEF LastElement, Closer
<1>2. /\ outcome.kind = "parsing" /\ todo # <<>> /\ Len(vals) \in Nat /\ n \in Nat
      /\ Len(vals) >= n /\ Due = Len(vals) - n + 1 /\ Closed = Take(Open(pos), Closer[kind])
  BY <1>1, AtLoop DEF Closer
<1>3. pos + 1 <= Len(input) + 1 /\ Open(pos + 1) = Closed
  BY <1>1, <1>2, NextTokens DEF Closer, Bracket
<1> HIDE DEF n
<1>4. /\ IsSeq(then(kind)) /\ Height(then(kind), Len(vals), HereAfter(1)) = Due
      /\ Shut(then(kind), Open(pos + 1)) = Closed
  <2>1. CASE kind = "tuple" /\ n = 1
    BY <1>2, <1>3, <2>1, Entries0
  <2>2. CASE ~(kind = "tuple" /\ n = 1)
    <3>1. then(kind) = <<Build(kind, n)>>
      BY <2>2
    <3>2. After(Build(kind, n), Len(vals), HereAfter(1)) = Due
      BY <1>2, Built
    <3>3. Take(Open(pos + 1), Owes(Build(kind, n))) = Open(pos + 1)
      BY ItemOwes
    <3> QED BY <1>3, <3>1, <3>2, <3>3, Entries1
  <2> QED BY <2>1, <2>2
<1> QED BY <1>1, <1>2, <1>3, <1>4, TakeKeeps

LEMMA MatchStartNameKeeps ==
  ASSUME Inv, MatchStartName
  PROVE  Inv'
<1> DEFINE then == <<Loop("wing", 1)>>
<1>1. Doing("name") /\ Step(1, <<Leaf("name", Ahead(0))>>, then)
  BY DEF MatchStartName
<1>2. /\ outcome.kind = "parsing" /\ todo # <<>> /\ Len(vals) \in Nat
      /\ Due = Len(vals) + 1 /\ Closed = Open(pos) /\ Ahead(0) \in Names
  BY <1>1, AtFirst
<1>3. pos + 1 <= Len(input) + 1 /\ Open(pos + 1) = Open(pos)
  BY <1>2, NextTokens DEF Unbracketed
<1>4. /\ IsSeq(then) /\ Height(then, Len(vals) + 1, HereAfter(1)) = Due
      /\ Shut(then, Open(pos + 1)) = Closed
  BY <1>2, <1>3, LoopCall, ItemOwes, Entries1
<1> QED BY <1>1, <1>2, <1>3, <1>4, PushKeeps

LEMMA WingKeeps ==
  ASSUME Inv, Wing
  PROVE  Inv'
<1> DEFINE n == Head(todo).n
           then == <<Loop("wing", n + 1)>>
<1>1. /\ Doing("wing") /\ Ahead(0) = "." /\ Ahead(1) \in Names
      /\ Step(2, <<Leaf("name", Ahead(1))>>, then)
  BY DEF Wing
<1>2. /\ outcome.kind = "parsing" /\ todo # <<>> /\ Len(vals) \in Nat /\ n \in Nat
      /\ Len(vals) >= n /\ Due = Len(vals) - n + 1 /\ Closed = Open(pos)
  BY <1>1, AtLoop DEF Closer
<1>3. pos + 2 <= Len(input) + 1 /\ Open(pos + 2) = Open(pos)
  BY <1>1, NextTokens DEF Unbracketed, Mark
<1> HIDE DEF n
<1>4. /\ IsSeq(then) /\ Height(then, Len(vals) + 1, HereAfter(2)) = Due
      /\ Shut(then, Open(pos + 2)) = Closed
  <2>1. After(Loop("wing", n + 1), Len(vals) + 1, HereAfter(2)) = Due
    BY <1>2, LoopCall
  <2>2. Take(Open(pos), Owes(Loop("wing", n + 1))) = Open(pos)
    BY ItemOwes
  <2> QED BY <1>2, <1>3, <2>1, <2>2, Entries1
<1> QED BY <1>1, <1>2, <1>3, <1>4, PushKeeps

LEMMA LastWingKeeps ==
  ASSUME Inv, LastWing
  PROVE  Inv'
<1> DEFINE n == Head(todo).n
           then == <<Build("limb", n), Call("after-name")>>
<1>1. Doing("wing") /\ Step(0, <<>>, then)
  BY DEF LastWing
<1>2. /\ outcome.kind = "parsing" /\ todo # <<>> /\ Len(vals) \in Nat /\ n \in Nat
      /\ Len(vals) >= n /\ Due = Len(vals) - n + 1 /\ Closed = Open(pos)
  BY <1>1, AtLoop DEF Closer
<1> HIDE DEF n
<1>3. /\ After(Build("limb", n), Len(vals), Here) = Due
      /\ After(Call("after-name"), Due, Anywhere) = Due
  BY <1>2, Built, KeptCall DEF Kept
<1>4. IsSeq(then) /\ Height(then, Len(vals), Here) = Due /\ Shut(then, Open(pos)) = Closed
  BY <1>2, <1>3, ItemOwes, CallOwes, Entries2 DEF Kept
<1> QED BY <1>1, <1>2, <1>4, StayKeeps

LEMMA EditKeeps ==
  ASSUME Inv, Edit
  PROVE  Inv'
<1> DEFINE then == <<Call("inner"), Expect(Semicolon), Call("jock"), Build("edit", 3)>>
<1>1. Doing("after-name") /\ Ahead(0) = "=" /\ Step(1, <<>>, then)
  BY DEF Edit
<1>2. /\ outcome.kind = "parsing" /\ todo # <<>> /\ Len(vals) \in Nat
      /\ Len(vals) > 0 /\ Due = Len(vals) /\ Closed = Open(pos)
  BY <1>1, AtKept DEF Kept
<1>3. pos + 1 <= Len(input) + 1 /\ Open(pos + 1) = Open(pos)
  BY <1>1, NextTokens DEF Unbracketed, Mark
<1>4. IsSeq(then) /\ Height(then, Len(vals), HereAfter(1)) = Due
  BY <1>2, PlainCall, Expected, Built, Entries4 DEF Plain, Mark
<1>5. Shut(then, Open(pos + 1)) = Closed
  BY <1>2, <1>3, CallOwes, MarkOwes, ItemOwes, Entries4 DEF Plain, Mark
<1> QED BY <1>1, <1>2, <1>3, <1>4, <1>5, TakeKeeps

LEMMA NameCallKeeps ==
  ASSUME Inv, NameCall
  PROVE  Inv'
<1>1. Doing("after-name") /\ Ahead(0) = "(("
  BY DEF NameCall
<1>2. /\ outcome.kind = "parsing" /\ todo # <<>> /\ Len(vals) \in Nat
      /\ Len(vals) > 0 /\ Due = Len(vals) /\ Closed = Open(pos)
  BY <1>1, AtKept DEF Kept
<1>3. pos + 1 <= Len(input) + 1 /\ Open(pos + 1) = Take(Open(pos), "((")
  BY <1>1, NextTokens DEF Bracket
<1>4. CASE Ahead(1) = ")"
  <2> DEFINE then == <<Build("call", 1)>>
  <2>1. Step(2, <<>>, then)
    BY <1>4 DEF NameCall
  <2>2. pos + 2 <= Len(input) + 1 /\ Open(pos + 2) = Open(pos)
    BY <1>3, <1>4, NextTokens, Matching DEF Bracket
  <2>3. /\ IsSeq(then) /\ Height(then, Len(vals), HereAfter(2)) = Due
        /\ Shut(then, Open(pos + 2)) = Closed
    BY <1>2, <2>2, Built, ItemOwes, Entries1
  <2> QED BY <1>2, <2>1, <2>2, <2>3, TakeKeeps
<1>5. CASE Ahead(1) # ")"
  <2> DEFINE then == <<Call("argument"), Build("call", 2)>>
  <2>1. Step(1, <<>>, then)
    BY <1>5 DEF NameCall
  <2>2. HereAfter(1).last = "(("
    <3>1. pos + 1 - 1 = pos + 0
      BY HereIsNow
    <3> QED BY <1>1, <3>1 DEF HereAfter, Ahead
  <2>3. IsSeq(then) /\ Height(then, Len(vals), HereAfter(1)) = Due
    <3>1. After(Call("argument"), Len(vals), HereAfter(1)) = Len(vals) + 1
      BY <1>2, <2>2, FirstFits, FirstCall
    <3>2. After(Build("call", 2), Len(vals) + 1, Anywhere) = Len(vals)
      BY <1>2, Built
    <3> QED BY <1>2, <3>1, <3>2, Entries2
  <2>4. Shut(then, Open(pos + 1)) = Closed
    BY <1>2, <1>3, BracketOwes, Matching, ItemOwes, Entries2
  <2> QED BY <1>2, <1>3, <2>1, <2>3, <2>4, TakeKeeps
<1> QED BY <1>4, <1>5

LEMMA PlainNameKeeps ==
  ASSUME Inv, PlainName
  PROVE  Inv'
<1>1. Doing("after-name") /\ Step(0, <<>>, <<>>)
  BY DEF PlainName
<1>2. /\ outcome.kind = "parsing" /\ todo # <<>> /\ Len(vals) \in Nat
      /\ Due = Len(vals) /\ Closed = Open(pos)
  BY <1>1, AtKept DEF Kept
<1> QED BY <1>1, <1>2, Entries0, StayKeeps

LEMMA MatchCallArgKeeps ==
  ASSUME Inv, MatchCallArg
  PROVE  Inv'
<1>1. Doing("argument")
  BY DEF MatchCallArg
<1>2. /\ outcome.kind = "parsing" /\ todo # <<>> /\ Len(vals) \in Nat
      /\ Due = Len(vals) + 1 /\ Closed = Take(Open(pos), ")") /\ Token(pos - 1) = "(("
  BY <1>1, AtFirst
<1>3. CASE Ahead(0) = "("
  <2> DEFINE then == <<Call("pair")>>
  <2>1. Step(0, <<>>, then)
    BY <1>3 DEF MatchCallArg
  <2>2. Here.next = "("
    BY <1>3, HereIsNow DEF Here, Ahead
  <2>3. IsSeq(then) /\ Height(then, Len(vals), Here) = Due
    <3>1. After(Call("pair"), Len(vals), Here) = Len(vals) + 1
      BY <1>2, <2>2, FirstFits, FirstCall
    <3> QED BY <1>2, <3>1, Entries1
  <2>4. Swallowed'
    <3>1. "((" # End
      BY TokenSets DEF Tokens, Bracket
    <3>2. pos - 1 \in DOMAIN input /\ input[pos - 1] = "((" /\ pos \in Int
      BY <1>2, <3>1, HereIsNow DEF Token
    <3>3. pos - 1 \in 1..(pos - 1) /\ pos - 1 + 1 = pos
      BY <3>2, LenProperties DEF Inv
    <3>4. Token(pos - 1 + 1) = "("
      BY <1>3, <3>3, HereIsNow DEF Ahead
    <3>5. Swallowed
      BY <3>2, <3>3, <3>4 DEF Swallowed
    <3>6. input' = input /\ pos' = pos
      BY <2>1, HereIsNow DEF Step
    <3> QED BY <3>5, <3>6 DEF Swallowed, Token
  <2>5. Len(vals) + Len(<<>>) = Len(vals)
    BY <1>2, HereIsNow
  <2> QED BY <1>2, <2>1, <2>3, <2>4, <2>5, HereIsNow, StepKeeps
<1>4. CASE Ahead(0) # "("
  <2> DEFINE then == <<Call("inner"), Loop("tuple", 1)>>
  <2>1. Step(0, <<>>, then)
    BY <1>4 DEF MatchCallArg
  <2>2. IsSeq(then) /\ Height(then, Len(vals), Here) = Due
    BY <1>2, PlainCall, LoopCall, Entries2 DEF Plain
  <2>3. Shut(then, Open(pos)) = Closed
    BY <1>2, CallOwes, BracketOwes, Entries2 DEF Plain
  <2> QED BY <1>2, <2>1, <2>2, <2>3, StayKeeps
<1> QED BY <1>3, <1>4
-----------------------------------------------------------------------------
(* What starts with a punctuator, and lambdas.                             *)

LEMMA UnaryKeeps ==
  ASSUME Inv, Unary
  PROVE  Inv'
<1> DEFINE node == IF Ahead(0) = "+" THEN "increment" ELSE "cell-check"
           then == <<Build(node, 1)>>
           block == Block("(", "inner", ")")
<1>1. Doing("punctuator") /\ Ahead(0) \in {"+", "?"} /\ Step(1, <<>>, block \o then)
  BY DEF Unary, Starting
<1>2. /\ outcome.kind = "parsing" /\ todo # <<>> /\ Len(vals) \in Nat
      /\ Due = Len(vals) + 1 /\ Closed = Open(pos)
  BY <1>1, AtPlain DEF Plain
<1>3. pos + 1 <= Len(input) + 1 /\ Open(pos + 1) = Open(pos)
  BY <1>1, NextTokens DEF Unbracketed, Mark
<1> HIDE DEF node
<1>4. /\ IsSeq(then) /\ Height(then, Len(vals) + 1, Anywhere) = Due
      /\ Shut(then, Open(pos)) = Open(pos)
  BY <1>2, Built, ItemOwes, Entries1
<1> HIDE DEF then
<1>5. /\ IsSeq(block \o then)
      /\ Height(block \o then, Len(vals), HereAfter(1)) = Height(then, Len(vals) + 1, Anywhere)
      /\ Shut(block \o then, Open(pos)) = Shut(then, Open(pos))
  BY <1>2, <1>4, BlockThen, BlockShut, Matching, Brackets DEF Plain
<1>6. /\ Height(block \o then, Len(vals), HereAfter(1)) = Due
      /\ Shut(block \o then, Open(pos + 1)) = Closed
  BY <1>2, <1>3, <1>4, <1>5
<1> QED BY <1>1, <1>2, <1>3, <1>5, <1>6, TakeKeeps

LEMMA AgainKeeps ==
  ASSUME Inv, Again
  PROVE  Inv'
<1> DEFINE self == Leaf("axis", "0")
           again == <<Build("call", 1)>>
           with == <<Build("call", 2)>>
           block == Block("(", "inner", ")")
<1>1. PICK what \in Plain : Doing(what)
  BY DEF Again, Starting, Keyworded, Plain
<1>2. /\ outcome.kind = "parsing" /\ todo # <<>> /\ Len(vals) \in Nat
      /\ Due = Len(vals) + 1 /\ Closed = Open(pos)
  BY <1>1, AtPlain
<1>3. pos + 1 <= Len(input) + 1 /\ Open(pos + 1) = Open(pos)
  <2>1. Ahead(0) = "$" \/ Ahead(0) = "recur"
    BY DEF Again, Starting, Keyworded
  <2> QED BY <2>1, NextTokens DEF Unbracketed, Mark, Keyword
<1>4. /\ IsSeq(again) /\ Shut(again, Open(pos)) = Open(pos)
      /\ \A here : Height(again, Len(vals) + 1, here) = Due
  BY <1>2, Built, ItemOwes, Entries1
<1>5. CASE Ahead(1) # "("
  <2>1. Step(1, <<self>>, again)
    BY <1>5 DEF Again
  <2> HIDE DEF again
  <2> QED BY <1>2, <1>3, <1>4, <2>1, PushKeeps
<1>6. CASE Ahead(1) = "(" /\ Ahead(2) = ")"
  <2>1. Step(3, <<self>>, again)
    BY <1>6 DEF Again
  <2>2. pos + 3 <= Len(input) + 1 /\ Open(pos + 3) = Open(pos)
    BY <1>3, <1>6, NextTokens, Matching DEF Bracket
  <2> HIDE DEF again
  <2> QED BY <1>2, <1>4, <2>1, <2>2, PushKeeps
<1>7. CASE Ahead(1) = "(" /\ Ahead(2) # ")"
  <2>1. Step(1, <<self>>, block \o with)
    BY <1>7 DEF Again
  <2>2. /\ IsSeq(with) /\ Shut(with, Open(pos)) = Open(pos)
        /\ Height(with, Len(vals) + 1 + 1, Anywhere) = Due
    BY <1>2, Built, ItemOwes, Entries1
  <2>3. Len(vals) + 1 \in Nat
    BY <1>2
  <2> HIDE DEF with
  <2>4. /\ IsSeq(block \o with)
        /\ Height(block \o with, Len(vals) + 1, HereAfter(1))
             = Height(with, Len(vals) + 1 + 1, Anywhere)
        /\ Shut(block \o with, Open(pos)) = Shut(with, Open(pos))
    BY <2>2, <2>3, BlockThen, BlockShut, Matching, Brackets DEF Plain
  <2>5. /\ Height(block \o with, Len(vals) + 1, HereAfter(1)) = Due
        /\ Shut(block \o with, Open(pos + 1)) = Closed
    BY <1>2, <1>3, <2>2, <2>4
  <2> QED BY <1>2, <1>3, <2>1, <2>4, <2>5, PushKeeps
<1> QED BY <1>5, <1>6, <1>7

LEMMA AxisLimbKeeps ==
  ASSUME Inv, AxisLimb
  PROVE  Inv'
<1> DEFINE then == <<Call("axis"), Call("axis-call")>>
<1>1. Doing("punctuator") /\ Ahead(0) = "&" /\ Step(1, <<>>, then)
  BY DEF AxisLimb, Starting
<1>2. /\ outcome.kind = "parsing" /\ todo # <<>> /\ Len(vals) \in Nat
      /\ Due = Len(vals) + 1 /\ Closed = Open(pos)
  BY <1>1, AtPlain DEF Plain
<1>3. pos + 1 <= Len(input) + 1 /\ Open(pos + 1) = Open(pos)
  BY <1>1, NextTokens DEF Unbracketed, Mark
<1>4. /\ IsSeq(then) /\ Height(then, Len(vals), HereAfter(1)) = Due
      /\ Shut(then, Open(pos + 1)) = Closed
  BY <1>2, <1>3, PlainCall, KeptCall, CallOwes, Entries2 DEF Plain, Kept
<1> QED BY <1>1, <1>2, <1>3, <1>4, TakeKeeps

LEMMA AxisCallKeeps ==
  ASSUME Inv, AxisCall
  PROVE  Inv'
<1> DEFINE then == <<Build("call", 2)>>
           block == Block("(", "inner", ")")
<1>1. Doing("axis-call")
  BY DEF AxisCall
<1>2. /\ outcome.kind = "parsing" /\ todo # <<>> /\ Len(vals) \in Nat /\ Len(vals) > 0
      /\ Due = Len(vals) /\ Closed = Open(pos)
  BY <1>1, AtKept DEF Kept
<1>3. CASE Ahead(0) # "("
  <2>1. Step(0, <<>>, <<>>)
    BY <1>3 DEF AxisCall
  <2> QED BY <1>2, <2>1, Entries0, StayKeeps
<1>4. CASE Ahead(0) = "("
  <2>1. Step(0, <<>>, block \o then)
    BY <1>4 DEF AxisCall
  <2>2. /\ IsSeq(then) /\ Height(then, Len(vals) + 1, Anywhere) = Due
        /\ Shut(then, Open(pos)) = Open(pos)
    BY <1>2, Built, ItemOwes, Entries1
  <2> HIDE DEF then
  <2>3. /\ IsSeq(block \o then) /\ Height(block \o then, Len(vals), Here) = Due
        /\ Shut(block \o then, Open(pos)) = Closed
    BY <1>2, <2>2, BlockThen, BlockShut, Matching, Brackets DEF Plain
  <2> QED BY <1>2, <2>1, <2>3, StayKeeps
<1> QED BY <1>3, <1>4

LEMMA SetOrListKeeps ==
  ASSUME Inv, SetOrList
  PROVE  Inv'
<1> DEFINE kind == IF Ahead(0) = LBrace THEN "set" ELSE "list"
           then == <<Call("inner"), Loop(kind, 1)>>
<1>1. Doing("punctuator") /\ Ahead(0) \in {LBrace, "["} /\ Step(1, <<>>, then)
  BY DEF SetOrList, Starting
<1>2. /\ outcome.kind = "parsing" /\ todo # <<>> /\ Len(vals) \in Nat
      /\ Due = Len(vals) + 1 /\ Closed = Open(pos)
  BY <1>1, AtPlain DEF Plain
<1>3. pos + 1 <= Len(input) + 1 /\ Open(pos + 1) = Take(Open(pos), Ahead(0))
  BY <1>1, NextTokens DEF Bracket
<1>4. kind \in {"set", "list"}
      /\ Take(Take(Open(pos), Ahead(0)), Owes(Loop(kind, 1))) = Open(pos)
  <2>1. CASE Ahead(0) = LBrace
    <3>1. kind = "set"
      BY <2>1
    <3> QED BY <2>1, <3>1, Matching, BracketOwes
  <2>2. CASE Ahead(0) = "[" /\ Ahead(0) # LBrace
    <3>1. kind = "list"
      BY <2>2
    <3> QED BY <2>2, <3>1, Matching, BracketOwes
  <2> QED BY <1>1, <2>1, <2>2
<1> HIDE DEF kind
<1>5. /\ After(Call("inner"), Len(vals), HereAfter(1)) = Len(vals) + 1
      /\ After(Loop(kind, 1), Len(vals) + 1, Anywhere) = Due
  BY <1>2, <1>4, PlainCall, LoopCall DEF Plain
<1>6. Take(Open(pos + 1), Owes(Call("inner"))) = Open(pos + 1)
  BY CallOwes DEF Plain
<1>7. /\ IsSeq(then) /\ Height(then, Len(vals), HereAfter(1)) = Due
      /\ Shut(then, Open(pos + 1)) = Closed
  BY <1>2, <1>3, <1>4, <1>5, <1>6, Entries2
<1> QED BY <1>1, <1>2, <1>3, <1>7, TakeKeeps

LEMMA ParenthesisKeeps ==
  ASSUME Inv, Parenthesis
  PROVE  Inv'
<1> DEFINE lambda == <<Call("lambda"), Call("lambda-call")>>
           pair == <<Call("pair")>>
<1>1. Doing("punctuator") /\ Ahead(0) = "("
  BY DEF Parenthesis, Starting
<1>2. /\ outcome.kind = "parsing" /\ todo # <<>> /\ Len(vals) \in Nat
      /\ Due = Len(vals) + 1 /\ Closed = Open(pos)
  BY <1>1, AtPlain DEF Plain
<1>3. IsSeq(lambda) /\ Height(lambda, Len(vals), Here) = Due
      /\ Shut(lambda, Open(pos)) = Closed
  BY <1>2, PlainCall, KeptCall, CallOwes, Entries2 DEF Plain, Kept
<1>4. IsSeq(pair) /\ Height(pair, Len(vals), Here) = Due /\ Shut(pair, Open(pos)) = Closed
  <2>1. Here.next = "("
    BY <1>1, HereIsNow DEF Here, Ahead
  <2>2. After(Call("pair"), Len(vals), Here) = Len(vals) + 1
    BY <1>2, <2>1, FirstFits, FirstCall
  <2> QED BY <1>2, <2>2, CallOwes, Entries1
<1>5. Step(0, <<>>, lambda) \/ Step(0, <<>>, pair)
  BY DEF Parenthesis
<1> HIDE DEF lambda, pair
<1> QED BY <1>2, <1>3, <1>4, <1>5, StayKeeps

LEMMA MatchPairInnerJockKeeps ==
  ASSUME Inv, MatchPairInnerJock
  PROVE  Inv'
<1> DEFINE then == <<Call("inner"), Loop("tuple", 1)>>
<1>1. Doing("pair") /\ Step(1, <<>>, then)
  BY DEF MatchPairInnerJock
<1>2. /\ outcome.kind = "parsing" /\ todo # <<>> /\ Len(vals) \in Nat
      /\ Due = Len(vals) + 1 /\ Closed = Open(pos) /\ Ahead(0) = "("
  BY <1>1, AtFirst
<1>3. pos + 1 <= Len(input) + 1 /\ Open(pos + 1) = Take(Open(pos), "(")
  BY <1>2, NextTokens DEF Bracket
<1>4. IsSeq(then) /\ Height(then, Len(vals), HereAfter(1)) = Due
  BY <1>2, PlainCall, LoopCall, Entries2 DEF Plain
<1>5. Shut(then, Open(pos + 1)) = Closed
  <2>1. Take(Take(Open(pos), "("), Owes(Call("inner"))) = Take(Open(pos), "(")
    BY CallOwes DEF Plain
  <2> QED BY <1>2, <1>3, <2>1, BracketOwes, Matching, Entries2
<1> QED BY <1>1, <1>2, <1>3, <1>4, <1>5, TakeKeeps

LEMMA LambdaCallKeeps ==
  ASSUME Inv, LambdaCall
  PROVE  Inv'
<1> DEFINE none == <<Build("call", 1)>>
           then == <<Call("pair"), Build("call", 2)>>
<1>1. Doing("lambda-call")
  BY DEF LambdaCall
<1>2. /\ outcome.kind = "parsing" /\ todo # <<>> /\ Len(vals) \in Nat /\ Len(vals) > 0
      /\ Due = Len(vals) /\ Closed = Open(pos)
  BY <1>1, AtKept DEF Kept
<1>3. CASE Ahead(0) # "("
  <2>1. Step(0, <<>>, <<>>)
    BY <1>3 DEF LambdaCall
  <2> QED BY <1>2, <2>1, Entries0, StayKeeps
<1>4. CASE Ahead(0) = "(" /\ Ahead(1) = ")"
  <2>1. Step(2, <<>>, none)
    BY <1>4 DEF LambdaCall
  <2>2. pos + 2 <= Len(input) + 1 /\ Open(pos + 2) = Open(pos)
    BY <1>4, NextTokens, Matching DEF Bracket
  <2>3. /\ IsSeq(none) /\ Height(none, Len(vals), HereAfter(2)) = Due
        /\ Shut(none, Open(pos + 2)) = Closed
    BY <1>2, <2>2, Built, ItemOwes, Entries1
  <2> QED BY <1>2, <2>1, <2>2, <2>3, TakeKeeps
<1>5. CASE Ahead(0) = "(" /\ Ahead(1) # ")"
  <2>1. Step(0, <<>>, then)
    BY <1>5 DEF LambdaCall
  <2>2. Here.next = "("
    BY <1>5, HereIsNow DEF Here, Ahead
  <2>3. After(Call("pair"), Len(vals), Here) = Len(vals) + 1
    BY <1>2, <2>2, FirstFits, FirstCall
  <2>4. After(Build("call", 2), Len(vals) + 1, Anywhere) = Len(vals)
    BY <1>2, Built
  <2>5. IsSeq(then) /\ Height(then, Len(vals), Here) = Due /\ Shut(then, Open(pos)) = Closed
    BY <1>2, <2>3, <2>4, CallOwes, ItemOwes, Entries2
  <2> QED BY <1>2, <2>1, <2>5, StayKeeps
<1> QED BY <1>3, <1>4, <1>5

LEMMA MatchLambdaKeeps ==
  ASSUME Inv, MatchLambda
  PROVE  Inv'
<1> DEFINE first == <<Expect("("), Call("parameter")>>
           then == <<Build("lambda", 2)>>
           all == first \o Block(LBrace, "jock", RBrace) \o then
<1>1. Doing("lambda") /\ Step(0, <<>>, all)
  BY DEF MatchLambda
<1>2. /\ outcome.kind = "parsing" /\ todo # <<>> /\ Len(vals) \in Nat
      /\ Due = Len(vals) + 1 /\ Closed = Open(pos)
  BY <1>1, AtPlain DEF Plain
<1>3. IsSeq(first) /\ Height(first, Len(vals), Here) = Len(vals) + 1 /\ first # <<>>
  BY <1>2, Expected, ClosingCall, Entries2 DEF Bracket
<1>4. Shut(first, Open(pos)) = Open(pos)
  BY BracketOwes, Matching, Entries2
<1>5. IsSeq(then) /\ Height(then, Len(vals) + 1 + 1, Anywhere) = Len(vals) + 1
  BY <1>2, Built, Entries1
<1>6. Shut(then, Open(pos)) = Open(pos)
  BY ItemOwes, Entries1
<1> HIDE DEF first, then
<1>7. IsSeq(all) /\ Height(all, Len(vals), Here) = Due /\ Shut(all, Open(pos)) = Closed
  BY <1>2, <1>3, <1>4, <1>5, <1>6, BlockAmid, Matching, Brackets DEF Plain
<1> QED BY <1>1, <1>2, <1>7, StayKeeps

LEMMA NoParameterKeeps ==
  ASSUME Inv, NoParameter
  PROVE  Inv'
<1> DEFINE then == <<Expect("-"), Expect(">"), Call("jype"), Build("lambda-argument", 1)>>
<1>1. Doing("parameter") /\ Ahead(0) = ")" /\ Step(1, <<>>, then)
  BY DEF NoParameter
<1>2. /\ outcome.kind = "parsing" /\ todo # <<>> /\ Len(vals) \in Nat
      /\ Due = Len(vals) + 1 /\ Closed = Take(Open(pos), ")")
  BY <1>1, AtClosing
<1>3. pos + 1 <= Len(input) + 1 /\ Open(pos + 1) = Closed
  BY <1>1, <1>2, NextTokens DEF Bracket
<1>4. IsSeq(then) /\ Height(then, Len(vals), HereAfter(1)) = Due
  BY <1>2, PlainCall, Expected, Built, Entries4 DEF Plain, Mark
<1>5. Shut(then, Open(pos + 1)) = Closed
  BY <1>3, CallOwes, MarkOwes, ItemOwes, Entries4 DEF Plain, Mark
<1> QED BY <1>1, <1>2, <1>3, <1>4, <1>5, TakeKeeps

LEMMA ParameterKeeps ==
  ASSUME Inv, Parameter
  PROVE  Inv'
<1> DEFINE then == <<Call("jype"), Call("result"), Build("lambda-argument", 2)>>
<1>1. Doing("parameter") /\ Step(0, <<>>, then)
  BY DEF Parameter
<1>2. /\ outcome.kind = "parsing" /\ todo # <<>> /\ Len(vals) \in Nat
      /\ Due = Len(vals) + 1 /\ Closed = Take(Open(pos), ")")
  BY <1>1, AtClosing
<1>3. IsSeq(then) /\ Height(then, Len(vals), Here) = Due
  BY <1>2, PlainCall, ClosingCall, Built, Entries3 DEF Plain
<1>4. Shut(then, Open(pos)) = Closed
  BY <1>2, CallOwes, BracketOwes, ItemOwes, Entries3 DEF Plain
<1> QED BY <1>1, <1>2, <1>3, <1>4, StayKeeps

LEMMA ResultKeeps ==
  ASSUME Inv, Result
  PROVE  Inv'
<1> DEFINE inside == <<Call("jype"), Expect(")")>>
           outside == <<Expect(")"), Expect("-"), Expect(">"), Call("jype")>>
<1>1. Doing("result")
  BY DEF Result
<1>2. /\ outcome.kind = "parsing" /\ todo # <<>> /\ Len(vals) \in Nat
      /\ Due = Len(vals) + 1 /\ Closed = Take(Open(pos), ")")
  BY <1>1, AtClosing
<1>3. CASE Arrow(0)
  <2>1. Ahead(0) = "-" /\ Ahead(1) = ">" /\ Step(2, <<>>, inside)
    BY <1>3 DEF Arrow, Result
  <2>2. pos + 2 <= Len(input) + 1 /\ Open(pos + 2) = Open(pos)
    BY <2>1, NextTokens DEF Unbracketed, Mark
  <2>3. IsSeq(inside) /\ Height(inside, Len(vals), HereAfter(2)) = Due
    BY <1>2, PlainCall, Expected, Entries2 DEF Plain, Bracket
  <2>4. Shut(inside, Open(pos + 2)) = Closed
    BY <1>2, <2>2, CallOwes, BracketOwes, Entries2 DEF Plain
  <2> QED BY <1>2, <2>1, <2>2, <2>3, <2>4, TakeKeeps
<1>4. CASE ~Arrow(0)
  <2>1. Step(0, <<>>, outside)
    BY <1>4 DEF Result
  <2>3. IsSeq(outside) /\ Height(outside, Len(vals), Here) = Due
    BY <1>2, PlainCall, Expected, Entries4 DEF Plain, Bracket, Mark
  <2>4. Shut(outside, Open(pos)) = Closed
    BY <1>2, CallOwes, BracketOwes, MarkOwes, Entries4 DEF Plain, Mark
  <2> QED BY <1>2, <2>1, <2>3, <2>4, StayKeeps
<1> QED BY <1>3, <1>4
-----------------------------------------------------------------------------
(* Types.                                                                  *)

LEMMA QualifiedJypeKeeps ==
  ASSUME Inv, QualifiedJype
  PROVE  Inv'
<1> DEFINE what == IF Ahead(2) \in Type THEN "metatype" ELSE "jype"
           then == <<Call(what), Rename(Ahead(0))>>
<1>1. Doing("jype") /\ Ahead(0) \in Names /\ Ahead(1) = ":" /\ Step(2, <<>>, then)
  BY DEF QualifiedJype
<1>2. /\ outcome.kind = "parsing" /\ todo # <<>> /\ Len(vals) \in Nat
      /\ Due = Len(vals) + 1 /\ Closed = Open(pos)
  BY <1>1, AtPlain DEF Plain
<1>3. pos + 2 <= Len(input) + 1 /\ Open(pos + 2) = Open(pos)
  BY <1>1, NextTokens DEF Unbracketed, Mark
<1>4. After(Call(what), Len(vals), HereAfter(2)) = Len(vals) + 1
  <2>1. CASE Ahead(2) \in Type
    <3>1. HereAfter(2).next \in Type /\ what = "metatype"
      BY <2>1 DEF HereAfter, Ahead
    <3> HIDE DEF what
    <3> QED BY <1>2, <3>1, FirstFits, FirstCall
  <2>2. CASE Ahead(2) \notin Type
    <3>1. what = "jype"
      BY <2>2
    <3> HIDE DEF what
    <3> QED BY <1>2, <3>1, PlainCall DEF Plain
  <2> QED BY <2>1, <2>2
<1>5. After(Rename(Ahead(0)), Len(vals) + 1, Anywhere) = Len(vals) + 1
  BY <1>2, Renamed
<1>6. Take(Open(pos), Owes(Call(what))) = Open(pos)
  BY CallOwes DEF Plain
<1> HIDE DEF what
<1>7. IsSeq(then) /\ Height(then, Len(vals), HereAfter(2)) = Due
  BY <1>2, <1>4, <1>5, Entries2
<1>8. Shut(then, Open(pos + 2)) = Closed
  BY <1>2, <1>3, <1>6, ItemOwes, Entries2
<1> QED BY <1>1, <1>2, <1>3, <1>7, <1>8, TakeKeeps

LEMMA CellJypeKeeps ==
  ASSUME Inv, CellJype
  PROVE  Inv'
<1> DEFINE then == <<Call("jype"), Call("second-jype"), Expect(")")>>
<1>1. Doing("jype") /\ Ahead(0) = "(" /\ Step(1, <<>>, then)
  BY DEF CellJype
<1>2. /\ outcome.kind = "parsing" /\ todo # <<>> /\ Len(vals) \in Nat
      /\ Due = Len(vals) + 1 /\ Closed = Open(pos)
  BY <1>1, AtPlain DEF Plain
<1>3. pos + 1 <= Len(input) + 1 /\ Open(pos + 1) = Take(Open(pos), "(")
  BY <1>1, NextTokens DEF Bracket
<1>4. IsSeq(then) /\ Height(then, Len(vals), HereAfter(1)) = Due
  BY <1>2, PlainCall, KeptCall, Expected, Brackets, Entries3 DEF Plain, Kept
<1>5. Shut(then, Open(pos + 1)) = Closed
  BY <1>2, <1>3, CallOwes, BracketOwes, Matching, Entries3 DEF Plain, Kept
<1> QED BY <1>1, <1>2, <1>3, <1>4, <1>5, TakeKeeps

LEMMA SecondJypeKeeps ==
  ASSUME Inv, SecondJype
  PROVE  Inv'
<1> DEFINE then == <<Call("jype"), Build("cell-type", 2)>>
<1>1. Doing("second-jype") /\ (Step(0, <<>>, <<>>) \/ Step(0, <<>>, then))
  BY DEF SecondJype
<1>2. /\ outcome.kind = "parsing" /\ todo # <<>> /\ Len(vals) \in Nat
      /\ Len(vals) > 0 /\ Due = Len(vals) /\ Closed = Open(pos)
  BY <1>1, AtKept DEF Kept
<1>3. IsSeq(then) /\ Height(then, Len(vals), Here) = Due
  BY <1>2, PlainCall, Built, Entries2 DEF Plain
<1>4. Shut(then, Open(pos)) = Closed
  BY <1>2, CallOwes, ItemOwes, Entries2 DEF Plain
<1>5. IsSeq(<<>>) /\ Height(<<>>, Len(vals), Here) = Due /\ Shut(<<>>, Open(pos)) = Closed
  BY <1>2, Entries0
<1> HIDE DEF then
<1> QED BY <1>1, <1>2, <1>3, <1>4, <1>5, StayKeeps

LEMMA TypeJypeKeeps ==
  ASSUME Inv, TypeJype
  PROVE  Inv'
<1> DEFINE then == <<Call("metatype")>>
<1>1. Doing("jype") /\ Ahead(0) \in Type /\ Step(0, <<>>, then)
  BY DEF TypeJype
<1>2. /\ outcome.kind = "parsing" /\ todo # <<>> /\ Len(vals) \in Nat
      /\ Due = Len(vals) + 1 /\ Closed = Open(pos)
  BY <1>1, AtPlain DEF Plain
<1>3. Here.next \in Type
  BY <1>1, HereIsNow DEF Here, Ahead
<1>4. After(Call("metatype"), Len(vals), Here) = Len(vals) + 1
  BY <1>2, <1>3, FirstFits, FirstCall
<1>5. IsSeq(then) /\ Height(then, Len(vals), Here) = Due /\ Shut(then, Open(pos)) = Closed
  BY <1>2, <1>4, CallOwes, Entries1
<1> QED BY <1>1, <1>2, <1>5, StayKeeps

LEMMA LeafJypeKeeps ==
  ASSUME Inv, LeafJype
  PROVE  Inv'
<1> DEFINE leaf == <<Call("leaf")>>
           named == <<Call("leaf"), Rename(Ahead(0))>>
<1>1. Doing("jype")
  BY DEF LeafJype
<1>2. /\ outcome.kind = "parsing" /\ todo # <<>> /\ Len(vals) \in Nat
      /\ Due = Len(vals) + 1 /\ Closed = Open(pos)
  BY <1>1, AtPlain DEF Plain
<1>3. CASE Ahead(0) \in Name
  <2>1. Step(1, <<>>, named)
    BY <1>3 DEF LeafJype
  <2>2. pos + 1 <= Len(input) + 1 /\ Open(pos + 1) = Open(pos)
    BY <1>3, NextTokens DEF Unbracketed, Names
  <2>3. IsSeq(named) /\ Height(named, Len(vals), HereAfter(1)) = Due
    <3>1. After(Call("leaf"), Len(vals), HereAfter(1)) = Len(vals) + 1
      BY <1>2, PlainCall DEF Plain
    <3>2. After(Rename(Ahead(0)), Len(vals) + 1, Anywhere) = Len(vals) + 1
      BY <1>2, Renamed
    <3> QED BY <1>2, <3>1, <3>2, Entries2
  <2>4. Shut(named, Open(pos + 1)) = Closed
    <3>1. /\ Take(Open(pos), Owes(Call("leaf"))) = Open(pos)
          /\ Take(Open(pos), Owes(Rename(Ahead(0)))) = Open(pos)
      BY CallOwes, ItemOwes DEF Plain
    <3> QED BY <1>2, <2>2, <3>1, Entries2
  <2> QED BY <1>2, <2>1, <2>2, <2>3, <2>4, TakeKeeps
<1>4. CASE Ahead(0) \notin Name
  <2>1. Step(0, <<>>, leaf)
    BY <1>4 DEF LeafJype
  <2>2. IsSeq(leaf) /\ Height(leaf, Len(vals), Here) = Due
    BY <1>2, PlainCall, Entries1 DEF Plain
  <2>3. Shut(leaf, Open(pos)) = Closed
    BY <1>2, CallOwes, Entries1 DEF Plain
  <2> QED BY <1>2, <2>1, <2>2, <2>3, StayKeeps
<1> QED BY <1>3, <1>4

LEMMA MatchJypeLeafKeeps ==
  ASSUME Inv, MatchJypeLeaf
  PROVE  Inv'
<1>1. Doing("leaf")
  BY DEF MatchJypeLeaf
<1>2. /\ outcome.kind = "parsing" /\ todo # <<>> /\ Len(vals) \in Nat
      /\ Due = Len(vals) + 1 /\ Closed = Open(pos)
  BY <1>1, AtPlain DEF Plain
<1>3. CASE Ahead(0) \in {"@", "?", "*", "#"} \cup Names
  <2>1. PICK value : Step(1, <<value>>, <<>>)
    BY <1>3 DEF MatchJypeLeaf
  <2>2. pos + 1 <= Len(input) + 1 /\ Open(pos + 1) = Open(pos)
    BY <1>3, NextTokens DEF Unbracketed, Mark
  <2> QED BY <1>2, <2>1, <2>2, Entries0, PushKeeps
<1>4. CASE Ahead(0) \notin {"@", "?", "*", "#"} \cup Names
  <2>1. PICK value : Step(0, <<value>>, <<>>)
    BY <1>4 DEF MatchJypeLeaf
  <2>2. pos + 0 <= Len(input) + 1 /\ Open(pos + 0) = Open(pos)
    BY HereIsNow
  <2> QED BY <1>2, <2>1, <2>2, Entries0, PushKeeps
<1> QED BY <1>3, <1>4

LEMMA AxisJypeKeeps ==
  ASSUME Inv, AxisJype
  PROVE  Inv'
<1> DEFINE then == <<Call("axis"), Build("jype", 1)>>
<1>1. Doing("leaf") /\ Ahead(0) = "&" /\ Step(1, <<>>, then)
  BY DEF AxisJype
<1>2. /\ outcome.kind = "parsing" /\ todo # <<>> /\ Len(vals) \in Nat
      /\ Due = Len(vals) + 1 /\ Closed = Open(pos)
  BY <1>1, AtPlain DEF Plain
<1>3. pos + 1 <= Len(input) + 1 /\ Open(pos + 1) = Open(pos)
  BY <1>1, NextTokens DEF Unbracketed, Mark
<1>4. IsSeq(then) /\ Height(then, Len(vals), HereAfter(1)) = Due
  BY <1>2, PlainCall, Built, Entries2 DEF Plain
<1>5. Shut(then, Open(pos + 1)) = Closed
  BY <1>2, <1>3, CallOwes, ItemOwes, Entries2 DEF Plain
<1> QED BY <1>1, <1>2, <1>3, <1>4, <1>5, TakeKeeps

LEMMA PlainMetatypeKeeps ==
  ASSUME Inv, PlainMetatype
  PROVE  Inv'
<1>1. Doing("metatype") /\ \E value : Step(1, <<value>>, <<>>)
  BY DEF PlainMetatype
<1>2. /\ outcome.kind = "parsing" /\ todo # <<>> /\ Len(vals) \in Nat
      /\ Due = Len(vals) + 1 /\ Closed = Open(pos) /\ Ahead(0) \in Type
  BY <1>1, AtFirst
<1>3. pos + 1 <= Len(input) + 1 /\ Open(pos + 1) = Open(pos)
  BY <1>2, NextTokens DEF Unbracketed, Names
<1> QED BY <1>1, <1>2, <1>3, Entries0, PushKeeps

LEMMA MetatypeKeeps ==
  ASSUME Inv, Metatype
  PROVE  Inv'
<1> DEFINE then == <<Call("jype"), Call("second-jype"), Expect(")"), Build("container", 2)>>
<1>1. /\ Doing("metatype") /\ Ahead(0) \in Type /\ Ahead(1) = "(("
      /\ Step(2, <<Leaf("type", Ahead(0))>>, then)
  BY DEF Metatype
<1>2. /\ outcome.kind = "parsing" /\ todo # <<>> /\ Len(vals) \in Nat
      /\ Due = Len(vals) + 1 /\ Closed = Open(pos)
  BY <1>1, AtFirst
<1>3. pos + 2 <= Len(input) + 1 /\ Open(pos + 2) = Take(Open(pos), "((")
  BY <1>1, NextTokens DEF Unbracketed, Names, Bracket
<1>4. IsSeq(then) /\ Height(then, Len(vals) + 1, HereAfter(2)) = Due
  <2> DEFINE n == Len(vals) + 1
  <2>1. n \in Nat /\ n + 1 \in Nat /\ n + 1 > 0 /\ n + 1 >= 2 /\ n + 1 - 2 + 1 = n
    BY <1>2
  <2> HIDE DEF n
  <2>2. /\ After(Call("jype"), n, HereAfter(2)) = n + 1
        /\ After(Call("second-jype"), n + 1, Anywhere) = n + 1
    BY <2>1, PlainCall, KeptCall DEF Plain, Kept
  <2>3. After(Expect(")"), n + 1, Anywhere) = n + 1
    BY <2>1, Expected, Brackets
  <2>4. After(Build("container", 2), n + 1, Anywhere) = n
    BY <2>1, Built
  <2> QED BY <1>2, <2>2, <2>3, <2>4, Entries4 DEF n
<1>5. Shut(then, Open(pos + 2)) = Closed
  BY <1>2, <1>3, CallOwes, BracketOwes, Matching, ItemOwes, Entries4 DEF Plain, Kept
<1> QED BY <1>1, <1>2, <1>3, <1>4, <1>5, PushKeeps
-----------------------------------------------------------------------------
(* Keywords.                                                               *)

\* What follows a keyword makes one value, whatever its form.
LEMMA Forms ==
  ASSUME NEW word \in DOMAIN Form, NEW n \in Nat, NEW here, NEW open
  PROVE  /\ word \in Keyword /\ IsSeq(Form[word])
         /\ Height(Form[word], n, here) = n + 1 /\ Shut(Form[word], open) = open
<1>1. /\ n + 1 \in Nat /\ n + 2 \in Nat /\ n + 3 \in Nat /\ n + 4 \in Nat /\ n + 5 \in Nat
      /\ n + 1 > 0 /\ n + 1 + 1 = n + 2 /\ n + 2 + 1 = n + 3 /\ n + 3 + 1 = n + 4
      /\ n + 4 + 1 = n + 5
  OBVIOUS
<1>2. \A what \in Plain : \A h : /\ After(Call(what), n, h) = n + 1
                                /\ After(Call(what), n + 1, h) = n + 2
                                /\ After(Call(what), n + 2, h) = n + 3
  BY <1>1, PlainCall
<1>3. /\ \A h : After(Expect(Semicolon), n, h) = n
      /\ \A h : After(Expect(Semicolon), n + 1, h) = n + 1
      /\ \A h : After(Expect(Semicolon), n + 2, h) = n + 2
      /\ \A h : After(Expect("="), n + 1, h) = n + 1
      /\ \A h : After(Expect(LBrace), n + 1, h) = n + 1
      /\ \A h : After(Expect(RBrace), n + 2, h) = n + 2
  BY <1>1, Expected, Brackets DEF Mark
<1>4. \A node : \A h : /\ After(Build(node, 1), n + 1, h) = n + 1
                      /\ After(Build(node, 2), n + 2, h) = n + 1
                      /\ After(Build(node, 3), n + 3, h) = n + 1
  BY <1>1, Built
<1>5. /\ \A what \in Plain \cup Kept \cup {"attach"} : Take(open, Owes(Call(what))) = open
      /\ \A node : \A m : Take(open, Owes(Build(node, m))) = open
      /\ \A punc \in Mark : Take(open, Owes(Expect(punc))) = open
  BY CallOwes, ItemOwes, MarkOwes
<1>6. CASE word = "let"
  <2> DEFINE s == <<Call("jype"), Expect("="), Call("jock"), Expect(Semicolon),
                Call("jock"), Build("let", 3)>>
  <2>1. Form[word] = s
    BY <1>6 DEF Form
  <2>2. IsSeq(s) /\ Height(s, n, here) = n + 1
    BY <1>1, <1>2, <1>3, <1>4, Entries6 DEF Plain
  <2>3. Shut(s, open) = open
    BY <1>5, Entries6 DEF Plain, Kept, Mark
  <2> QED BY <1>6, <2>1, <2>2, <2>3 DEF Keyword
<1>7. CASE word = "lambda"
  <2> DEFINE s == <<Call("lambda"), Call("lambda-call")>>
  <2>1. Form[word] = s
    BY <1>7 DEF Form
  <2>2. IsSeq(s) /\ Height(s, n, here) = n + 1
    BY <1>1, <1>2, <1>3, <1>4, KeptCall, Entries2 DEF Plain, Kept
  <2>3. Shut(s, open) = open
    BY <1>5, Entries2 DEF Plain, Kept, Mark
  <2> QED BY <1>7, <2>1, <2>2, <2>3 DEF Keyword
<1>8. CASE word = "class"
  <2> DEFINE s == <<Call("jype"), Call("unreserved"), Expect(LBrace), Loop("methods", 0)>>
  <2>1. Form[word] = s
    BY <1>8 DEF Form
  <2>2. IsSeq(s) /\ Height(s, n, here) = n + 1
    BY <1>1, <1>2, <1>3, <1>4, KeptCall, NamedLoopCall, Entries4 DEF Plain, Kept
  <2>3. Shut(s, open) = open
    BY <1>5, BracketOwes, Matching, Entries4 DEF Plain, Kept, Mark
  <2> QED BY <1>8, <2>1, <2>2, <2>3 DEF Keyword
<1>9. CASE word = "assert"
  <2> DEFINE s == <<Call("inner"), Expect(Semicolon), Call("jock"), Build("assert", 2)>>
  <2>1. Form[word] = s
    BY <1>9 DEF Form
  <2>2. IsSeq(s) /\ Height(s, n, here) = n + 1
    BY <1>1, <1>2, <1>3, <1>4, Entries4 DEF Plain
  <2>3. Shut(s, open) = open
    BY <1>5, Entries4 DEF Plain, Kept, Mark
  <2> QED BY <1>9, <2>1, <2>2, <2>3 DEF Keyword
<1>10. CASE word = "with"
  <2> DEFINE s == <<Call("inner"), Expect(Semicolon), Call("jock"), Call("attach")>>
  <2>1. Form[word] = s
    BY <1>10 DEF Form
  <2>2. IsSeq(s) /\ Height(s, n, here) = n + 1
    BY <1>1, <1>2, <1>3, <1>4, OtherCall, Entries4 DEF Plain
  <2>3. Shut(s, open) = open
    BY <1>5, Entries4 DEF Plain, Kept, Mark
  <2> QED BY <1>10, <2>1, <2>2, <2>3 DEF Keyword
<1>11. CASE word = "compose"
  <2> DEFINE s == <<Call("inner"), Expect(Semicolon), Call("jock"), Build("compose", 2)>>
  <2>1. Form[word] = s
    BY <1>11 DEF Form
  <2>2. IsSeq(s) /\ Height(s, n, here) = n + 1
    BY <1>1, <1>2, <1>3, <1>4, Entries4 DEF Plain
  <2>3. Shut(s, open) = open
    BY <1>5, Entries4 DEF Plain, Kept, Mark
  <2> QED BY <1>11, <2>1, <2>2, <2>3 DEF Keyword
<1>12. CASE word = "match"
  <2> DEFINE s == <<Call("inner"), Expect(LBrace), Loop("cases", 0), Expect(RBrace),
                Build("match", 2)>>
  <2>1. Form[word] = s
    BY <1>12 DEF Form
  <2>2. IsSeq(s) /\ Height(s, n, here) = n + 1
    BY <1>1, <1>2, <1>3, <1>4, LoopCall, Entries5 DEF Plain
  <2>3. /\ Take(open, Owes(Call("inner"))) = open /\ Owes(Expect(LBrace)) = LBrace
        /\ Take(Take(open, LBrace), Owes(Loop("cases", 0))) = Take(open, LBrace)
        /\ Owes(Expect(RBrace)) = RBrace /\ Take(open, Owes(Build("match", 2))) = open
    BY <1>5, BracketOwes, ItemOwes DEF Plain
  <2>4. Shut(s, open) = open
    BY <2>3, Matching, Entries5
  <2> QED BY <1>12, <2>1, <2>2, <2>4 DEF Keyword
<1>13. CASE word = "switch"
  <2> DEFINE s == <<Call("inner"), Expect(LBrace), Loop("cases", 0), Expect(RBrace),
                Build("switch", 2)>>
  <2>1. Form[word] = s
    BY <1>13 DEF Form
  <2>2. IsSeq(s) /\ Height(s, n, here) = n + 1
    BY <1>1, <1>2, <1>3, <1>4, LoopCall, Entries5 DEF Plain
  <2>3. /\ Take(open, Owes(Call("inner"))) = open /\ Owes(Expect(LBrace)) = LBrace
        /\ Take(Take(open, LBrace), Owes(Loop("cases", 0))) = Take(open, LBrace)
        /\ Owes(Expect(RBrace)) = RBrace /\ Take(open, Owes(Build("switch", 2))) = open
    BY <1>5, BracketOwes, ItemOwes DEF Plain
  <2>4. Shut(s, open) = open
    BY <2>3, Matching, Entries5
  <2> QED BY <1>13, <2>1, <2>2, <2>4 DEF Keyword
<1>14. CASE word = "loop"
  <2> DEFINE s == <<Expect(Semicolon), Call("jock"), Build("loop", 1)>>
  <2>1. Form[word] = s
    BY <1>14 DEF Form
  <2>2. IsSeq(s) /\ Height(s, n, here) = n + 1
    BY <1>1, <1>2, <1>3, <1>4, Entries3 DEF Plain
  <2>3. Shut(s, open) = open
    BY <1>5, Entries3 DEF Plain, Kept, Mark
  <2> QED BY <1>14, <2>1, <2>2, <2>3 DEF Keyword
<1>15. CASE word = "defer"
  <2> DEFINE s == <<Expect(Semicolon), Call("jock"), Build("defer", 1)>>
  <2>1. Form[word] = s
    BY <1>15 DEF Form
  <2>2. IsSeq(s) /\ Height(s, n, here) = n + 1
    BY <1>1, <1>2, <1>3, <1>4, Entries3 DEF Plain
  <2>3. Shut(s, open) = open
    BY <1>5, Entries3 DEF Plain, Kept, Mark
  <2> QED BY <1>15, <2>1, <2>2, <2>3 DEF Keyword
<1>16. CASE word = "eval"
  <2> DEFINE s == <<Call("inner"), Call("jock"), Build("eval", 2)>>
  <2>1. Form[word] = s
    BY <1>16 DEF Form
  <2>2. IsSeq(s) /\ Height(s, n, here) = n + 1
    BY <1>1, <1>2, <1>3, <1>4, Entries3 DEF Plain
  <2>3. Shut(s, open) = open
    BY <1>5, Entries3 DEF Plain, Kept, Mark
  <2> QED BY <1>16, <2>1, <2>2, <2>3 DEF Keyword
<1>17. CASE word = "func"
  <2> DEFINE name == <<Call("jype")>>
             arrow == <<Expect("-"), Expect(">"), Call("jype")>>
             rest == <<Expect(Semicolon), Call("jock"), Build("func", 5)>>
             head == name \o Block("((", "jype", ")") \o arrow
             s == head \o Block(LBrace, "body", RBrace) \o rest
  <2>1. Form[word] = s
    BY <1>17 DEF Form
  <2>2. /\ IsSeq(name) /\ Height(name, n, here) = n + 1 /\ Shut(name, open) = open
        /\ name # <<>>
    BY <1>2, <1>5, Entries1 DEF Plain
  <2>3. IsSeq(arrow) /\ Height(arrow, n + 2, Anywhere) = n + 3 /\ Shut(arrow, open) = open
    <3>1. After(Expect("-"), n + 2, Anywhere) = n + 2
          /\ After(Expect(">"), n + 2, Anywhere) = n + 2
      BY <1>1, Expected DEF Mark
    <3> QED BY <1>2, <1>5, <3>1, Entries3 DEF Plain, Mark
  <2>4. IsSeq(rest) /\ Height(rest, n + 4, Anywhere) = n + 1 /\ Shut(rest, open) = open
    <3>1. /\ After(Expect(Semicolon), n + 4, Anywhere) = n + 4
          /\ After(Call("jock"), n + 4, Anywhere) = n + 5
          /\ After(Build("func", 5), n + 5, Anywhere) = n + 1
      BY <1>1, Expected, PlainCall, Built DEF Mark, Plain
    <3> QED BY <1>5, <3>1, Entries3 DEF Plain, Mark
  <2> HIDE DEF name, arrow, rest
  <2>5. IsSeq(head) /\ Height(head, n, here) = n + 3 /\ Shut(head, open) = open
    BY <1>1, <2>2, <2>3, BlockAmid, Matching, Brackets DEF Plain
  <2>6. head # <<>>
    <3>1. Height(<<>>, n, here) = n /\ n # n + 3
      BY Entries0
    <3> QED BY <2>5, <3>1
  <2> HIDE DEF head
  <2>7. IsSeq(s) /\ Height(s, n, here) = n + 1 /\ Shut(s, open) = open
    BY <1>1, <2>4, <2>5, <2>6, BlockAmid, Matching, Brackets DEF Plain
  <2> QED BY <1>17, <2>1, <2>7 DEF Keyword
<1>18. CASE word = "if"
  <2> DEFINE if == <<Call("inner")>>
             rest == <<Call("after-if"), Build("if", 3)>>
             s == if \o Block(LBrace, "jock", RBrace) \o rest
  <2>1. Form[word] = s
    BY <1>18 DEF Form
  <2>2. /\ IsSeq(if) /\ Height(if, n, here) = n + 1 /\ Shut(if, open) = open
        /\ if # <<>>
    BY <1>2, <1>5, Entries1 DEF Plain
  <2>3. IsSeq(rest) /\ Height(rest, n + 2, Anywhere) = n + 1 /\ Shut(rest, open) = open
    BY <1>2, <1>4, <1>5, Entries2 DEF Plain
  <2> HIDE DEF if, rest
  <2>4. Height(if, n, here) \in Nat /\ Height(if, n, here) + 1 = n + 2
    BY <1>1, <2>2
  <2>5. Take(Take(Shut(if, open), LBrace), RBrace) = Shut(if, open)
    BY Matching
  <2>6. IsSeq(s) /\ Height(s, n, here) = n + 1 /\ Shut(s, open) = open
    BY <2>2, <2>3, <2>4, <2>5, BlockAmid, Brackets DEF Plain
  <2> QED BY <1>18, <2>1, <2>6 DEF Keyword
<1>19. CASE word = "print"
  <2> DEFINE rest == <<Expect(Semicolon), Call("jock"), Build("print", 2)>>
             s == Block("(", "inner", ")") \o rest
  <2>1. Form[word] = s
    BY <1>19 DEF Form
  <2>2. IsSeq(rest) /\ Height(rest, n + 1, Anywhere) = n + 1 /\ Shut(rest, open) = open
    BY <1>1, <1>2, <1>3, <1>4, <1>5, Entries3 DEF Plain, Mark
  <2> HIDE DEF rest
  <2>3. IsSeq(s) /\ Height(s, n, here) = n + 1 /\ Shut(s, open) = open
    BY <2>2, BlockThen, BlockShut, Matching, Brackets DEF Plain
  <2> QED BY <1>19, <2>1, <2>3 DEF Keyword
<1>20. word \in {"let", "lambda", "class", "assert", "with", "compose", "match", "switch",
         "loop", "defer", "eval", "func", "if", "print"}
  BY DEF Form
<1> QED BY <1>6, <1>7, <1>8, <1>9, <1>10, <1>11, <1>12, <1>13, <1>14, <1>15, <1>16, <1>17,
      <1>18, <1>19, <1>20

LEMMA MatchKeywordKeeps ==
  ASSUME Inv, MatchKeyword
  PROVE  Inv'
<1> DEFINE then == Form[Ahead(0)]
<1>1. Doing("keyword") /\ Ahead(0) \in DOMAIN Form /\ Step(1, <<>>, then)
  BY DEF MatchKeyword
<1>2. /\ outcome.kind = "parsing" /\ todo # <<>> /\ Len(vals) \in Nat
      /\ Due = Len(vals) + 1 /\ Closed = Open(pos)
  BY <1>1, AtPlain DEF Plain
<1>3. /\ Ahead(0) \in Keyword /\ IsSeq(then) /\ Height(then, Len(vals), HereAfter(1)) = Due
      /\ Shut(then, Open(pos)) = Closed
  BY <1>1, <1>2, Forms
<1>4. pos + 1 <= Len(input) + 1 /\ Open(pos + 1) = Open(pos)
  BY <1>3, NextTokens DEF Unbracketed
<1> HIDE DEF then
<1> QED BY <1>1, <1>2, <1>3, <1>4, TakeKeeps

LEMMA ThisOrCrashKeeps ==
  ASSUME Inv, ThisOrCrash
  PROVE  Inv'
<1>1. /\ Doing("keyword") /\ Ahead(0) \in {"this", "crash"}
      /\ \E value : Step(1, <<value>>, <<>>)
  BY DEF ThisOrCrash, Keyworded
<1>2. /\ outcome.kind = "parsing" /\ todo # <<>> /\ Len(vals) \in Nat
      /\ Due = Len(vals) + 1 /\ Closed = Open(pos)
  BY <1>1, AtPlain DEF Plain
<1>3. pos + 1 <= Len(input) + 1 /\ Open(pos + 1) = Open(pos)
  BY <1>1, NextTokens DEF Unbracketed, Keyword
<1> QED BY <1>1, <1>2, <1>3, Entries0, PushKeeps

LEMMA ImportKeeps ==
  ASSUME Inv, Import
  PROVE  Inv'
<1> DEFINE take == IF Ahead(2) = "as" THEN 4 ELSE 2
           then == <<Expect(Semicolon), Call("jock"), Build("import", 2)>>
<1>1. /\ Doing("keyword") /\ Ahead(0) = "import" /\ Ahead(1) \in Name
      /\ Ahead(2) = "as" => Ahead(3) \in Name
      /\ \E value : Step(take, <<value>>, then)
  BY DEF Import, Keyworded
<1>2. /\ outcome.kind = "parsing" /\ todo # <<>> /\ Len(vals) \in Nat
      /\ Due = Len(vals) + 1 /\ Closed = Open(pos)
  BY <1>1, AtPlain DEF Plain
<1>3. take \in Nat /\ pos + take <= Len(input) + 1 /\ Open(pos + take) = Open(pos)
  <2>1. pos + 2 <= Len(input) + 1 /\ Open(pos + 2) = Open(pos)
    BY <1>1, NextTokens DEF Unbracketed, Keyword, Names
  <2>2. CASE Ahead(2) = "as"
    <3>1. pos + 4 <= Len(input) + 1 /\ Open(pos + 4) = Open(pos)
      BY <1>1, <2>1, <2>2, NextTokens DEF Unbracketed, Keyword, Names
    <3>2. take = 4
      BY <2>2
    <3> HIDE DEF take
    <3> QED BY <3>1, <3>2
  <2>3. CASE Ahead(2) # "as"
    <3>1. take = 2
      BY <2>3
    <3> HIDE DEF take
    <3> QED BY <2>1, <3>1
  <2> QED BY <2>2, <2>3
<1> HIDE DEF take
<1>4. IsSeq(then) /\ Height(then, Len(vals) + 1, HereAfter(take)) = Due
  <2> DEFINE n == Len(vals) + 1
  <2>1. n \in Nat /\ n + 1 \in Nat /\ n + 1 >= 2 /\ n + 1 - 2 + 1 = n
    BY <1>2
  <2> HIDE DEF n
  <2>2. /\ After(Expect(Semicolon), n, HereAfter(take)) = n
        /\ After(Call("jock"), n, Anywhere) = n + 1
        /\ After(Build("import", 2), n + 1, Anywhere) = n
    BY <2>1, PlainCall, Expected, Built DEF Plain, Mark
  <2> QED BY <1>2, <2>2, Entries3 DEF n
<1>5. Shut(then, Open(pos + take)) = Closed
  BY <1>2, <1>3, MarkOwes, CallOwes, ItemOwes, Entries3 DEF Plain, Mark
<1> QED BY <1>1, <1>2, <1>3, <1>4, <1>5, PushKeeps
-----------------------------------------------------------------------------
(* Objects and classes.                                                    *)

LEMMA ObjectKeeps ==
  ASSUME Inv, Object
  PROVE  Inv'
<1> DEFINE take == IF Ahead(1) \in Names THEN 2 ELSE 1
           then == <<Expect(LBrace), Loop("fields", 0)>>
<1>1. Doing("keyword") /\ Ahead(0) = "object" /\ \E value : Step(take, <<value>>, then)
  BY DEF Object, Keyworded
<1>2. /\ outcome.kind = "parsing" /\ todo # <<>> /\ Len(vals) \in Nat
      /\ Due = Len(vals) + 1 /\ Closed = Open(pos)
  BY <1>1, AtPlain DEF Plain
<1>3. take \in Nat /\ pos + take <= Len(input) + 1 /\ Open(pos + take) = Open(pos)
  <2>1. pos + 1 <= Len(input) + 1 /\ Open(pos + 1) = Open(pos)
    BY <1>1, NextTokens DEF Unbracketed, Keyword
  <2>2. CASE Ahead(1) \in Names
    <3>1. pos + 2 <= Len(input) + 1 /\ Open(pos + 2) = Open(pos)
      BY <2>1, <2>2, NextTokens DEF Unbracketed
    <3>2. take = 2
      BY <2>2
    <3> HIDE DEF take
    <3> QED BY <3>1, <3>2
  <2>3. CASE Ahead(1) \notin Names
    <3>1. take = 1
      BY <2>3
    <3> HIDE DEF take
    <3> QED BY <2>1, <3>1
  <2> QED BY <2>2, <2>3
<1> HIDE DEF take
<1>4. IsSeq(then) /\ Height(then, Len(vals) + 1, HereAfter(take)) = Due
  <2> DEFINE n == Len(vals) + 1
  <2>1. n \in Nat /\ n > 0 /\ n - 0 = n
    BY <1>2
  <2> HIDE DEF n
  <2>2. /\ After(Expect(LBrace), n, HereAfter(take)) = n
        /\ After(Loop("fields", 0), n, Anywhere) = n
    BY <2>1, Expected, Brackets, NamedLoopCall
  <2> QED BY <1>2, <2>2, Entries2 DEF n
<1>5. Shut(then, Open(pos + take)) = Closed
  BY <1>2, <1>3, BracketOwes, Matching, Entries2
<1> QED BY <1>1, <1>2, <1>3, <1>4, <1>5, PushKeeps

LEMMA FieldKeeps ==
  ASSUME Inv, Field
  PROVE  Inv'
<1> DEFINE m == Head(todo).n
           then == <<Expect("="), Call("jock"), Build("field", 2), Loop("fields", m + 1)>>
<1>1. Doing("fields") /\ Ahead(0) \in Names /\ Step(1, <<Leaf("name", Ahead(0))>>, then)
  BY DEF Field
<1>2. /\ outcome.kind = "parsing" /\ todo # <<>> /\ Len(vals) \in Nat /\ m \in Nat
      /\ Len(vals) > m /\ Due = Len(vals) - m /\ Closed = Take(Open(pos), RBrace)
  BY <1>1, AtNamedLoop
<1>3. pos + 1 <= Len(input) + 1 /\ Open(pos + 1) = Open(pos)
  BY <1>1, NextTokens DEF Unbracketed
<1> HIDE DEF m
<1>4. IsSeq(then) /\ Height(then, Len(vals) + 1, HereAfter(1)) = Due
  <2> DEFINE n == Len(vals) + 1
  <2>1. /\ n \in Nat /\ n + 1 \in Nat /\ n + 1 >= 2 /\ n + 1 - 2 + 1 = n
        /\ m + 1 \in Nat /\ n > m + 1 /\ n - (m + 1) = Due
    BY <1>2
  <2> HIDE DEF n
  <2>2. After(Expect("="), n, HereAfter(1)) = n /\ After(Call("jock"), n, Anywhere) = n + 1
    BY <2>1, PlainCall, Expected DEF Plain, Mark
  <2>3. /\ After(Build("field", 2), n + 1, Anywhere) = n
        /\ After(Loop("fields", m + 1), n, Anywhere) = Due
    BY <2>1, Built, NamedLoopCall
  <2> QED BY <2>2, <2>3, Entries4 DEF n
<1>5. Shut(then, Open(pos + 1)) = Closed
  BY <1>2, <1>3, MarkOwes, CallOwes, ItemOwes, BracketOwes, Entries4 DEF Plain, Mark
<1> QED BY <1>1, <1>2, <1>3, <1>4, <1>5, PushKeeps

LEMMA LastFieldKeeps ==
  ASSUME Inv, LastField
  PROVE  Inv'
<1> DEFINE m == Head(todo).n
           then == <<Build("object", m + 1)>>
<1>1. Doing("fields") /\ Ahead(0) = RBrace /\ Step(1, <<>>, then)
  BY DEF LastField
<1>2. /\ outcome.kind = "parsing" /\ todo # <<>> /\ Len(vals) \in Nat /\ m \in Nat
      /\ Len(vals) > m /\ Due = Len(vals) - m /\ Closed = Take(Open(pos), RBrace)
  BY <1>1, AtNamedLoop
<1>3. pos + 1 <= Len(input) + 1 /\ Open(pos + 1) = Closed
  BY <1>1, <1>2, NextTokens, Brackets
<1> HIDE DEF m
<1>4. After(Build("object", m + 1), Len(vals), HereAfter(1)) = Due
  BY <1>2, Built
<1>5. /\ IsSeq(then) /\ Height(then, Len(vals), HereAfter(1)) = Due
      /\ Shut(then, Open(pos + 1)) = Closed
  BY <1>3, <1>4, ItemOwes, Entries1
<1> QED BY <1>1, <1>2, <1>3, <1>5, TakeKeeps

LEMMA UnreservedKeeps ==
  ASSUME Inv, Unreserved
  PROVE  Inv'
<1>1. Doing("unreserved") /\ Step(0, <<>>, <<>>)
  BY DEF Unreserved
<1>2. /\ outcome.kind = "parsing" /\ todo # <<>> /\ Len(vals) \in Nat
      /\ Due = Len(vals) /\ Closed = Open(pos)
  BY <1>1, AtKept DEF Kept
<1> QED BY <1>1, <1>2, Entries0, StayKeeps

LEMMA MethodKeeps ==
  ASSUME Inv, Method
  PROVE  Inv'
<1> DEFINE m == Head(todo).n
           first == <<Call("jype"), Expect("(("), Call("jype"), Call("second-jype"),
                      Expect(")"), Expect("-"), Expect(">"), Call("jype")>>
           then == <<Build("method", 4), Loop("methods", m + 1)>>
           all == first \o Block(LBrace, "jock", RBrace) \o then
           n == Len(vals)
<1>1. Doing("methods") /\ Step(0, <<>>, all)
  BY DEF Method
<1>2. /\ outcome.kind = "parsing" /\ todo # <<>> /\ n \in Nat /\ m \in Nat
      /\ n > m /\ Due = n - m /\ Closed = Take(Open(pos), RBrace)
  BY <1>1, AtNamedLoop
<1> HIDE DEF m, n
<1>3. /\ n + 1 \in Nat /\ n + 2 \in Nat /\ n + 2 > 0 /\ n + 3 \in Nat /\ n + 4 \in Nat
      /\ n + 1 + 1 = n + 2 /\ n + 2 + 1 = n + 3 /\ n + 3 + 1 = n + 4 /\ n + 4 >= 4
      /\ n + 4 - 4 + 1 = n + 1 /\ n + 1 > m + 1 /\ m + 1 \in Nat /\ n + 1 - (m + 1) = Due
  BY <1>2
<1>4. IsSeq(first) /\ Height(first, n, Here) = n + 3 /\ first # <<>>
  <2>1. /\ After(Call("jype"), n, Here) = n + 1 /\ After(Call("jype"), n + 1, Anywhere) = n + 2
        /\ After(Call("jype"), n + 2, Anywhere) = n + 3
    BY <1>2, <1>3, PlainCall DEF Plain
  <2>2. After(Call("second-jype"), n + 2, Anywhere) = n + 2
    BY <1>3, KeptCall DEF Kept
  <2>3. /\ After(Expect("(("), n + 1, Anywhere) = n + 1
        /\ After(Expect(")"), n + 2, Anywhere) = n + 2
    BY <1>3, Expected, Brackets
  <2>4. /\ After(Expect("-"), n + 2, Anywhere) = n + 2
        /\ After(Expect(">"), n + 2, Anywhere) = n + 2
    BY <1>3, Expected DEF Mark
  <2>5. first # <<>>
    OBVIOUS
  <2> QED BY <2>1, <2>2, <2>3, <2>4, <2>5, Entries8
<1>5. Shut(first, Open(pos)) = Open(pos)
  <2>1. /\ \A open : Take(open, Owes(Call("jype"))) = open
        /\ \A open : Take(open, Owes(Call("second-jype"))) = open
    BY CallOwes DEF Plain, Kept
  <2>2. /\ Take(Take(Open(pos), Owes(Expect("(("))), Owes(Expect(")"))) = Open(pos)
        /\ Take(Open(pos), Owes(Expect("-"))) = Open(pos)
        /\ Take(Open(pos), Owes(Expect(">"))) = Open(pos)
    BY BracketOwes, Matching, MarkOwes DEF Mark
  <2> QED BY <2>1, <2>2, Entries8
<1>6. IsSeq(then) /\ Height(then, n + 4, Anywhere) = Due
  <2>1. After(Build("method", 4), n + 4, Anywhere) = n + 1
    BY <1>3, Built
  <2>2. After(Loop("methods", m + 1), n + 1, Anywhere) = Due
    <3>1. After(Loop("methods", m + 1), n + 1, Anywhere) = (n + 1) - (m + 1)
      BY <1>3, NamedLoopCall
    <3> QED BY <1>2, <1>3, <3>1
  <2> QED BY <2>1, <2>2, Entries2
<1>7. Shut(then, Open(pos)) = Closed
  BY <1>2, ItemOwes, BracketOwes, Entries2
<1> HIDE DEF first, then
<1>8. Take(Take(Shut(first, Open(pos)), LBrace), RBrace) = Shut(first, Open(pos))
  BY Matching
<1>9. IsSeq(all) /\ Height(all, n, Here) = Due /\ Shut(all, Open(pos)) = Closed
  BY <1>3, <1>4, <1>5, <1>6, <1>7, <1>8, BlockAmid, Brackets DEF Plain
<1> QED BY <1>1, <1>2, <1>9, StayKeeps DEF n

LEMMA LastMethodKeeps ==
  ASSUME Inv, LastMethod
  PROVE  Inv'
<1> DEFINE m == Head(todo).n
           then == <<Build("class", m + 1)>>
<1>1. Doing("methods") /\ Ahead(0) = RBrace /\ Step(1, <<>>, then)
  BY DEF LastMethod
<1>2. /\ outcome.kind = "parsing" /\ todo # <<>> /\ Len(vals) \in Nat /\ m \in Nat
      /\ Len(vals) > m /\ Due = Len(vals) - m /\ Closed = Take(Open(pos), RBrace)
  BY <1>1, AtNamedLoop
<1>3. pos + 1 <= Len(input) + 1 /\ Open(pos + 1) = Closed
  BY <1>1, <1>2, NextTokens, Brackets
<1> HIDE DEF m
<1>4. After(Build("class", m + 1), Len(vals), HereAfter(1)) = Due
  BY <1>2, Built
<1>5. /\ IsSeq(then) /\ Height(then, Len(vals), HereAfter(1)) = Due
      /\ Shut(then, Open(pos + 1)) = Closed
  BY <1>3, <1>4, ItemOwes, Entries1
<1> QED BY <1>1, <1>2, <1>3, <1>5, TakeKeeps
-----------------------------------------------------------------------------
(* Branches.                                                               *)

LEMMA ElseKeeps ==
  ASSUME Inv, Else
  PROVE  Inv'
<1> DEFINE then == <<Build("else", 1)>>
           all == Block(LBrace, "jock", RBrace) \o then
<1>1. Doing("after-if") /\ Ahead(0) = "else" /\ Step(1, <<>>, all)
  BY DEF Else
<1>2. /\ outcome.kind = "parsing" /\ todo # <<>> /\ Len(vals) \in Nat
      /\ Due = Len(vals) + 1 /\ Closed = Open(pos)
  BY <1>1, AtPlain DEF Plain
<1>3. pos + 1 <= Len(input) + 1 /\ Open(pos + 1) = Open(pos)
  BY <1>1, NextTokens DEF Unbracketed, Keyword
<1>4. /\ IsSeq(then) /\ Height(then, Len(vals) + 1, Anywhere) = Due
      /\ Shut(then, Open(pos)) = Closed
  BY <1>2, Built, ItemOwes, Entries1
<1> HIDE DEF then
<1>5. IsSeq(all)
      /\ Height(all, Len(vals), HereAfter(1)) = Height(then, Len(vals) + 1, Anywhere)
  BY <1>2, <1>4, BlockThen, Brackets DEF Plain
<1>6. Shut(all, Open(pos)) = Shut(then, Open(pos))
  BY <1>4, BlockShut, Matching DEF Plain
<1>7. Height(all, Len(vals), HereAfter(1)) = Due /\ Shut(all, Open(pos + 1)) = Closed
  BY <1>3, <1>4, <1>5, <1>6
<1> HIDE DEF all
<1> QED BY <1>1, <1>2, <1>3, <1>5, <1>7, TakeKeeps

LEMMA ElseIfKeeps ==
  ASSUME Inv, ElseIf
  PROVE  Inv'
<1> DEFINE first == <<Call("inner")>>
           then == <<Call("after-if"), Build("else-if", 3)>>
           all == first \o Block(LBrace, "jock", RBrace) \o then
           n == Len(vals)
<1>1. Doing("after-if") /\ Ahead(0) = "else" /\ Ahead(1) = "if" /\ Step(2, <<>>, all)
  BY DEF ElseIf
<1>2. /\ outcome.kind = "parsing" /\ todo # <<>> /\ n \in Nat
      /\ Due = n + 1 /\ Closed = Open(pos)
  BY <1>1, AtPlain DEF Plain
<1>3. pos + 2 <= Len(input) + 1 /\ Open(pos + 2) = Open(pos)
  BY <1>1, NextTokens DEF Unbracketed, Keyword
<1> HIDE DEF n
<1>4. n + 1 \in Nat /\ n + 2 \in Nat /\ n + 1 + 1 = n + 2 /\ n + 2 + 1 = n + 3 /\ n + 3 \in Nat
  BY <1>2
<1>5. IsSeq(first) /\ Height(first, n, HereAfter(2)) = n + 1 /\ first # <<>>
  BY <1>2, PlainCall, Entries1 DEF Plain
<1>6. Shut(first, Open(pos)) = Open(pos)
  BY CallOwes, Entries1 DEF Plain
<1>7. IsSeq(then) /\ Height(then, n + 2, Anywhere) = Due
  <2>1. /\ After(Call("after-if"), n + 2, Anywhere) = n + 3
        /\ After(Build("else-if", 3), n + 3, Anywhere) = n + 1
    BY <1>2, <1>4, PlainCall, Built DEF Plain
  <2> QED BY <1>2, <2>1, Entries2
<1>8. Shut(then, Open(pos)) = Closed
  BY <1>2, CallOwes, ItemOwes, Entries2 DEF Plain
<1> HIDE DEF first, then
<1>9. Take(Take(Shut(first, Open(pos)), LBrace), RBrace) = Shut(first, Open(pos))
  BY Matching
<1>10. IsSeq(all) /\ Height(all, n, HereAfter(2)) = Due /\ Shut(all, Open(pos)) = Closed
  BY <1>4, <1>5, <1>6, <1>7, <1>8, <1>9, BlockAmid, Brackets DEF Plain
<1>11. Shut(all, Open(pos + 2)) = Closed
  BY <1>3, <1>10
<1> HIDE DEF all
<1> QED BY <1>1, <1>2, <1>3, <1>10, <1>11, TakeKeeps DEF n

LEMMA CaseKeeps ==
  ASSUME Inv, Case
  PROVE  Inv'
<1> DEFINE m == Head(todo).n
           n == Len(vals)
           then == <<Call("jock"), Expect("-"), Expect(">"), Call("jock"), Expect(Semicolon),
                     Build("case", 2), Loop("cases", m + 1)>>
<1>1. Doing("cases") /\ Step(0, <<>>, then)
  BY DEF Case
<1>2. /\ outcome.kind = "parsing" /\ todo # <<>> /\ n \in Nat /\ m \in Nat
      /\ n >= m /\ Due = n - m + 1 /\ Closed = Open(pos)
  BY <1>1, AtLoop DEF Closer
<1> HIDE DEF m, n
<1>3. /\ n + 1 \in Nat /\ n + 2 \in Nat /\ n + 1 + 1 = n + 2 /\ n + 2 >= 2
      /\ n + 2 - 2 + 1 = n + 1 /\ n + 1 >= m + 1 /\ m + 1 \in Nat /\ n + 1 - (m + 1) + 1 = Due
  BY <1>2
<1>4. IsSeq(then) /\ Height(then, n, Here) = Due
  <2>1. After(Call("jock"), n, Here) = n + 1 /\ After(Call("jock"), n + 1, Anywhere) = n + 2
    BY <1>2, <1>3, PlainCall DEF Plain
  <2>2. /\ After(Expect("-"), n + 1, Anywhere) = n + 1
        /\ After(Expect(">"), n + 1, Anywhere) = n + 1
        /\ After(Expect(Semicolon), n + 2, Anywhere) = n + 2
    BY <1>3, Expected DEF Mark
  <2>3. After(Build("case", 2), n + 2, Anywhere) = n + 1
    BY <1>3, Built
  <2>4. After(Loop("cases", m + 1), n + 1, Anywhere) = Due
    <3>1. After(Loop("cases", m + 1), n + 1, Anywhere) = (n + 1) - (m + 1) + 1
      BY <1>3, LoopCall
    <3> QED BY <1>2, <1>3, <3>1
  <2> QED BY <2>1, <2>2, <2>3, <2>4, Entries7
<1>5. Shut(then, Open(pos)) = Closed
  BY <1>2, MarkOwes, CallOwes, ItemOwes, Entries7 DEF Plain, Mark
<1> QED BY <1>1, <1>2, <1>4, <1>5, StayKeeps DEF n

LEMMA DefaultKeeps ==
  ASSUME Inv, Default
  PROVE  Inv'
<1> DEFINE m == Head(todo).n
           n == Len(vals)
           then == <<Expect("-"), Expect(">"), Call("jock"), Expect(Semicolon),
                     Call("last-case"), Build("default", 1), Build("cases", m + 1)>>
<1>1. Doing("cases") /\ Ahead(0) = Underscore /\ Step(1, <<>>, then)
  BY DEF Default
<1>2. /\ outcome.kind = "parsing" /\ todo # <<>> /\ n \in Nat /\ m \in Nat
      /\ n >= m /\ Due = n - m + 1 /\ Closed = Open(pos)
  BY <1>1, AtLoop DEF Closer
<1>3. pos + 1 <= Len(input) + 1 /\ Open(pos + 1) = Open(pos)
  BY <1>1, NextTokens DEF Unbracketed, Mark
<1> HIDE DEF m, n
<1>4. /\ n + 1 \in Nat /\ n + 1 >= 1 /\ n + 1 - 1 + 1 = n + 1
      /\ n + 1 >= m + 1 /\ m + 1 \in Nat /\ n + 1 - (m + 1) + 1 = Due
  BY <1>2
<1>5. IsSeq(then) /\ Height(then, n, HereAfter(1)) = Due
  <2>1. /\ After(Expect("-"), n, HereAfter(1)) = n /\ After(Expect(">"), n, Anywhere) = n
        /\ After(Expect(Semicolon), n + 1, Anywhere) = n + 1
    BY <1>2, <1>4, Expected DEF Mark
  <2>2. After(Call("jock"), n, Anywhere) = n + 1
    BY <1>2, PlainCall DEF Plain
  <2>3. After(Call("last-case"), n + 1, Anywhere) = n + 1
    BY <1>4, OtherCall
  <2>4. After(Build("default", 1), n + 1, Anywhere) = n + 1
    BY <1>4, Built
  <2>5. After(Build("cases", m + 1), n + 1, Anywhere) = Due
    <3>1. After(Build("cases", m + 1), n + 1, Anywhere) = (n + 1) - (m + 1) + 1
      BY <1>4, Built
    <3> QED BY <1>2, <1>4, <3>1
  <2> QED BY <2>1, <2>2, <2>3, <2>4, <2>5, Entries7
<1>6. Shut(then, Open(pos + 1)) = Closed
  BY <1>2, <1>3, MarkOwes, CallOwes, ItemOwes, Entries7 DEF Plain, Mark
<1> QED BY <1>1, <1>2, <1>3, <1>5, <1>6, TakeKeeps DEF n

LEMMA LastCaseKeeps ==
  ASSUME Inv, LastCase
  PROVE  Inv'
<1>1. Doing("last-case") /\ Step(0, <<>>, <<>>)
  BY DEF LastCase
<1>2. /\ outcome.kind = "parsing" /\ todo # <<>> /\ Len(vals) \in Nat
      /\ Due = Len(vals) /\ Closed = Open(pos)
  BY <1>1, AtOther
<1> QED BY <1>1, <1>2, Entries0, StayKeeps

LEMMA NoMoreCasesKeeps ==
  ASSUME Inv, NoMoreCases
  PROVE  Inv'
<1> DEFINE m == Head(todo).n
           then == <<Build("cases", m)>>
<1>1. Doing("cases") /\ Step(0, <<>>, then)
  BY DEF NoMoreCases
<1>2. /\ outcome.kind = "parsing" /\ todo # <<>> /\ Len(vals) \in Nat /\ m \in Nat
      /\ Len(vals) >= m /\ Due = Len(vals) - m + 1 /\ Closed = Open(pos)
  BY <1>1, AtLoop DEF Closer
<1> HIDE DEF m
<1>3. After(Build("cases", m), Len(vals), Here) = Due
  BY <1>2, Built
<1>4. IsSeq(then) /\ Height(then, Len(vals), Here) = Due /\ Shut(then, Open(pos)) = Closed
  BY <1>2, <1>3, ItemOwes, Entries1
<1> QED BY <1>1, <1>2, <1>4, StayKeeps
-----------------------------------------------------------------------------
(* Returns and errors.                                                     *)

\* The last of some values are replaced by one.
LEMMA Replaced ==
  ASSUME NEW s, IsSeq(s), NEW n \in Nat, n <= Len(s), NEW value
  PROVE  /\ IsSeq(Append(SubSeq(s, 1, Len(s) - n), value))
         /\ Len(Append(SubSeq(s, 1, Len(s) - n), value)) = Len(s) - n + 1
<1> DEFINE S == Range(s) \cup {value}
           rest == SubSeq(s, 1, Len(s) - n)
<1>1. s \in Seq(S) /\ Len(s) \in Nat
  BY SeqMonotonic, LenProperties DEF IsSeq
<1>2. value \in S
  OBVIOUS
<1> HIDE DEF S
<1>3. rest \in Seq(S) /\ Len(rest) = Len(s) - n
  <2>1. /\ 1 \in Int /\ Len(s) - n \in Int /\ Len(s) - n <= Len(s) /\ Len(s) - n >= 0
        /\ \A i \in 1..(Len(s) - n) : s[i] \in S
    BY <1>1, ElementOfSeq
  <2> QED BY <1>1, <2>1, SubSeqProperties
<1> HIDE DEF rest
<1>4. Append(rest, value) \in Seq(S) /\ Len(Append(rest, value)) = Len(s) - n + 1
  BY <1>1, <1>2, <1>3, AppendProperties
<1>5. IsSeq(Append(rest, value))
  BY <1>4, SeqOfRange DEF IsSeq
<1> QED BY <1>4, <1>5 DEF rest

LEMMA AttachKeeps ==
  ASSUME Inv, Attach
  PROVE  Inv'
<1>1. /\ Doing("attach") /\ todo' = Tail(todo) /\ UNCHANGED <<input, pos, outcome>>
      /\ \E value : vals' = Append(SubSeq(vals, 1, Len(vals) - 2), value)
  BY DEF Attach
<1>2. /\ outcome.kind = "parsing" /\ todo # <<>> /\ Len(vals) \in Nat /\ Len(vals) >= 2
      /\ Due = Len(vals) - 1 /\ Closed = Open(pos)
  BY <1>1, AtOther
<1>3. IsSeq(vals)
  BY DEF Inv
<1>4. IsSeq(vals') /\ Len(vals') = Due
  BY <1>1, <1>2, <1>3, Replaced
<1> QED BY <1>1, <1>2, <1>4, MakeKeeps

LEMMA ReturnKeeps ==
  ASSUME Inv, Return
  PROVE  Inv'
<1> DEFINE item == Head(todo)
<1>1. /\ outcome.kind = "parsing" /\ todo # <<>> /\ item.do \in {"build", "rename"}
      /\ todo' = Tail(todo) /\ UNCHANGED <<input, pos, outcome>>
      /\ \E value : vals' = Append(SubSeq(vals, 1, Len(vals) - item.n), value)
  BY DEF Return, Pending
<1>2. /\ Len(vals) \in Nat /\ Fits(item, Here) /\ Len(vals) >= Needs(item)
      /\ Due = Len(vals) - Needs(item) + Leaves(item)
  BY <1>1, HeadDue
<1>3. Closed = Take(Open(pos), Owes(item))
  BY DEF Closed
<1> HIDE DEF item
<1>4. item.n \in Nat /\ Needs(item) = item.n /\ Leaves(item) = 1 /\ Owes(item) = "none"
  BY <1>1, <1>2 DEF Fits, Needs, Leaves, Owes
<1>5. Closed = Open(pos)
  BY <1>3, <1>4, NoBracket, NoneIsNoBracket
<1>6. IsSeq(vals)
  BY DEF Inv
<1>7. IsSeq(vals') /\ Len(vals') = Due
  BY <1>1, <1>2, <1>4, <1>6, Replaced
<1> QED BY <1>1, <1>5, <1>7, MakeKeeps DEF item

LEMMA ExpectPunctuatorKeeps ==
  ASSUME Inv, ExpectPunctuator
  PROVE  Inv'
<1> DEFINE item == Head(todo)
<1>1. /\ outcome.kind = "parsing" /\ todo # <<>> /\ item.do = "expect" /\ Ahead(0) = item.what
      /\ Step(1, <<>>, <<>>)
  BY DEF ExpectPunctuator, Pending
<1>2. /\ Len(vals) \in Nat /\ Fits(item, Here)
      /\ Due = Len(vals) - Needs(item) + Leaves(item)
  BY <1>1, HeadDue
<1>3. Closed = Take(Open(pos), Owes(item))
  BY DEF Closed
<1> HIDE DEF item
<1>4. item.what # End /\ Needs(item) = 0 /\ Leaves(item) = 0 /\ Owes(item) = item.what
  BY <1>1, <1>2 DEF Fits, Needs, Leaves, Owes
<1>5. pos + 1 <= Len(input) + 1 /\ Open(pos + 1) = Closed
  <2>1. pos + 0 = pos /\ pos + 0 + 1 = pos + 1
    BY HereIsNow
  <2> QED BY <1>1, <1>3, <1>4, <2>1, TokenAhead
<1> QED BY <1>1, <1>2, <1>4, <1>5, Entries0, TakeKeeps

\* The end, with or without an error, leaves what the calls owe.
LEMMA EndKeeps ==
  ASSUME Inv, UNCHANGED <<input, pos, todo, vals>>,
         outcome'.kind \in Kinds, outcome'.at \in 0..(Len(input) + 1),
         outcome'.kind = "parsed" => todo = <<>> /\ pos = Len(input) + 1
  PROVE  Inv'
<1>1. /\ Here' = Here /\ Swallowed' = Swallowed /\ Open(pos)' = Open(pos)
  BY DEF Here, Token, Swallowed, Open
<1> QED BY <1>1 DEF Inv

LEMMA StopKeeps ==
  ASSUME Inv, NEW k \in 0..3, Stop(k), pos + k <= Len(input) + 1
  PROVE  Inv'
<1>1. UNCHANGED <<input, pos, todo, vals>> /\ outcome'.kind \in {"end", "unexpected"}
      /\ outcome'.at = pos + k
  BY DEF Stop
<1>2. pos \in Int /\ pos >= 1 /\ Len(input) \in Nat
  BY DEF Inv
<1>3. outcome'.at \in 0..(Len(input) + 1)
  BY <1>1, <1>2
<1> QED BY <1>1, <1>3, EndKeeps DEF Kinds

LEMMA UnexpectedKeeps ==
  ASSUME Inv, Unexpected
  PROVE  Inv'
<1>1. pos + 0 <= Len(input) + 1
  BY HereIsNow
<1>2. CASE Stop(0)
  BY <1>1, <1>2, StopKeeps
<1>3. CASE Stop(1) /\ Ahead(0) \in {".", "import", "else"}
  <2>1. pos + 1 <= Len(input) + 1
    BY <1>3, NextTokens DEF Unbracketed, Mark, Keyword
  <2> QED BY <1>3, <2>1, StopKeeps
<1>4. CASE Stop(3) /\ Ahead(2) = "as"
  <2>1. pos + 3 <= Len(input) + 1
    BY <1>4, NextTokens DEF Unbracketed, Keyword
  <2> QED BY <1>4, <2>1, StopKeeps
<1> QED BY <1>2, <1>3, <1>4 DEF Unexpected, Keyworded

LEMMA ReservedKeeps ==
  ASSUME Inv, Reserved
  PROVE  Inv'
<1>1. UNCHANGED <<input, pos, todo, vals>> /\ outcome'.kind = "reserved" /\ outcome'.at = pos
  BY DEF Reserved
<1>2. outcome'.at \in 0..(Len(input) + 1)
  BY <1>1 DEF Inv
<1> QED BY <1>1, <1>2, EndKeeps DEF Kinds

LEMMA ParseKeeps ==
  ASSUME Inv, Parse
  PROVE  Inv'
<1>1. /\ UNCHANGED <<input, pos, todo, vals>> /\ outcome'.kind = "parsed" /\ outcome'.at = 0
      /\ todo = <<>> /\ Ahead(0) = End
  BY DEF Parse, AtEnd
<1>2. /\ input \in Seq(Tokens) /\ pos \in 1..(Len(input) + 1) /\ Len(input) \in Nat
      /\ DOMAIN input = 1..Len(input) /\ pos + 0 = pos
  BY LenProperties DEF Inv
<1>3. pos = Len(input) + 1
  <2> SUFFICES ASSUME pos \in 1..Len(input) PROVE FALSE
    BY <1>2
  <2>1. Ahead(0) = input[pos] /\ input[pos] \in Tokens
    BY <1>2, ElementOfSeq DEF Ahead, Token
  <2> QED BY <1>1, <2>1, TokenSets
<1>4. outcome'.at \in 0..(Len(input) + 1)
  BY <1>1, <1>2
<1> QED BY <1>1, <1>3, <1>4, EndKeeps DEF Kinds
-----------------------------------------------------------------------------
(* The invariant, and what follows from it.                                *)

LEMMA InitInv == Init => Inv
<1> SUFFICES ASSUME Init PROVE Inv
  OBVIOUS
<1> DEFINE item == Call("jock")
<1>1. /\ input \in Inputs /\ pos = 1 /\ vals = <<>> /\ todo = <<item>>
      /\ outcome.kind = "parsing" /\ outcome.at = 0
  BY DEF Init
<1>2. input \in Seq(Tokens) /\ Len(input) \in Nat
  BY <1>1, TokensAssumption, LenProperties DEF Tokens
<1>3. Len(vals) = 0 /\ IsSeq(vals)
  BY <1>1, HereIsNow, Entries0
<1>4. After(item, 0, Here) = 1 /\ \A open : Take(open, Owes(item)) = open
  BY PlainCall, CallOwes DEF Plain
<1> HIDE DEF item
<1>5. IsSeq(todo) /\ Height(todo, Len(vals), Here) = 1
  BY <1>1, <1>3, <1>4, Entries1
<1>6. Shut(todo, Open(pos)) = <<>>
  <2>1. Open(pos) = <<>>
    BY <1>1, OpenedUnfolds DEF Open
  <2> QED BY <1>1, <1>4, <2>1, Entries1
<1> QED BY <1>1, <1>2, <1>3, <1>5, <1>6 DEF Inv, Kinds

LEMMA ExpressionKeeps ==
  ASSUME Inv, Expression
  PROVE  Inv'
BY MatchJockKeeps, MatchInnerJockKeeps, MatchJockBodyKeeps, InfixKeeps, NoInfixKeeps,
   MatchLiteralKeeps, MatchAxisKeeps, ElementKeeps, LastElementKeeps, MatchStartNameKeeps,
   WingKeeps, LastWingKeeps, EditKeeps, NameCallKeeps, PlainNameKeeps, MatchCallArgKeeps,
   UnaryKeeps, AgainKeeps, AxisLimbKeeps, AxisCallKeeps, SetOrListKeeps, ParenthesisKeeps,
   MatchPairInnerJockKeeps, LambdaCallKeeps, MatchLambdaKeeps, NoParameterKeeps,
   ParameterKeeps, ResultKeeps DEF Expression

LEMMA TypingKeeps ==
  ASSUME Inv, Typing
  PROVE  Inv'
BY QualifiedJypeKeeps, CellJypeKeeps, SecondJypeKeeps, TypeJypeKeeps, LeafJypeKeeps,
   MatchJypeLeafKeeps, AxisJypeKeeps, PlainMetatypeKeeps, MetatypeKeeps DEF Typing

LEMMA StatementKeeps ==
  ASSUME Inv, Statement
  PROVE  Inv'
BY MatchKeywordKeeps, ThisOrCrashKeeps, ImportKeeps, ObjectKeeps, FieldKeeps, LastFieldKeeps,
   UnreservedKeeps, MethodKeeps, LastMethodKeeps, AttachKeeps, ElseKeeps, ElseIfKeeps,
   CaseKeeps, DefaultKeeps, LastCaseKeeps, NoMoreCasesKeeps DEF Statement

LEMMA NextInv ==
  ASSUME Inv, [Next]_vars
  PROVE  Inv'
<1>1. CASE Next
  BY <1>1, ExpressionKeeps, TypingKeeps, StatementKeeps, ExpectPunctuatorKeeps, ReturnKeeps,
     UnexpectedKeeps, ReservedKeeps, ParseKeeps DEF Next
<1>2. CASE UNCHANGED vars
  <2>1. UNCHANGED <<input, pos, todo, vals>> /\ outcome' = outcome
    BY <1>2 DEF vars
  <2>2. /\ outcome.kind \in Kinds /\ outcome.at \in 0..(Len(input) + 1)
        /\ outcome.kind = "parsed" => todo = <<>> /\ pos = Len(input) + 1
    BY DEF Inv
  <2> QED BY <2>1, <2>2, EndKeeps
<1> QED BY <1>1, <1>2

LEMMA ParserInv == Spec => []Inv
BY InitInv, NextInv, PTL DEF Spec

\* No entry is met before its values are there.
LEMMA ValuesAreHeights ==
  ASSUME Inv
  PROVE  \A k \in 0..Len(todo) :
           /\ Values[k] = Heights(todo, Len(vals), Here)[k] /\ Values[k] \in Nat
           /\ k # 0 => Values[k - 1] >= Needs(todo[k]) /\ Fits(todo[k], Place(k, Here))
<1> DEFINE h == Heights(todo, Len(vals), Here)
           m == Len(todo)
           Same(k) == h[k] \in Nat /\ Values[k] = h[k]
           Bad == {k \in 0..m : ~Same(k)}
<1>1. m \in Nat /\ Len(vals) \in Nat
  BY SeqFacts DEF Inv
<1>2. h[m] = 1
  BY DEF Inv, Height
<1>3. \A k \in 0..m : h[k] # -1
  <2> SUFFICES ASSUME NEW k \in 0..m, h[k] = -1 PROVE FALSE
    OBVIOUS
  <2>1. k \in Nat /\ m >= k
    BY <1>1
  <2>2. h[m] = -1
    BY <1>1, <2>1, HeightsSink
  <2> QED BY <1>2, <2>2
<1>4. h[0] = Len(vals)
      /\ \A k \in Nat : k # 0 => h[k] = After(todo[k], h[k - 1], Place(k, Here))
  BY HeightsUnfold
<1>5. /\ Values[0] = Len(vals)
      /\ \A k \in Nat : k # 0 => Values[k] = Values[k - 1] - Needs(todo[k]) + Leaves(todo[k])
  BY ValuesUnfold
<1> HIDE DEF h, m
<1>6. ASSUME NEW k \in 0..m, k # 0, Same(k - 1)
      PROVE  Same(k) /\ Values[k - 1] >= Needs(todo[k]) /\ Fits(todo[k], Place(k, Here))
  <2>1. k \in Nat /\ h[k] # -1
    BY <1>1, <1>3
  <2> DEFINE before == h[k - 1]
  <2>2. After(todo[k], before, Place(k, Here)) # -1 /\ before \in Int
    BY <1>4, <1>6, <2>1
  <2>3. h[k] = After(todo[k], before, Place(k, Here))
    BY <1>4, <1>6, <2>1
  <2>4. Values[k] = Values[k - 1] - Needs(todo[k]) + Leaves(todo[k])
    BY <1>5, <1>6, <2>1
  <2>5. Values[k - 1] = before
    BY <1>6
  <2> HIDE DEF before
  <2> QED BY <2>2, <2>3, <2>4, <2>5, AfterFacts
<1>7. Bad = {}
  <2> SUFFICES ASSUME Bad # {} PROVE FALSE
    OBVIOUS
  <2>1. Bad \in SUBSET Nat
    BY <1>1
  <2>2. PICK k \in Bad : \A j \in Bad : k <= j
    BY <2>1, LeastNat
  <2>3. k \in 0..m /\ ~Same(k)
    BY <2>2
  <2>4. k # 0
    BY <1>1, <1>4, <1>5, <2>3
  <2>5. k - 1 \in 0..m /\ ~(k <= k - 1)
    BY <1>1, <2>3, <2>4
  <2>6. Same(k - 1)
    BY <2>2, <2>5
  <2> QED BY <1>6, <2>3, <2>4, <2>6
<1>8. ASSUME NEW k \in 0..m, k # 0
      PROVE  Values[k - 1] >= Needs(todo[k]) /\ Fits(todo[k], Place(k, Here))
  <2>1. k - 1 \in 0..m
    BY <1>1, <1>8
  <2>2. Same(k - 1)
    BY <1>7, <2>1
  <2> QED BY <1>6, <1>8, <2>2
<1>9. \A k \in 0..m : Same(k)
  BY <1>7
<1> QED BY <1>8, <1>9 DEF h, m

LEMMA InvTypes ==
  ASSUME Inv
  PROVE  TypeOK
<1>1. Len(todo) \in Nat /\ DOMAIN todo = 1..Len(todo)
  BY SeqFacts DEF Inv
<1>2. ASSUME NEW k \in DOMAIN todo
      PROVE  /\ todo[k].do \in {"call", "expect", "build", "rename"}
             /\ Values[k - 1] >= Needs(todo[k])
  <2>1. k \in 0..Len(todo) /\ k # 0
    BY <1>1, <1>2
  <2>2. Values[k - 1] >= Needs(todo[k]) /\ Fits(todo[k], Place(k, Here))
    BY <2>1, ValuesAreHeights
  <2> QED BY <2>2 DEF Fits
<1>3. Values[Len(todo)] = 1
  <2>1. Len(todo) \in 0..Len(todo)
    BY <1>1
  <2>2. Values[Len(todo)] = Heights(todo, Len(vals), Here)[Len(todo)]
    BY <2>1, ValuesAreHeights
  <2> QED BY <2>2 DEF Inv, Height
<1> QED BY <1>2, <1>3 DEF TypeOK, Inv

LEMMA InvNested ==
  ASSUME Inv
  PROVE  Nested
BY DEF Inv, Nested, Shut, Owed, Open

\* For all tokens, every function under way finds the values of those it calls, and
\* the outermost leaves one: the code has them in local variables, and a function
\* that forgot one, or that returned after a part of what it read, would be met here
\* with too few or too many.
THEOREM ParserTypes == Spec => []TypeOK
BY ParserInv, InvTypes, PTL

\* For all tokens, what is read and the brackets that the calls under way will take
\* are balanced, but for a "(" that is taken for that of a call: no function
\* consumes the bracket of its caller, or returns before its own.
THEOREM ParserNested == Spec => []Nested
BY ParserInv, InvNested, PTL

-----------------------------------------------------------------------------
(* Progress.                                                               *)

LEMMA RankFacts ==
  ASSUME NEW item
  PROVE  Rank(item) \in Nat /\ Rank(item) > 0
BY DEF Rank

\* The ranks of a first entry and the others.
LEMMA RanksFirst ==
  ASSUME NEW s, IsSeq(s)
  PROVE  /\ Ranks(s) \in Nat
         /\ s # <<>> =>
              Ranks(s) = Rank(Head(s)) + (IF Tokenless(Head(s)) THEN Ranks(Tail(s)) ELSE 0)
<1> DEFINE m == Len(s)
<1>1. PICK f : Lasts(s, f) /\ Ranks(s) = f[m]
  BY RanksUnfold
<1>2. m \in Nat
  BY SeqFacts
<1>3. /\ f[0] = 0
      /\ \A k \in Nat : k # 0 =>
           f[k] = Rank(s[m + 1 - k]) + (IF Tokenless(s[m + 1 - k]) THEN f[k - 1] ELSE 0)
  BY <1>1 DEF Lasts
<1> HIDE DEF m
<1>4. \A k \in Nat : f[k] \in Nat
  <2> DEFINE Bad == {k \in Nat : f[k] \notin Nat}
  <2> SUFFICES ASSUME Bad # {} PROVE FALSE
    OBVIOUS
  <2>1. PICK k \in Bad : \A j \in Bad : k <= j
    BY LeastNat
  <2>2. k \in Nat /\ f[k] \notin Nat /\ k # 0
    BY <1>3, <2>1
  <2>3. k - 1 \in Nat /\ f[k - 1] \in Nat
    BY <2>1, <2>2
  <2> QED BY <1>3, <2>2, <2>3, RankFacts
<1>5. CASE s # <<>>
  <2> DEFINE t == Tail(s)
  <2>1. /\ m > 0 /\ IsSeq(t) /\ Len(t) = m - 1 /\ Head(s) = s[1]
        /\ \A k \in 1..(m - 1) : t[k] = s[k + 1]
    <3>1. s \in Seq(Range(s))
      BY DEF IsSeq
    <3> QED BY <1>5, <3>1, SeqFacts, HeadTailProperties DEF m
  <2>2. PICK g : Lasts(t, g) /\ Ranks(t) = g[Len(t)]
    BY RanksUnfold
  <2>3. /\ g[0] = 0
        /\ \A k \in Nat : k # 0 =>
             g[k] = Rank(t[Len(t) + 1 - k]) + (IF Tokenless(t[Len(t) + 1 - k]) THEN g[k - 1] ELSE 0)
    BY <2>2 DEF Lasts
  <2> HIDE DEF t
  <2>4. \A k \in 0..(m - 1) : f[k] = g[k]
    <3> DEFINE Bad == {k \in 0..(m - 1) : f[k] # g[k]}
    <3> SUFFICES ASSUME Bad # {} PROVE FALSE
      OBVIOUS
    <3>1. Bad \in SUBSET Nat
      BY <1>2
    <3>2. PICK k \in Bad : \A j \in Bad : k <= j
      BY <3>1, LeastNat
    <3>3. k \in 0..(m - 1) /\ k \in Nat /\ f[k] # g[k] /\ k # 0
      BY <1>2, <1>3, <2>3, <3>2
    <3>4. k - 1 \in 0..(m - 1) /\ ~(k <= k - 1)
      BY <1>2, <3>3
    <3>5. f[k - 1] = g[k - 1]
      BY <3>2, <3>4
    <3>6. /\ Len(t) + 1 - k \in 1..(m - 1) /\ Len(t) + 1 - k + 1 = m + 1 - k
      BY <1>2, <2>1, <3>3
    <3>7. t[Len(t) + 1 - k] = s[m + 1 - k]
      BY <2>1, <3>6
    <3> QED BY <1>3, <2>3, <3>3, <3>5, <3>7
  <2>5. m - 1 \in 0..(m - 1) /\ m # 0 /\ m + 1 - m = 1
    BY <1>2, <2>1
  <2>6. f[m - 1] = Ranks(t)
    BY <2>1, <2>2, <2>4, <2>5
  <2>7. f[m] = Rank(s[1]) + (IF Tokenless(s[1]) THEN f[m - 1] ELSE 0)
    BY <1>2, <1>3, <2>5
  <2> QED BY <1>1, <1>2, <1>4, <2>1, <2>6, <2>7 DEF t
<1> QED BY <1>1, <1>2, <1>4, <1>5

\* Some entries before others.
LEMMA Before ==
  ASSUME NEW then, NEW rest, IsSeq(then), IsSeq(rest)
  PROVE  LET s == then \o rest IN
         /\ IsSeq(s)
         /\ then = <<>> => s = rest
         /\ then # <<>> => s # <<>> /\ Head(s) = then[1] /\ IsSeq(Tail(s))
         /\ Len(then) = 1 => Tail(s) = rest
         /\ Len(then) >= 2 => /\ Tail(s) # <<>> /\ Head(Tail(s)) = then[2]
                              /\ IsSeq(Tail(Tail(s)))
         /\ Len(then) = 2 => Tail(Tail(s)) = rest
<1> DEFINE s == then \o rest
           S == Range(s) \cup Range(rest)
<1>1. /\ IsSeq(s) /\ Len(s) = Len(then) + Len(rest)
      /\ \A k \in 1..Len(then) : s[k] = then[k]
      /\ \A k \in 1..Len(rest) : s[Len(then) + k] = rest[k]
      /\ <<>> \o rest = rest
  BY ConcatFacts
<1>2. Len(then) \in Nat /\ Len(rest) \in Nat /\ (then # <<>> => Len(then) > 0)
  BY SeqFacts
<1>3. s \in Seq(S) /\ rest \in Seq(S)
  BY <1>1, SeqMonotonic DEF IsSeq
<1> HIDE DEF s, S
<1>4. then # <<>> => s # <<>> /\ Head(s) = then[1] /\ IsSeq(Tail(s))
  <2>1. Len(<<>>) = 0
    OBVIOUS
  <2>2. then # <<>> => s # <<>> /\ 1 \in 1..Len(then)
    BY <1>1, <1>2, <2>1
  <2> QED BY <1>1, <2>2, SeqFacts
<1>5. s # <<>> => /\ Tail(s) \in Seq(S) /\ Len(Tail(s)) = Len(s) - 1
                  /\ \A k \in 1..(Len(s) - 1) : Tail(s)[k] = s[k + 1]
  BY <1>3, HeadTailProperties
<1>6. CASE Len(then) = 1
  <2>1. then # <<>>
    BY <1>6
  <2>2. /\ Tail(s) \in Seq(S) /\ Len(Tail(s)) = Len(rest)
    BY <1>1, <1>2, <1>4, <1>5, <1>6, <2>1
  <2>3. \A k \in 1..Len(rest) : Tail(s)[k] = rest[k]
    <3> TAKE k \in 1..Len(rest)
    <3>1. k \in 1..(Len(s) - 1) /\ Len(then) + k = k + 1
      BY <1>1, <1>2, <1>6
    <3> QED BY <1>1, <1>4, <1>5, <2>1, <3>1
  <2>4. Tail(s) = rest
    BY <1>3, <2>2, <2>3, SeqEqual
  <2> QED BY <1>1, <1>4, <1>6, <2>4 DEF s
<1>7. CASE Len(then) >= 2
  <2> DEFINE t == Tail(s)
  <2>1. then # <<>> /\ s # <<>>
    <3>1. Len(<<>>) = 0
      OBVIOUS
    <3> QED BY <1>4, <1>7, <3>1
  <2>2. /\ t \in Seq(S) /\ IsSeq(t) /\ Len(t) = Len(s) - 1
        /\ \A k \in 1..(Len(s) - 1) : t[k] = s[k + 1]
    BY <1>4, <1>5, <2>1
  <2> HIDE DEF t
  <2>3. t # <<>> /\ Head(t) = then[2] /\ IsSeq(Tail(t))
    <3>1. Len(<<>>) = 0
      OBVIOUS
    <3>2. t # <<>> /\ 1 \in 1..(Len(s) - 1) /\ 2 \in 1..Len(then) /\ 1 + 1 = 2
      BY <1>1, <1>2, <1>7, <2>2, <3>1
    <3>3. t[1] = s[2] /\ s[2] = then[2]
      BY <1>1, <2>2, <3>2
    <3> QED BY <2>2, <3>2, <3>3, SeqFacts
  <2>4. Len(then) = 2 => Tail(t) = rest
    <3> SUFFICES ASSUME Len(then) = 2 PROVE Tail(t) = rest
      OBVIOUS
    <3>1. /\ Tail(t) \in Seq(S) /\ Len(Tail(t)) = Len(t) - 1
          /\ \A k \in 1..(Len(t) - 1) : Tail(t)[k] = t[k + 1]
      BY <2>2, <2>3, HeadTailProperties
    <3>2. Len(Tail(t)) = Len(rest)
      BY <1>1, <1>2, <2>2, <3>1
    <3>3. \A k \in 1..Len(rest) : Tail(t)[k] = rest[k]
      <4> TAKE k \in 1..Len(rest)
      <4>1. /\ k \in 1..(Len(t) - 1) /\ k + 1 \in 1..(Len(s) - 1) /\ Len(then) + k = (k + 1) + 1
        BY <1>1, <1>2, <2>2
      <4>2. Tail(t)[k] = t[k + 1] /\ t[k + 1] = s[(k + 1) + 1]
        BY <2>2, <3>1, <4>1
      <4> QED BY <1>1, <4>1, <4>2
    <3> QED BY <1>3, <3>1, <3>2, <3>3, SeqEqual
  <2>5. ~(then = <<>>) /\ ~(Len(then) = 1)
    <3>1. ~(Len(then) = 1)
      BY <1>2, <1>7
    <3> QED BY <2>1, <3>1
  <2>6. /\ then # <<>> => s # <<>> /\ Head(s) = then[1] /\ IsSeq(Tail(s))
        /\ Len(then) >= 2 => Tail(s) # <<>> /\ Head(Tail(s)) = then[2] /\ IsSeq(Tail(Tail(s)))
        /\ Len(then) = 2 => Tail(Tail(s)) = rest
    <3>1. Tail(s) # <<>> /\ Head(Tail(s)) = then[2] /\ IsSeq(Tail(Tail(s)))
      BY <2>3 DEF t
    <3>2. Len(then) = 2 => Tail(Tail(s)) = rest
      BY <2>4 DEF t
    <3> QED BY <1>4, <3>1, <3>2
  <2> QED BY <1>1, <2>5, <2>6 DEF s
<1>8. CASE ~(Len(then) = 1) /\ ~(Len(then) >= 2)
  <2>1. Len(then) # 2
    BY <1>8
  <2> QED BY <1>1, <1>4, <1>8, <2>1 DEF s
<1> QED BY <1>6, <1>7, <1>8

\* What may take the place of a function that has taken nothing.
Lower(then, item) ==
  \/ then # <<>> /\ ~Tokenless(then[1]) /\ Rank(then[1]) < Rank(item)
  \/ Len(then) >= 2 /\ ~Tokenless(then[2]) /\ Rank(then[1]) + Rank(then[2]) < Rank(item)
  \/ Tokenless(item) /\ then = <<>>
  \/ Tokenless(item) /\ Len(then) = 1 /\ Rank(then[1]) < Rank(item)
  \/ Tokenless(item) /\ Len(then) = 2 /\ Rank(then[1]) + Rank(then[2]) < Rank(item)

LEMMA LowerRanks ==
  ASSUME NEW s, IsSeq(s), s # <<>>, NEW then, IsSeq(then), Lower(then, Head(s))
  PROVE  Ranks(then \o Tail(s)) < Ranks(s)
<1> DEFINE rest == Tail(s)
           item == Head(s)
           all == then \o rest
           others == Tail(all)
           last == Ranks(Tail(others))
           a == Rank(then[1])
           b == Rank(then[2])
           r == Rank(item)
           x == Ranks(rest)
           y == Ranks(others)
           z == Ranks(all)
<1>1. IsSeq(rest) /\ x \in Nat /\ Ranks(s) = r + (IF Tokenless(item) THEN x ELSE 0)
  BY SeqFacts, RanksFirst
<1>2. r \in Nat /\ r > 0 /\ a \in Nat /\ b \in Nat
  BY RankFacts
<1>3. Len(<<>>) = 0
  OBVIOUS
<1> HIDE DEF rest
<1>4. /\ IsSeq(all)
      /\ then = <<>> => all = rest
      /\ then # <<>> => all # <<>> /\ Head(all) = then[1] /\ IsSeq(others)
      /\ Len(then) = 1 => others = rest
      /\ Len(then) >= 2 => others # <<>> /\ Head(others) = then[2] /\ IsSeq(Tail(others))
      /\ Len(then) = 2 => Tail(others) = rest
  BY <1>1, Before
<1> HIDE DEF all
<1>5. then # <<>> => z = a + (IF Tokenless(then[1]) THEN y ELSE 0) /\ y \in Nat
  BY <1>4, RanksFirst
<1> HIDE DEF others
<1>6. ASSUME Len(then) >= 2
      PROVE  y = b + (IF Tokenless(then[2]) THEN last ELSE 0) /\ last \in Nat /\ then # <<>>
  <2>1. then # <<>>
    BY <1>3, <1>6
  <2>2. others # <<>> /\ Head(others) = then[2] /\ IsSeq(others) /\ IsSeq(Tail(others))
    BY <1>4, <1>6, <2>1
  <2> QED BY <2>1, <2>2, RanksFirst
<1>7. z < r + (IF Tokenless(item) THEN x ELSE 0)
  <2>0. /\ Len(then) = 1 => y = x /\ then # <<>>
        /\ Len(then) = 2 => last = x /\ Len(then) >= 2
        /\ then = <<>> => z = x
    <3>1. Len(then) = 1 => then # <<>>
      BY <1>3
    <3>2. Len(then) = 1 => y = x
      BY <1>4
    <3>3. Len(then) = 2 => last = x
      BY <1>4
    <3>4. then = <<>> => z = x
      BY <1>4
    <3>5. Len(then) = 2 => Len(then) >= 2
      OBVIOUS
    <3> QED BY <3>1, <3>2, <3>3, <3>4, <3>5
  <2> HIDE DEF item, last, a, b, r, x, y, z
  <2>1. CASE then # <<>> /\ ~Tokenless(then[1]) /\ a < r
    <3>1. z = a
      BY <1>2, <1>5, <2>1
    <3>2. r + x \in Nat /\ a < r + x
      BY <1>1, <1>2, <2>1
    <3> QED BY <1>1, <1>2, <2>1, <3>1, <3>2
  <2>2. CASE Len(then) >= 2 /\ ~Tokenless(then[2]) /\ a + b < r
    <3>1. z <= a + y /\ y = b /\ z \in Nat
      <4>1. y = b /\ then # <<>>
        BY <1>2, <1>6, <2>2
      <4> QED BY <1>2, <1>5, <4>1
    <3>2. a + y < r + x /\ a + y < r /\ a + y \in Nat
      BY <1>1, <1>2, <2>2, <3>1
    <3> QED BY <1>1, <1>2, <3>1, <3>2
  <2>3. CASE Tokenless(item) /\ then = <<>>
    BY <1>1, <1>2, <2>0, <2>3
  <2>4. CASE Tokenless(item) /\ Len(then) = 1 /\ a < r
    <3>1. z <= a + x
      BY <1>1, <1>2, <1>5, <2>0, <2>4
    <3>2. a + x < r + x
      BY <1>1, <1>2, <2>4
    <3>3. z \in Nat
      BY <1>1, <1>2, <1>5, <2>0, <2>4
    <3> QED BY <1>1, <1>2, <2>4, <3>1, <3>2, <3>3
  <2>5. CASE Tokenless(item) /\ Len(then) = 2 /\ a + b < r
    <3>1. y <= b + x /\ then # <<>> /\ y \in Nat
      BY <1>1, <1>2, <1>5, <1>6, <2>0, <2>5
    <3>2. z <= a + y /\ z \in Nat
      BY <1>2, <1>5, <3>1
    <3> QED BY <1>1, <1>2, <2>5, <3>1, <3>2
  <2>6. \/ then # <<>> /\ ~Tokenless(then[1]) /\ a < r
        \/ Len(then) >= 2 /\ ~Tokenless(then[2]) /\ a + b < r
        \/ Tokenless(item) /\ then = <<>>
        \/ Tokenless(item) /\ Len(then) = 1 /\ a < r
        \/ Tokenless(item) /\ Len(then) = 2 /\ a + b < r
    BY DEF Lower, item, a, b, r
  <2> QED BY <2>1, <2>2, <2>3, <2>4, <2>5, <2>6
<1> QED BY <1>1, <1>7 DEF all, rest

LEMMA StayNearer ==
  ASSUME Inv, todo # <<>>, NEW push, NEW then, Step(0, push, then), IsSeq(then),
         Lower(then, Head(todo))
  PROVE  Nearer
<1>1. pos' = pos /\ todo' = then \o Tail(todo)
  BY HereIsNow DEF Step
<1>2. IsSeq(todo)
  BY DEF Inv
<1> QED BY <1>1, <1>2, LowerRanks DEF Nearer

LEMMA TakeNearer ==
  ASSUME Inv, NEW take \in Nat, take # 0, pos' = pos + take
  PROVE  Nearer
<1>1. pos \in Int
  BY DEF Inv
<1> QED BY <1>1 DEF Nearer

(* Functions that take a token.                                             *)

LEMMA ExpressionTakes ==
  ASSUME Inv, \/ Infix \/ MatchLiteral \/ MatchAxis \/ LastElement \/ MatchStartName \/ Wing
              \/ Edit \/ NameCall \/ Unary \/ Again \/ AxisLimb \/ SetOrList
              \/ MatchPairInnerJock \/ NoParameter
  PROVE  Nearer
<1>1. CASE Infix
  <2>1. pos' = pos + 1 \/ pos' = pos + 2
    BY <1>1 DEF Infix, Step
  <2> QED BY <2>1, TakeNearer
<1>2. CASE MatchLiteral \/ MatchAxis \/ MatchStartName
  <2>1. pos' = pos + 1 \/ pos' = pos + 2
    BY <1>2 DEF MatchLiteral, MatchAxis, MatchStartName, Step
  <2> QED BY <2>1, TakeNearer
<1>3. CASE LastElement
  <2>1. pos' = pos + 1 \/ pos' = pos + 2
    BY <1>3 DEF LastElement, Step
  <2> QED BY <2>1, TakeNearer
<1>4. CASE Wing \/ Edit \/ NameCall
  <2>1. pos' = pos + 1 \/ pos' = pos + 2
    BY <1>4 DEF Wing, Edit, NameCall, Step
  <2> QED BY <2>1, TakeNearer
<1>5. CASE Unary \/ Again
  <2>1. CASE Unary
    BY <2>1, TakeNearer DEF Unary, Step
  <2>2. CASE Again
    <3>1. pos' = pos + 1 \/ pos' = pos + 3
      BY <2>2 DEF Again, Step
    <3> QED BY <3>1, TakeNearer
  <2> QED BY <1>5, <2>1, <2>2
<1>6. CASE AxisLimb \/ SetOrList \/ MatchPairInnerJock \/ NoParameter
  <2>1. pos' = pos + 1 \/ pos' = pos + 2
    BY <1>6 DEF AxisLimb, SetOrList, MatchPairInnerJock, NoParameter, Step
  <2> QED BY <2>1, TakeNearer
<1> QED BY <1>1, <1>2, <1>3, <1>4, <1>5, <1>6

LEMMA OthersTake ==
  ASSUME Inv, \/ QualifiedJype \/ CellJype \/ AxisJype \/ PlainMetatype \/ Metatype
              \/ MatchKeyword \/ ThisOrCrash \/ Import \/ Object \/ Field \/ LastField
              \/ LastMethod \/ Else \/ ElseIf \/ Default \/ ExpectPunctuator
  PROVE  Nearer
<1>1. CASE QualifiedJype \/ CellJype \/ AxisJype \/ PlainMetatype \/ Metatype
  <2>1. pos' = pos + 1 \/ pos' = pos + 2
    BY <1>1 DEF QualifiedJype, CellJype, AxisJype, PlainMetatype, Metatype, Step
  <2> QED BY <2>1, TakeNearer
<1>2. CASE MatchKeyword \/ ThisOrCrash \/ ExpectPunctuator
  <2>1. pos' = pos + 1
    BY <1>2 DEF MatchKeyword, ThisOrCrash, ExpectPunctuator, Step
  <2> QED BY <2>1, TakeNearer
<1>3. CASE Import \/ Object
  <2>1. pos' = pos + 1 \/ pos' = pos + 2 \/ pos' = pos + 4
    BY <1>3 DEF Import, Object, Step
  <2> QED BY <2>1, TakeNearer
<1>4. CASE Field \/ LastField \/ LastMethod
  <2>1. pos' = pos + 1 \/ pos' = pos + 2
    BY <1>4 DEF Field, LastField, LastMethod, Step
  <2> QED BY <2>1, TakeNearer
<1>5. CASE Else \/ ElseIf \/ Default
  <2>1. pos' = pos + 1 \/ pos' = pos + 2
    BY <1>5 DEF Else, ElseIf, Default, Step
  <2> QED BY <2>1, TakeNearer
<1> QED BY <1>1, <1>2, <1>3, <1>4, <1>5

(* Functions that may call others first.  An entry that is called without   *)
(* values has what as its name, and its rank and kind follow from that.     *)

LEMMA AtCall ==
  ASSUME NEW what, Doing(what)
  PROVE  /\ todo # <<>> /\ Rank(Head(todo)) = Rank(Call(what))
         /\ Tokenless(Head(todo)) = Tokenless(Call(what))
<1> DEFINE item == Head(todo)
<1>1. item.do = "call" /\ item.what = what /\ todo # <<>>
  BY DEF Doing
<1>2. Call(what).do = "call" /\ Call(what).what = what
  BY DEF Call
<1> HIDE DEF item
<1>3. Rank(item) = Rank(Call(what)) /\ Tokenless(item) = Tokenless(Call(what))
  BY <1>1, <1>2 DEF Rank, Tokenless
<1> QED BY <1>1, <1>3 DEF item

\* The ranks that count.
LEMMA CallRanks ==
  /\ \A what \in {"tuple", "set", "list", "argument", "parameter"} : Rank(Call(what)) = 6
  /\ \A what \in {"inner", "cases", "methods", "second-jype"} : Rank(Call(what)) = 5
  /\ \A what \in {"jock", "body"} : Rank(Call(what)) = 4
  /\ \A what \in {"punctuator", "jype", "wing"} : Rank(Call(what)) = 3
  /\ \A what \in {"lambda", "result", "axis-call", "lambda-call"} : Rank(Call(what)) = 2
  /\ \A what \in {"infix", "inner-infix", "after-name", "leaf", "pair", "metatype", "unreserved",
                  "attach", "last-case", "literal", "name", "keyword"} : Rank(Call(what)) = 1
BY DEF Call, Rank

LEMMA CallTakes ==
  /\ \A what \in {"infix", "inner-infix", "wing", "after-name", "axis-call", "lambda-call", "jype",
                  "leaf", "second-jype", "unreserved", "attach", "cases", "last-case"} :
       Tokenless(Call(what))
  /\ \A what \in {"jock", "inner", "literal", "name", "keyword", "punctuator", "pair", "lambda",
                  "result", "metatype"} : ~Tokenless(Call(what))
BY DEF Call, Tokenless

LEMMA ItemRanks ==
  /\ \A punc : Rank(Expect(punc)) = 1 /\ ~Tokenless(Expect(punc))
  /\ \A node, n : Rank(Build(node, n)) = 1 /\ Tokenless(Build(node, n))
  /\ \A name : Rank(Rename(name)) = 1
BY DEF Expect, Build, Rename, Rank, Tokenless

\* Nothing is left to do.
LEMMA DoneNearer ==
  ASSUME Inv, NEW what, Doing(what), Tokenless(Call(what)), NEW push, Step(0, push, <<>>)
  PROVE  Nearer
BY AtCall, StayNearer, Entries0 DEF Lower

\* Something that takes a token comes first.
LEMMA CallNearer ==
  ASSUME Inv, NEW what, Doing(what), NEW push, NEW then, Step(0, push, then), IsSeq(then),
         then # <<>>, ~Tokenless(then[1]), Rank(then[1]) < Rank(Call(what))
  PROVE  Nearer
BY AtCall, StayNearer DEF Lower

\* It comes second.
LEMMA SecondNearer ==
  ASSUME Inv, NEW what, Doing(what), NEW push, NEW then, Step(0, push, then), IsSeq(then),
         Len(then) >= 2, ~Tokenless(then[2]),
         Rank(then[1]) + Rank(then[2]) < Rank(Call(what))
  PROVE  Nearer
BY AtCall, StayNearer DEF Lower

\* Something that may take none comes alone, or two such.
LEMMA FewNearer ==
  ASSUME Inv, NEW what, Doing(what), Tokenless(Call(what)),
         NEW push, NEW then, Step(0, push, then), IsSeq(then),
         \/ Len(then) = 1 /\ Rank(then[1]) < Rank(Call(what))
         \/ Len(then) = 2 /\ Rank(then[1]) + Rank(then[2]) < Rank(Call(what))
  PROVE  Nearer
BY AtCall, StayNearer DEF Lower

LEMMA StartRank ==
  ASSUME Inv, ~AtEnd
  PROVE  LET start == Call(StartOf(Ahead(0))) IN ~Tokenless(start) /\ Rank(start) <= 3
<1> DEFINE what == StartOf(Ahead(0))
<1>1. Ahead(0) \in Tokens
  BY TokenAhead DEF AtEnd
<1>2. what \in {"literal", "name", "keyword", "punctuator"}
  BY <1>1 DEF StartOf, Tokens
<1> HIDE DEF what
<1>3. Rank(Call(what)) = 1 \/ Rank(Call(what)) = 3
  BY <1>2, CallRanks
<1> QED BY <1>2, <1>3, CallTakes DEF what

LEMMA MatchJockNearer ==
  ASSUME Inv, MatchJock \/ MatchInnerJock \/ MatchJockBody
  PROVE  Nearer
<1> DEFINE start == Call(StartOf(Ahead(0)))
<1>1. ~AtEnd /\ (Doing("jock") \/ Doing("inner") \/ Doing("body"))
  BY DEF MatchJock, MatchInnerJock, MatchJockBody
<1>2. ~Tokenless(start) /\ Rank(start) <= 3 /\ Rank(start) \in Nat
  BY <1>1, StartRank, RankFacts
<1>3. /\ MatchJock => Doing("jock") /\ Step(0, <<>>, <<start, Call("infix")>>)
      /\ MatchInnerJock =>
           /\ Doing("inner")
           /\ Step(0, <<>>, <<start, Call("inner-infix")>>) \/ Step(0, <<>>, <<Call("jock")>>)
      /\ MatchJockBody => Doing("body") /\ Step(0, <<>>, <<start>>)
  BY DEF MatchJock, MatchInnerJock, MatchJockBody
<1> HIDE DEF start
<1>4. ASSUME NEW what \in {"jock", "inner", "body"}, Doing(what), NEW then, IsSeq(then),
             then # <<>>, then[1] = start, Step(0, <<>>, then)
      PROVE  Nearer
  <2>1. Rank(Call(what)) = 4 \/ Rank(Call(what)) = 5
    BY <1>4, CallRanks
  <2> QED BY <1>2, <1>4, <2>1, CallNearer
<1>5. \A x : IsSeq(<<start, x>>) /\ <<start, x>> # <<>> /\ <<start, x>>[1] = start
  BY Entries2
<1>6. /\ IsSeq(<<start>>) /\ <<start>> # <<>> /\ <<start>>[1] = start
      /\ IsSeq(<<Call("jock")>>) /\ <<Call("jock")>> # <<>> /\ <<Call("jock")>>[1] = Call("jock")
  BY Entries1
<1>7. CASE MatchJock
  BY <1>3, <1>4, <1>5, <1>7
<1>8. CASE MatchJockBody
  BY <1>3, <1>4, <1>6, <1>8
<1>9. CASE MatchInnerJock
  <2>1. Doing("inner") /\ (\/ Step(0, <<>>, <<start, Call("inner-infix")>>)
                           \/ Step(0, <<>>, <<Call("jock")>>))
    BY <1>3, <1>9
  <2>2. CASE Step(0, <<>>, <<start, Call("inner-infix")>>)
    BY <1>4, <1>5, <2>1, <2>2
  <2>3. CASE Step(0, <<>>, <<Call("jock")>>)
    <3>1. Rank(Call("jock")) < Rank(Call("inner")) /\ ~Tokenless(Call("jock"))
      BY CallRanks, CallTakes
    <3> QED BY <1>6, <2>1, <2>3, <3>1, CallNearer
  <2> QED BY <2>1, <2>2, <2>3
<1> QED BY <1>7, <1>8, <1>9

\* What is left out: an operator, an axis that is no call, a type, a name for a class.
LEMMA AbsentNearer ==
  ASSUME Inv, NoInfix \/ PlainName \/ Unreserved \/ LastCase
  PROVE  Nearer
<1>1. \E what \in {"infix", "inner-infix", "after-name", "unreserved", "last-case"} :
        Doing(what) /\ Step(0, <<>>, <<>>)
  BY DEF NoInfix, PlainName, Unreserved, LastCase
<1> QED BY <1>1, CallTakes, DoneNearer

LEMMA ElementNearer ==
  ASSUME Inv, Element
  PROVE  Nearer
<1>1. PICK what \in {"tuple", "set", "list"} : \E n :
        Doing(what) /\ Step(0, <<>>, <<Call("inner"), Loop(what, n)>>)
  BY DEF Element, Closer
<1>2. PICK n : Doing(what) /\ Step(0, <<>>, <<Call("inner"), Loop(what, n)>>)
  BY <1>1
<1>3. Rank(Call("inner")) < Rank(Call(what)) /\ ~Tokenless(Call("inner"))
  BY CallRanks, CallTakes
<1> DEFINE then == <<Call("inner"), Loop(what, n)>>
<1>4. IsSeq(then) /\ then # <<>> /\ then[1] = Call("inner")
  BY Entries2
<1> HIDE DEF then
<1> QED BY <1>2, <1>3, <1>4, CallNearer DEF then

LEMMA LastWingNearer ==
  ASSUME Inv, LastWing
  PROVE  Nearer
<1> DEFINE build == Build("limb", Head(todo).n)
           then == <<build, Call("after-name")>>
<1>1. Doing("wing") /\ Step(0, <<>>, then)
  BY DEF LastWing
<1>2. IsSeq(then) /\ Len(then) = 2 /\ then[1] = build /\ then[2] = Call("after-name")
  BY Entries2
<1>3. Rank(build) = 1 /\ Rank(Call("after-name")) = 1 /\ Rank(Call("wing")) = 3
      /\ Tokenless(Call("wing"))
  BY ItemRanks, CallRanks, CallTakes
<1> HIDE DEF then, build
<1> QED BY <1>1, <1>2, <1>3, FewNearer

LEMMA MatchCallArgNearer ==
  ASSUME Inv, MatchCallArg
  PROVE  Nearer
<1> DEFINE pair == <<Call("pair")>>
           inner == <<Call("inner"), Loop("tuple", 1)>>
<1>1. Doing("argument") /\ (Step(0, <<>>, pair) \/ Step(0, <<>>, inner))
  BY DEF MatchCallArg
<1>2. IsSeq(pair) /\ pair # <<>> /\ pair[1] = Call("pair")
      /\ IsSeq(inner) /\ inner # <<>> /\ inner[1] = Call("inner")
  BY Entries1, Entries2
<1>3. /\ Rank(Call("pair")) < Rank(Call("argument")) /\ ~Tokenless(Call("pair"))
      /\ Rank(Call("inner")) < Rank(Call("argument")) /\ ~Tokenless(Call("inner"))
  BY CallRanks, CallTakes
<1> HIDE DEF pair, inner
<1> QED BY <1>1, <1>2, <1>3, CallNearer

LEMMA FirstOfTwo ==
  ASSUME NEW a, NEW b, IsSeq(a), IsSeq(b), Len(a) >= 1
  PROVE  IsSeq(a \o b) /\ a \o b # <<>> /\ (a \o b)[1] = a[1] /\ Len(a \o b) >= Len(a)
         /\ (Len(a) >= 2 => (a \o b)[2] = a[2])
<1>1. Len(a) \in Nat /\ Len(b) \in Nat /\ 1 \in 1..Len(a) /\ (Len(a) >= 2 => 2 \in 1..Len(a))
  BY SeqFacts
<1>2. /\ IsSeq(a \o b) /\ Len(a \o b) = Len(a) + Len(b)
      /\ \A k \in 1..Len(a) : (a \o b)[k] = a[k]
  BY ConcatFacts
<1>3. Len(<<>>) = 0
  OBVIOUS
<1>4. Len(a \o b) >= Len(a) /\ Len(a \o b) # 0
  BY <1>1, <1>2
<1> QED BY <1>1, <1>2, <1>3, <1>4

LEMMA TwoBefore ==
  ASSUME NEW a, NEW b, NEW c, IsSeq(a), IsSeq(b), IsSeq(c), Len(a) >= 1
  PROVE  /\ IsSeq(a \o b \o c) /\ a \o b \o c # <<>> /\ (a \o b \o c)[1] = a[1]
         /\ Len(a) >= 2 => Len(a \o b \o c) >= 2 /\ (a \o b \o c)[2] = a[2]
<1> DEFINE d == a \o b
<1>1. /\ IsSeq(d) /\ d[1] = a[1] /\ Len(d) >= Len(a)
      /\ Len(a) >= 2 => d[2] = a[2]
  BY FirstOfTwo
<1>2. Len(a) \in Nat /\ Len(d) \in Nat
  BY <1>1, SeqFacts
<1> HIDE DEF d
<1>3. Len(d) >= 1 /\ (Len(a) >= 2 => Len(d) >= 2)
  BY <1>1, <1>2
<1>4. /\ IsSeq(d \o c) /\ d \o c # <<>> /\ (d \o c)[1] = d[1] /\ Len(d \o c) >= Len(d)
      /\ Len(d) >= 2 => (d \o c)[2] = d[2]
  BY <1>1, <1>3, FirstOfTwo
<1>5. Len(d \o c) \in Nat
  BY <1>4, SeqFacts
<1>6. Len(d) >= 2 => Len(d \o c) >= 2
  BY <1>2, <1>4, <1>5
<1> QED BY <1>1, <1>3, <1>4, <1>6 DEF d

LEMMA BlockFirst ==
  ASSUME NEW start, NEW what, NEW end, NEW rest, IsSeq(rest)
  PROVE  LET s == Block(start, what, end) \o rest IN
         /\ IsSeq(s) /\ s # <<>> /\ s[1] = Expect(start)
<1> DEFINE block == <<Expect(start), Call(what), Expect(end)>>
<1>1. IsSeq(block) /\ Len(block) = 3 /\ block[1] = Expect(start)
  BY Entries3
<1>2. Block(start, what, end) = block /\ Len(block) >= 1
  BY <1>1 DEF Block
<1> HIDE DEF block
<1> QED BY <1>1, <1>2, FirstOfTwo

LEMMA AxisCallNearer ==
  ASSUME Inv, AxisCall
  PROVE  Nearer
<1> DEFINE build == <<Build("call", 2)>>
           then == Block("(", "inner", ")") \o build
<1>1. Doing("axis-call") /\ (Step(0, <<>>, then) \/ Step(0, <<>>, <<>>))
  BY DEF AxisCall
<1>2. IsSeq(build)
  BY Entries1
<1> HIDE DEF build
<1>3. IsSeq(then) /\ then # <<>> /\ then[1] = Expect("(")
  BY <1>2, BlockFirst
<1> HIDE DEF then
<1>4. /\ Rank(Expect("(")) < Rank(Call("axis-call")) /\ ~Tokenless(Expect("("))
      /\ Tokenless(Call("axis-call"))
  BY CallRanks, CallTakes, ItemRanks
<1> QED BY <1>1, <1>3, <1>4, CallNearer, DoneNearer

LEMMA ParenthesisNearer ==
  ASSUME Inv, Parenthesis
  PROVE  Nearer
<1> DEFINE lambda == <<Call("lambda"), Call("lambda-call")>>
           pair == <<Call("pair")>>
<1>1. Doing("punctuator") /\ (Step(0, <<>>, lambda) \/ Step(0, <<>>, pair))
  BY DEF Parenthesis, Starting
<1>2. IsSeq(pair) /\ pair # <<>> /\ pair[1] = Call("pair")
      /\ IsSeq(lambda) /\ lambda # <<>> /\ lambda[1] = Call("lambda")
  BY Entries1, Entries2
<1>3. /\ Rank(Call("pair")) < Rank(Call("punctuator")) /\ ~Tokenless(Call("pair"))
      /\ Rank(Call("lambda")) < Rank(Call("punctuator")) /\ ~Tokenless(Call("lambda"))
  BY CallRanks, CallTakes
<1> HIDE DEF pair, lambda
<1> QED BY <1>1, <1>2, <1>3, CallNearer

LEMMA LambdaCallNearer ==
  ASSUME Inv, LambdaCall
  PROVE  Nearer
<1> DEFINE then == <<Call("pair"), Build("call", 2)>>
<1>1. Doing("lambda-call")
      /\ (Step(0, <<>>, <<>>) \/ pos' = pos + 2 \/ Step(0, <<>>, then))
  <2>1. CASE Ahead(0) # "("
    BY <2>1 DEF LambdaCall
  <2>2. CASE Ahead(0) = "(" /\ Ahead(1) = ")"
    BY <2>2 DEF LambdaCall, Step
  <2>3. CASE Ahead(0) = "(" /\ Ahead(1) # ")"
    BY <2>3 DEF LambdaCall
  <2> QED BY <2>1, <2>2, <2>3
<1>2. IsSeq(then) /\ then # <<>> /\ then[1] = Call("pair")
  BY Entries2
<1>3. /\ Rank(Call("pair")) < Rank(Call("lambda-call")) /\ ~Tokenless(Call("pair"))
      /\ Tokenless(Call("lambda-call"))
  BY CallRanks, CallTakes
<1> HIDE DEF then
<1> QED BY <1>1, <1>2, <1>3, CallNearer, DoneNearer, TakeNearer

LEMMA MatchLambdaNearer ==
  ASSUME Inv, MatchLambda
  PROVE  Nearer
<1> DEFINE first == <<Expect("("), Call("parameter")>>
           block == Block(LBrace, "jock", RBrace)
           build == <<Build("lambda", 2)>>
           then == first \o block \o build
<1>1. Doing("lambda") /\ Step(0, <<>>, then)
  BY DEF MatchLambda
<1>2. IsSeq(build) /\ IsSeq(first) /\ Len(first) >= 1 /\ first[1] = Expect("(")
  BY Entries1, Entries2
<1>3. IsSeq(block) /\ Len(first) \in Nat
  BY <1>2, Entries3, SeqFacts DEF Block
<1> HIDE DEF build, first, block
<1>4. IsSeq(then) /\ then # <<>> /\ then[1] = Expect("(")
  BY <1>2, <1>3, TwoBefore
<1>5. Rank(Expect("(")) < Rank(Call("lambda")) /\ ~Tokenless(Expect("("))
  BY CallRanks, ItemRanks
<1> HIDE DEF then
<1> QED BY <1>1, <1>4, <1>5, CallNearer

LEMMA ParameterNearer ==
  ASSUME Inv, Parameter
  PROVE  Nearer
<1> DEFINE then == <<Call("jype"), Call("result"), Build("lambda-argument", 2)>>
<1>1. Doing("parameter") /\ Step(0, <<>>, then)
  BY DEF Parameter
<1>2. IsSeq(then) /\ Len(then) >= 2 /\ then[1] = Call("jype") /\ then[2] = Call("result")
  BY Entries3
<1>3. Rank(Call("jype")) = 3 /\ Rank(Call("result")) = 2 /\ Rank(Call("parameter")) = 6
      /\ ~Tokenless(Call("result"))
  BY CallRanks, CallTakes
<1> HIDE DEF then
<1> QED BY <1>1, <1>2, <1>3, SecondNearer

LEMMA ResultNearer ==
  ASSUME Inv, Result
  PROVE  Nearer
<1> DEFINE then == <<Expect(")"), Expect("-"), Expect(">"), Call("jype")>>
<1>1. Doing("result") /\ (pos' = pos + 2 \/ Step(0, <<>>, then))
  <2>1. CASE Arrow(0)
    BY <2>1 DEF Result, Step
  <2>2. CASE ~Arrow(0)
    BY <2>2 DEF Result
  <2> QED BY <2>1, <2>2
<1>2. IsSeq(then) /\ then # <<>> /\ then[1] = Expect(")")
  BY Entries4
<1>3. Rank(Expect(")")) < Rank(Call("result")) /\ ~Tokenless(Expect(")"))
  BY CallRanks, ItemRanks
<1> HIDE DEF then
<1> QED BY <1>1, <1>2, <1>3, CallNearer, TakeNearer

LEMMA SecondJypeNearer ==
  ASSUME Inv, SecondJype
  PROVE  Nearer
<1> DEFINE build == Build("cell-type", 2)
           then == <<Call("jype"), build>>
<1>1. Doing("second-jype") /\ (Step(0, <<>>, <<>>) \/ Step(0, <<>>, then))
  BY DEF SecondJype
<1>2. IsSeq(then) /\ Len(then) = 2 /\ then[1] = Call("jype") /\ then[2] = build
  BY Entries2
<1>3. Rank(Call("jype")) = 3 /\ Rank(build) = 1 /\ Rank(Call("second-jype")) = 5
      /\ Tokenless(Call("second-jype"))
  BY CallRanks, CallTakes, ItemRanks
<1> HIDE DEF then, build
<1> QED BY <1>1, <1>2, <1>3, FewNearer, DoneNearer

LEMMA JypeNearer ==
  ASSUME Inv, TypeJype \/ LeafJype
  PROVE  Nearer
<1> DEFINE type == <<Call("metatype")>>
           leaf == <<Call("leaf")>>
<1>1. Doing("jype") /\ (Step(0, <<>>, type) \/ Step(0, <<>>, leaf) \/ pos' = pos + 1)
  <2>1. CASE TypeJype
    BY <2>1 DEF TypeJype
  <2>2. CASE LeafJype /\ Ahead(0) \in Name
    BY <2>2 DEF LeafJype, Step
  <2>3. CASE LeafJype /\ Ahead(0) \notin Name
    BY <2>3 DEF LeafJype
  <2> QED BY <2>1, <2>2, <2>3
<1>2. IsSeq(type) /\ Len(type) = 1 /\ type[1] = Call("metatype")
      /\ IsSeq(leaf) /\ Len(leaf) = 1 /\ leaf[1] = Call("leaf")
  BY Entries1
<1>3. /\ Rank(Call("metatype")) < Rank(Call("jype")) /\ Rank(Call("leaf")) < Rank(Call("jype"))
      /\ Tokenless(Call("jype"))
  BY CallRanks, CallTakes
<1> HIDE DEF type, leaf
<1> QED BY <1>1, <1>2, <1>3, FewNearer, TakeNearer

LEMMA MatchJypeLeafNearer ==
  ASSUME Inv, MatchJypeLeaf
  PROVE  Nearer
<1>1. CASE pos' = pos + 1
  BY <1>1, TakeNearer
<1>2. CASE Doing("leaf") /\ \E push : Step(0, push, <<>>)
  BY <1>2, CallTakes, DoneNearer
<1>3. CASE Ahead(0) \in {"@", "?", "*", "#"} \cup Names
  BY <1>1, <1>3 DEF MatchJypeLeaf, Step
<1>4. CASE Ahead(0) \notin {"@", "?", "*", "#"} \cup Names
  BY <1>2, <1>4 DEF MatchJypeLeaf
<1> QED BY <1>3, <1>4

LEMMA MethodNearer ==
  ASSUME Inv, Method
  PROVE  Nearer
<1> DEFINE first == <<Call("jype"), Expect("(("), Call("jype"), Call("second-jype"),
                      Expect(")"), Expect("-"), Expect(">"), Call("jype")>>
           block == Block(LBrace, "jock", RBrace)
           last == <<Build("method", 4), Loop("methods", Head(todo).n + 1)>>
           then == first \o block \o last
<1>1. Doing("methods") /\ Step(0, <<>>, then)
  BY DEF Method
<1>2. IsSeq(first) /\ Len(first) = 8 /\ first[1] = Call("jype") /\ first[2] = Expect("((")
      /\ IsSeq(last)
  BY Entries8, Entries2
<1>3. IsSeq(block) /\ Len(first) >= 2
  BY <1>2, Entries3 DEF Block
<1> HIDE DEF first, last, block
<1>4. /\ IsSeq(then) /\ Len(then) >= 2
      /\ then[1] = Call("jype") /\ then[2] = Expect("((")
  BY <1>2, <1>3, TwoBefore
<1>5. Rank(Call("jype")) = 3 /\ Rank(Expect("((")) = 1 /\ Rank(Call("methods")) = 5
      /\ ~Tokenless(Expect("(("))
  BY CallRanks, ItemRanks
<1> HIDE DEF then
<1> QED BY <1>1, <1>4, <1>5, SecondNearer

LEMMA CaseNearer ==
  ASSUME Inv, Case
  PROVE  Nearer
<1> DEFINE loop == Loop("cases", Head(todo).n + 1)
           then == <<Call("jock"), Expect("-"), Expect(">"), Call("jock"), Expect(Semicolon),
                     Build("case", 2), loop>>
<1>1. Doing("cases") /\ Step(0, <<>>, then)
  BY DEF Case
<1>2. IsSeq(then) /\ then # <<>> /\ then[1] = Call("jock")
  BY Entries7
<1>3. Rank(Call("jock")) < Rank(Call("cases")) /\ ~Tokenless(Call("jock"))
  BY CallRanks, CallTakes
<1> HIDE DEF then
<1> QED BY <1>1, <1>2, <1>3, CallNearer

LEMMA NoMoreCasesNearer ==
  ASSUME Inv, NoMoreCases
  PROVE  Nearer
<1> DEFINE build == Build("cases", Head(todo).n)
           then == <<build>>
<1>1. Doing("cases") /\ Step(0, <<>>, then)
  BY DEF NoMoreCases
<1>2. IsSeq(then) /\ Len(then) = 1 /\ then[1] = build
  BY Entries1
<1>3. Rank(build) < Rank(Call("cases")) /\ Tokenless(Call("cases"))
  BY CallRanks, CallTakes, ItemRanks
<1> HIDE DEF then, build
<1> QED BY <1>1, <1>2, <1>3, FewNearer

\* What has its values leaves the others.
LEMMA ReturnNearer ==
  ASSUME Inv, Return \/ Attach
  PROVE  Nearer
<1>1. /\ todo # <<>> /\ todo' = Tail(todo) /\ pos' = pos /\ Tokenless(Head(todo))
  BY DEF Return, Attach, Pending, Doing, Tokenless
<1>2. IsSeq(todo) /\ IsSeq(<<>>) /\ IsSeq(Tail(todo)) /\ <<>> \o Tail(todo) = Tail(todo)
  BY <1>1, Entries0, SeqFacts, ConcatFacts DEF Inv
<1> QED BY <1>1, <1>2, LowerRanks DEF Lower, Nearer

LEMMA NextNearer ==
  ASSUME Inv, Next
  PROVE  Nearer
<1>1. CASE Expression
  BY <1>1, ExpressionTakes, MatchJockNearer, AbsentNearer, ElementNearer, LastWingNearer,
     MatchCallArgNearer, AxisCallNearer, ParenthesisNearer, LambdaCallNearer,
     MatchLambdaNearer, ParameterNearer, ResultNearer DEF Expression
<1>2. CASE Typing
  BY <1>2, OthersTake, SecondJypeNearer, JypeNearer, MatchJypeLeafNearer DEF Typing
<1>3. CASE Statement
  BY <1>3, OthersTake, AbsentNearer, MethodNearer, CaseNearer, NoMoreCasesNearer, ReturnNearer
     DEF Statement
<1>4. CASE ExpectPunctuator \/ Return
  BY <1>4, OthersTake, ReturnNearer
<1>5. CASE Unexpected \/ Reserved \/ Parse
  <2>1. outcome'.kind \in {"end", "unexpected", "reserved", "parsed"}
    BY <1>5 DEF Unexpected, Reserved, Parse, Stop
  <2> QED BY <2>1 DEF Nearer
<1> QED BY <1>1, <1>2, <1>3, <1>4, <1>5 DEF Next

\* For all tokens, each step takes a token, comes nearer to one or ends: the position
\* and the ranks come down together, lexicographically, so that the parser cannot go
\* on for ever, whatever it is given.
THEOREM ParserDescends == Spec => Descends
<1>1. Inv /\ [Next]_vars => [Nearer]_vars
  BY NextNearer
<1> QED BY <1>1, ParserInv, PTL DEF Spec, Descends

\* What is parsed is all of the input, as one expression: there is no input that parses
\* with a part of it unread.  And its brackets are balanced, but where a parenthesis may
\* have been taken for that of a call: the code accepts "f((2 3)", with one too few.
Whole ==
  outcome.kind = "parsed" =>
    /\ todo = <<>> /\ pos = Len(input) + 1 /\ Len(vals) = 1
    /\ ~Swallowed => Opened(input, <<>>)[Len(input)] = <<>>

THEOREM ParserWhole == Spec => []Whole
<1>1. Inv => Whole
  <2> SUFFICES ASSUME Inv, outcome.kind = "parsed"
               PROVE  /\ todo = <<>> /\ pos = Len(input) + 1 /\ Len(vals) = 1
                      /\ ~Swallowed => Opened(input, <<>>)[Len(input)] = <<>>
    BY DEF Whole
  <2>1. todo = <<>> /\ pos = Len(input) + 1 /\ Len(input) \in Nat
    BY DEF Inv
  <2>2. Len(vals) = 1
    BY <2>1, Entries0 DEF Inv
  <2>3. ~Swallowed => Open(pos) = <<>>
    BY <2>1, Entries0 DEF Inv
  <2>4. pos - 1 = Len(input)
    BY <2>1
  <2> QED BY <2>1, <2>2, <2>3, <2>4 DEF Open
<1> QED BY <1>1, ParserInv, PTL
=============================================================================
