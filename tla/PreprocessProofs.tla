-------------------------- MODULE PreprocessProofs --------------------------
(***************************************************************************)
(* For every program and all arguments: what stands before the first "#"   *)
(* of the text is not touched.                                             *)
(***************************************************************************)
EXTENDS Preprocess, Iteration, SequenceTheorems

\* The digits of a number, from those of a tenth of it.
NextDigits(d, m) == IF m < 10 THEN <<Numeral[m]>> ELSE Append(d[m \div 10], Numeral[m % 10])

LEMMA Tenth ==
  ASSUME NEW m \in Nat
  PROVE  /\ m \div 10 \in Nat /\ m % 10 \in 0..9
         /\ m >= 10 => m \div 10 < m
OBVIOUS

LEMMA NextDigitsTyped ==
  ASSUME NEW m \in Nat, NEW d, m >= 10 => d[m \div 10] \in Seq(Char)
  PROVE  NextDigits(d, m) \in Seq(Char) /\ Len(NextDigits(d, m)) >= 1
<1>1. m % 10 \in 0..9 /\ Numeral[m % 10] \in Char
  BY Tenth, PreprocessAssumption
<1>2. CASE m < 10
  <2>1. Numeral[m] \in Char
    BY <1>2, PreprocessAssumption
  <2>2. <<Numeral[m]>> \in Seq(Char) /\ Len(<<Numeral[m]>>) = 1
    BY <2>1
  <2> QED BY <1>2, <2>2 DEF NextDigits
<1>3. CASE ~(m < 10)
  <2>1. d[m \div 10] \in Seq(Char)
    BY <1>3
  <2> DEFINE s == d[m \div 10]
  <2> HIDE DEF s
  <2>2. s \in Seq(Char)
    BY <2>1 DEF s
  <2>3. Append(s, Numeral[m % 10]) \in Seq(Char) /\ Len(Append(s, Numeral[m % 10])) = Len(s) + 1
        /\ Len(s) \in Nat
    BY <1>1, <2>2, AppendProperties, LenProperties
  <2>4. NextDigits(d, m) = Append(s, Numeral[m % 10])
    BY <1>3 DEF NextDigits, s
  <2> QED BY <2>3, <2>4
<1> QED BY <1>2, <1>3

\* The recursion that defines the digits has a solution.
LEMMA DigitsUnfold ==
  \E f \in [Nat -> Seq(Char)] : \A m \in Nat : f[m] = NextDigits(f, m)
<1> DEFINE Prefix(n) == {g \in [0..n -> Seq(Char)] : \A i \in 0..n : g[i] = NextDigits(g, i)}
<1>1. \A n \in Nat : Prefix(n) # {}
  <2> DEFINE Missing == {n \in Nat : Prefix(n) = {}}
  <2>1. SUFFICES ASSUME Missing # {} PROVE FALSE
    OBVIOUS
  <2>2. PICK n \in Missing : \A m \in Missing : n <= m
    BY <2>1, LeastNat
  <2>3. \E g \in [0..n -> Seq(Char)] : \A i \in 0..n : g[i] = NextDigits(g, i)
    <3>1. CASE n = 0
      <4> DEFINE g == [i \in 0..n |-> <<Numeral[i]>>]
      <4>1. Numeral[0] \in Char
        BY PreprocessAssumption
      <4>2. g \in [0..n -> Seq(Char)]
        BY <3>1, <4>1
      <4>3. \A i \in 0..n : g[i] = NextDigits(g, i)
        BY <3>1 DEF NextDigits
      <4> QED BY <4>2, <4>3
    <3>2. CASE n # 0
      <4>1. n \in Nat /\ n - 1 \in Nat /\ ~(n <= n - 1)
        BY <2>2, <3>2
      <4>2. n - 1 \notin Missing
        BY <2>2, <4>1
      <4>3. PICK h \in [0..(n - 1) -> Seq(Char)] : \A i \in 0..(n - 1) : h[i] = NextDigits(h, i)
        BY <4>1, <4>2
      <4> DEFINE last == NextDigits(h, n)
                 g == [i \in 0..n |-> IF i = n THEN last ELSE h[i]]
      <4>4. n >= 10 => n \div 10 \in 0..(n - 1)
        BY <4>1, Tenth
      <4>5. last \in Seq(Char)
        <5>1. n >= 10 => h[n \div 10] \in Seq(Char)
          BY <4>3, <4>4
        <5> QED BY <4>1, <5>1, NextDigitsTyped
      <4> HIDE DEF last
      <4>6. g \in [0..n -> Seq(Char)]
        BY <4>1, <4>3, <4>5
      <4>7. ASSUME NEW i \in 0..n PROVE g[i] = NextDigits(g, i)
        <5>1. i \in Nat /\ (i >= 10 => i \div 10 \in 0..(n - 1) /\ i \div 10 # n)
          BY <4>1, <4>7, Tenth
        <5>2. i >= 10 => g[i \div 10] = h[i \div 10]
          BY <5>1
        <5>3. NextDigits(g, i) = NextDigits(h, i)
          <6> HIDE DEF g
          <6> QED BY <5>1, <5>2 DEF NextDigits
        <5>4. CASE i = n
          BY <5>3, <5>4 DEF last
        <5>5. CASE i # n
          BY <4>1, <4>3, <5>3, <5>5
        <5> QED BY <5>4, <5>5
      <4> QED BY <4>6, <4>7
    <3> QED BY <3>1, <3>2
  <2> QED BY <2>2, <2>3
<1>2. ASSUME NEW m \in Nat, NEW n \in Nat, NEW g \in Prefix(m), NEW h \in Prefix(n), m <= n
      PROVE  \A i \in 0..m : g[i] = h[i]
  <2> DEFINE Differ == {i \in 0..m : g[i] # h[i]}
  <2>1. SUFFICES ASSUME Differ # {} PROVE FALSE
    OBVIOUS
  <2>2. Differ \in SUBSET Nat
    OBVIOUS
  <2>3. PICK i \in Differ : \A j \in Differ : i <= j
    BY <2>1, <2>2, LeastNat
  <2>4. i \in Nat /\ i \in 0..m /\ i \in 0..n
    BY <1>2, <2>3
  <2>5. i >= 10 => /\ i \div 10 \in 0..m /\ i \div 10 \in Nat /\ ~(i <= i \div 10)
    BY <2>4, Tenth
  <2>6. i >= 10 => g[i \div 10] = h[i \div 10]
    BY <2>3, <2>5
  <2>7. NextDigits(g, i) = NextDigits(h, i)
    BY <2>4, <2>6 DEF NextDigits
  <2> QED BY <2>3, <2>4, <2>7
<1> DEFINE choice(n) == CHOOSE g : g \in Prefix(n)
<1>3. ASSUME NEW n \in Nat PROVE choice(n) \in Prefix(n)
  BY <1>1
<1> DEFINE f == [n \in Nat |-> choice(n)[n]]
<1> HIDE DEF choice
<1>4. f \in [Nat -> Seq(Char)]
  BY <1>3
<1>5. ASSUME NEW m \in Nat PROVE f[m] = NextDigits(f, m)
  <2>1. m >= 10 => m \div 10 \in Nat /\ m \div 10 <= m /\ m \div 10 \in 0..(m \div 10)
    BY Tenth
  <2>2. m >= 10 => choice(m \div 10)[m \div 10] = choice(m)[m \div 10]
    <3> HIDE DEF Prefix
    <3> QED BY <1>2, <1>3, <2>1
  <2>3. m >= 10 => f[m \div 10] = choice(m)[m \div 10]
    BY <2>1, <2>2
  <2>4. NextDigits(f, m) = NextDigits(choice(m), m)
    <3> HIDE DEF f
    <3> QED BY <2>3 DEF NextDigits
  <2>5. choice(m)[m] = NextDigits(choice(m), m)
    BY <1>3
  <2> QED BY <2>4, <2>5
<1> HIDE DEF f
<1> QED BY <1>4, <1>5

\* The digits of a number, from the recursion that defines them.
LEMMA DigitsNext ==
  /\ \A n \in Nat : Digits(n) \in Seq(Char) /\ Len(Digits(n)) >= 1
  /\ \A n \in Nat : n < 10 => Digits(n) = <<Numeral[n]>>
  /\ \A n \in Nat : n >= 10 => Digits(n) = Append(Digits(n \div 10), Numeral[n % 10])
<1> DEFINE Unfolds(d) == d = [m \in Nat |-> IF m < 10 THEN <<Numeral[m]>>
                                            ELSE Append(d[m \div 10], Numeral[m % 10])]
           d == CHOOSE d : Unfolds(d)
<1>1. PICK f \in [Nat -> Seq(Char)] : \A m \in Nat : f[m] = NextDigits(f, m)
  BY DigitsUnfold
<1>2. Unfolds(f)
  <2>1. f = [m \in Nat |-> f[m]]
    OBVIOUS
  <2> QED BY <1>1, <2>1 DEF NextDigits
<1>3. Unfolds(d)
  <2> HIDE DEF Unfolds
  <2> QED BY <1>2
<1>4. \A n \in Nat : Digits(n) = d[n]
  BY DEF Digits
<1> HIDE DEF d
<1>5. ASSUME NEW m \in Nat PROVE d[m] = NextDigits(d, m)
  BY <1>3 DEF NextDigits
<1> HIDE DEF Unfolds
<1> DEFINE Outside == {m \in Nat : d[m] \notin Seq(Char)}
<1>6. Outside = {}
  <2>1. SUFFICES ASSUME Outside # {} PROVE FALSE
    OBVIOUS
  <2>2. PICK m \in Outside : \A k \in Outside : m <= k
    BY <2>1, LeastNat
  <2>3. m >= 10 => m \div 10 \in Nat /\ ~(m <= m \div 10)
    BY <2>2, Tenth
  <2>4. m >= 10 => d[m \div 10] \in Seq(Char)
    BY <2>2, <2>3
  <2>5. NextDigits(d, m) \in Seq(Char)
    BY <2>2, <2>4, NextDigitsTyped
  <2> QED BY <1>5, <2>2, <2>5
<1>7. ASSUME NEW n \in Nat PROVE Digits(n) \in Seq(Char) /\ Len(Digits(n)) >= 1
  <2>1. n >= 10 => d[n \div 10] \in Seq(Char)
    BY <1>6, Tenth
  <2> QED BY <1>4, <1>5, <2>1, NextDigitsTyped
<1>8. ASSUME NEW n \in Nat, n < 10 PROVE Digits(n) = <<Numeral[n]>>
  BY <1>4, <1>5, <1>8 DEF NextDigits
<1>9. ASSUME NEW n \in Nat, n >= 10
      PROVE  Digits(n) = Append(Digits(n \div 10), Numeral[n % 10])
  <2>1. n \div 10 \in Nat /\ ~(n < 10)
    BY <1>9, Tenth
  <2>2. d[n] = Append(d[n \div 10], Numeral[n % 10])
    BY <1>5, <2>1 DEF NextDigits
  <2> QED BY <1>4, <2>1, <2>2
<1> QED BY <1>7, <1>8, <1>9

\* What is printed are characters, one at least.
LEMMA DigitsTyped ==
  ASSUME NEW n \in Nat
  PROVE  Digits(n) \in Seq(Char) /\ Len(Digits(n)) >= 1
BY DigitsNext

\* From ten on a number has one digit more than a tenth of it.
LEMMA DigitsCount ==
  ASSUME NEW n \in Nat
  PROVE  /\ n < 10 => Len(Digits(n)) = 1
         /\ n >= 10 => Len(Digits(n)) = Len(Digits(n \div 10)) + 1
<1>1. ASSUME n < 10 PROVE Len(Digits(n)) = 1
  BY <1>1, DigitsNext
<1>2. ASSUME n >= 10 PROVE Len(Digits(n)) = Len(Digits(n \div 10)) + 1
  <2>1. Digits(n \div 10) \in Seq(Char) /\ Numeral[n % 10] \in Char
    BY <1>2, Tenth, DigitsNext, PreprocessAssumption
  <2>2. Len(Append(Digits(n \div 10), Numeral[n % 10])) = Len(Digits(n \div 10)) + 1
    BY <2>1, AppendProperties
  <2> QED BY <1>2, <2>2, DigitsNext
<1> QED BY <1>1, <1>2

\* An offset from 100 to 999 prints in three characters.
LEMMA ThreeDigits ==
  ASSUME NEW n \in 100..999
  PROVE  PrintedLen(n) = 3
<1> DEFINE t == n \div 10
           h == t \div 10
<1>1. n \in Nat /\ n >= 10 /\ t \in 10..99
  OBVIOUS
<1>2. t \in Nat /\ t >= 10 /\ h \in Nat /\ h < 10
  <2> HIDE DEF t
  <2> QED BY <1>1
<1>3. Len(Digits(n)) = Len(Digits(t)) + 1
  BY <1>1, DigitsCount
<1> HIDE DEF t
<1>4. Len(Digits(t)) = Len(Digits(h)) + 1
  BY <1>2, DigitsCount
<1> HIDE DEF h
<1>5. Len(Digits(h)) = 1
  BY <1>2, DigitsCount
<1>6. Len(Digits(n)) = 3
  BY <1>3, <1>4, <1>5
<1> QED BY <1>6 DEF PrintedLen

\* So bot begins two characters behind it.
LEMMA CutOfTwo ==
  ASSUME NEW off \in Nat, off \in 100..999
  PROVE  off + PrintedLen(off) - 1 = off + 2
<1>1. PrintedLen(off) = 3
  BY ThreeDigits
<1> DEFINE p == PrintedLen(off)
<1> HIDE DEF p
<1>2. p = 3
  BY <1>1 DEF p
<1>3. off + p - 1 = off + 2
  BY <1>2
<1> QED BY <1>3 DEF p

\* A placeholder of one of the first ten arguments has two characters.
LEMMA KeyOfTwo ==
  ASSUME NEW i \in 0..9
  PROVE  Len(Key(i)) = 2
<1>1. i \in Nat /\ i < 10
  OBVIOUS
<1>2. Digits(i) = <<Numeral[i]>>
  BY <1>1, DigitsNext
<1> QED BY <1>2 DEF Key

-----------------------------------------------------------------------------
(* The trap.                                                               *)

\* A placeholder begins with a "#".
LEMMA KeyMark ==
  ASSUME NEW i \in Nat
  PROVE  Len(Key(i)) \in Nat /\ Len(Key(i)) >= 1 /\ Key(i)[1] = "#"
<1> DEFINE S == Char \cup {"#"}
           digits == Digits(i)
<1>1. <<"#">> \in Seq(S) /\ digits \in Seq(S) /\ Len(digits) \in Nat
  <2>1. digits \in Seq(Char)
    BY DigitsTyped
  <2> HIDE DEF digits
  <2>2. digits \in Seq(S) /\ Len(digits) \in Nat
    BY <2>1, SeqMonotonic, LenProperties
  <2> QED BY <2>2
<1> HIDE DEF digits, S
<1>2. Len(<<"#">>) = 1 /\ <<"#">>[1] = "#"
  OBVIOUS
<1>3. /\ Len(<<"#">> \o digits) = 1 + Len(digits)
      /\ (<<"#">> \o digits)[1] = <<"#">>[1]
  <2>1. 1 \in 1..(Len(<<"#">>) + Len(digits)) /\ 1 <= Len(<<"#">>)
    BY <1>1, <1>2
  <2>2. /\ Len(<<"#">> \o digits) = Len(<<"#">>) + Len(digits)
        /\ \A k \in 1..(Len(<<"#">>) + Len(digits)) :
             (<<"#">> \o digits)[k] = IF k <= Len(<<"#">>) THEN <<"#">>[k]
                                      ELSE digits[k - Len(<<"#">>)]
    BY <1>1, ConcatProperties
  <2> QED BY <1>2, <2>1, <2>2
<1>4. Key(i) = <<"#">> \o digits
  BY DEF Key, digits
<1> QED BY <1>1, <1>2, <1>3, <1>4

\* Where a placeholder stands in a text there is a "#".
LEMMA OccursMark ==
  ASSUME NEW b \in Seq(Char), NEW off \in Nat, NEW i \in Nat, Occurs(b, off, Key(i))
  PROVE  off + 1 \in 1..Len(b) /\ b[off + 1] = "#"
<1> DEFINE key == Key(i)
<1>1. Len(b) \in Nat /\ Len(key) \in Nat /\ Len(key) >= 1 /\ key[1] = "#"
  BY LenProperties, KeyMark
<1>2. off + Len(key) <= Len(b) /\ \A k \in 1..Len(key) : b[off + k] = key[k]
  BY DEF Occurs
<1> HIDE DEF key
<1> QED BY <1>1, <1>2

Inserted(b, off, x, m) == SubSeq(b, 1, off) \o x \o Slag(m, b)

\* c is b with x in place of what stands between offsets off and m.
Spliced(c, b, off, x, m) ==
  /\ c \in Seq(Char)
  /\ Len(c) >= off + Len(x)
  /\ m <= Len(b) => Len(c) = off + Len(x) + Len(b) - m
  /\ \A k \in 1..off : c[k] = b[k]
  /\ \A k \in 1..Len(x) : c[off + k] = x[k]
  /\ \A k \in 1..(Len(b) - m) : c[off + Len(x) + k] = b[m + k]

LEMMA InsertedParts ==
  ASSUME NEW b \in Seq(Char), NEW x \in Seq(Char), NEW off \in 0..Len(b), NEW m \in Nat
  PROVE  Spliced(Inserted(b, off, x, m), b, off, x, m)
<1> DEFINE top == SubSeq(b, 1, off)
           bot == Slag(m, b)
<1>1. Len(b) \in Nat /\ Len(x) \in Nat /\ \A k \in 1..Len(b) : b[k] \in Char
  BY LenProperties, ElementOfSeq
<1>2. top \in Seq(Char) /\ Len(top) = off /\ \A k \in 1..off : top[k] = b[k]
  <2>1. \A k \in 1..off : b[k] \in Char
    BY <1>1
  <2>2. 1 \in Int /\ off \in Int /\ Len(b) \in Int
    BY <1>1
  <2>3. /\ top \in Seq(Char) /\ Len(top) = IF 1 <= off THEN off - 1 + 1 ELSE 0
        /\ \A k \in 1..(off - 1 + 1) : top[k] = b[1 + k - 1]
    BY <2>1, <2>2, SubSeqProperties
  <2> HIDE DEF top
  <2> QED BY <1>1, <2>3
<1>3. /\ bot \in Seq(Char) /\ Len(bot) \in Nat /\ (m <= Len(b) => Len(bot) = Len(b) - m)
      /\ \A k \in 1..(Len(b) - m) : k \in 1..Len(bot) /\ bot[k] = b[m + k]
  <2> DEFINE s == SubSeq(b, m + 1, Len(b))
  <2>1. \A k \in (m + 1)..Len(b) : b[k] \in Char
    BY <1>1
  <2>2. m + 1 \in Int /\ Len(b) \in Int
    BY <1>1
  <2>3. /\ s \in Seq(Char)
        /\ Len(s) = IF m + 1 <= Len(b) THEN Len(b) - (m + 1) + 1 ELSE 0
        /\ \A k \in 1..(Len(b) - (m + 1) + 1) : s[k] = b[m + 1 + k - 1]
    BY <2>1, <2>2, SubSeqProperties
  <2> HIDE DEF s
  <2>4. /\ Len(s) \in Nat /\ (m <= Len(b) => Len(s) = Len(b) - m)
        /\ \A k \in 1..(Len(b) - m) : k \in 1..Len(s) /\ s[k] = b[m + k]
    BY <1>1, <2>3
  <2>5. bot = s
    BY DEF Slag, s
  <2> QED BY <2>3, <2>4, <2>5
<1> HIDE DEF top, bot
<1> DEFINE front == top \o x
<1>4. /\ front \in Seq(Char) /\ Len(front) = off + Len(x)
      /\ \A k \in 1..off : front[k] = b[k]
      /\ \A k \in 1..Len(x) : front[off + k] = x[k]
  <2>1. /\ front \in Seq(Char) /\ Len(front) = Len(top) + Len(x)
        /\ \A k \in 1..(Len(top) + Len(x)) :
             front[k] = IF k <= Len(top) THEN top[k] ELSE x[k - Len(top)]
    BY <1>2, ConcatProperties
  <2> HIDE DEF front
  <2> QED BY <1>1, <1>2, <2>1
<1> HIDE DEF front
<1> DEFINE all == front \o bot
<1>5. /\ all \in Seq(Char) /\ Len(all) = Len(front) + Len(bot)
      /\ \A k \in 1..(Len(front) + Len(bot)) :
           all[k] = IF k <= Len(front) THEN front[k] ELSE bot[k - Len(front)]
  <2>1. front \in Seq(Char) /\ bot \in Seq(Char)
    BY <1>3, <1>4
  <2> QED BY <2>1, ConcatProperties
<1> HIDE DEF all
<1>6. Len(all) >= off + Len(x) /\ (m <= Len(b) => Len(all) = off + Len(x) + Len(b) - m)
  <2>1. Len(all) = off + Len(x) + Len(bot)
    BY <1>4, <1>5
  <2>2. Len(bot) \in Nat /\ (m <= Len(b) => Len(bot) = Len(b) - m)
    BY <1>3
  <2> QED BY <1>1, <2>1, <2>2
<1>7. ASSUME NEW k \in 1..off PROVE all[k] = b[k]
  <2>1. k \in 1..(Len(front) + Len(bot)) /\ k <= Len(front)
    BY <1>1, <1>3, <1>4
  <2> QED BY <1>4, <1>5, <2>1
<1>8. ASSUME NEW k \in 1..Len(x) PROVE all[off + k] = x[k]
  <2>1. off + k \in 1..(Len(front) + Len(bot)) /\ off + k <= Len(front)
    BY <1>1, <1>3, <1>4
  <2> QED BY <1>4, <1>5, <2>1
<1>9. ASSUME NEW k \in 1..(Len(b) - m) PROVE all[off + Len(x) + k] = b[m + k]
  <2>1. k \in 1..Len(bot) /\ bot[k] = b[m + k]
    BY <1>3
  <2>2. /\ off + Len(x) + k \in 1..(Len(front) + Len(bot))
        /\ ~(off + Len(x) + k <= Len(front)) /\ off + Len(x) + k - Len(front) = k
    <3> DEFINE l == Len(bot)
               n == off + Len(x)
    <3>1. n \in Nat /\ l \in Nat /\ k \in 1..l
      BY <1>1, <1>3, <2>1
    <3> HIDE DEF l, n
    <3>2. n + k \in 1..(n + l) /\ ~(n + k <= n) /\ n + k - n = k
      BY <3>1
    <3> QED BY <1>4, <3>2 DEF l, n
  <2> QED BY <1>5, <2>1, <2>2
<1>10. Inserted(b, off, x, m) = all
  BY DEF Inserted, all, front, top, bot
<1>11. Spliced(all, b, off, x, m)
  BY <1>5, <1>6, <1>7, <1>8, <1>9 DEF Spliced
<1> QED BY <1>10, <1>11

\* An insertion at offset off keeps what stands before it.
LEMMA InsertKeeps ==
  ASSUME NEW b \in Seq(Char), NEW x \in Seq(Char), NEW off \in 0..Len(b), NEW m \in Nat
  PROVE  /\ Inserted(b, off, x, m) \in Seq(Char) /\ Len(Inserted(b, off, x, m)) >= off
         /\ \A k \in 1..off : Inserted(b, off, x, m)[k] = b[k]
<1> DEFINE all == Inserted(b, off, x, m)
<1>0. Spliced(all, b, off, x, m)
  BY InsertedParts
<1> HIDE DEF all
<1>1. /\ all \in Seq(Char) /\ Len(all) >= off + Len(x)
      /\ \A k \in 1..off : all[k] = b[k]
  BY <1>0 DEF Spliced
<1>2. Len(all) \in Nat /\ Len(x) \in Nat /\ Len(b) \in Nat
  BY <1>1, LenProperties
<1>3. Len(all) >= off
  BY <1>1, <1>2
<1> QED BY <1>1, <1>3 DEF all

\* The offset of a placeholder prints in one character or more.
LEMMA PrintedLenPositive ==
  ASSUME NEW n \in Nat
  PROVE  PrintedLen(n) \in Nat /\ PrintedLen(n) >= 1
<1>1. Digits(n) \in Seq(Char) /\ Len(Digits(n)) >= 1
  BY DigitsTyped
<1>2. Len(Digits(n)) \in Nat
  BY <1>1, LenProperties
<1> QED BY <1>1, <1>2 DEF PrintedLen

TextsTyped ==
  /\ text \in Seq(Char) /\ body \in Seq(Char)
  /\ args \in Seq(Seq(Char))
  /\ idx \in 0..Len(args)
  /\ done \in BOOLEAN

\* A round keeps the types and the prefix.
LEMMA RoundKeeps ==
  ASSUME TextsTyped, PrefixKept, Next
  PROVE  TextsTyped' /\ PrefixKept'
<1> DEFINE marks == {j \in 1..Len(text) : text[j] = "#"}
<1>0. Len(args) \in Nat /\ Len(text) \in Nat /\ Len(body) \in Nat
  BY LenProperties DEF TextsTyped
<1>1. CASE Return
  BY <1>1 DEF TextsTyped, PrefixKept, Return
<1>2. CASE Absent
  <2>1. TextsTyped'
    BY <1>0, <1>2 DEF TextsTyped, Absent
  <2>2. PrefixKept'
    BY <1>2 DEF PrefixKept, Absent
  <2> QED BY <2>1, <2>2
<1>3. CASE Insert
  <2>1. PICK off \in 0..Len(body) :
          /\ Find(body, Key(idx), off)
          /\ body' = SubSeq(body, 1, off) \o args[idx + 1]
                       \o Slag(off + PrintedLen(off) - 1, body)
    BY <1>3 DEF Insert
  <2>2. idx \in Nat /\ off \in Nat /\ idx + 1 \in 1..Len(args)
        /\ body \in Seq(Char) /\ args \in Seq(Seq(Char))
    BY <1>0, <1>3 DEF Insert, TextsTyped
  <2>3. args[idx + 1] \in Seq(Char)
    BY <2>2, ElementOfSeq
  <2>4. off + PrintedLen(off) - 1 \in Nat
    <3> DEFINE p == PrintedLen(off)
    <3>1. p \in Nat /\ p >= 1
      BY <2>2, PrintedLenPositive
    <3> HIDE DEF p
    <3>2. off + p - 1 \in Nat
      BY <2>2, <3>1
    <3> QED BY <3>2 DEF p
  <2>5. /\ body' \in Seq(Char) /\ Len(body') >= off
        /\ \A k \in 1..off : body'[k] = body[k]
    <3> DEFINE m == off + PrintedLen(off) - 1
    <3>1. body' = Inserted(body, off, args[idx + 1], m)
      BY <2>1 DEF Inserted
    <3> HIDE DEF m
    <3>2. m \in Nat
      BY <2>4 DEF m
    <3> QED BY <2>2, <2>3, <3>1, <3>2, InsertKeeps
  <2>6. off + 1 \in 1..Len(body) /\ body[off + 1] = "#"
    BY <2>1, <2>2, OccursMark DEF Find
  <2>7. UNCHANGED <<text, args, done>> /\ idx' = idx + 1
    BY <1>3 DEF Insert
  <2>8. TextsTyped'
    BY <1>0, <2>2, <2>5, <2>7 DEF TextsTyped
  <2>9. ASSUME NEW k \in 1..Len(text), \A j \in marks : k < j
        PROVE  Len(body') >= k /\ body'[k] = text[k]
    <3>1. Len(body) >= k /\ body[k] = text[k]
      BY <2>9 DEF PrefixKept
    <3>2. k <= off
      <4>1. SUFFICES ASSUME off + 1 <= k PROVE FALSE
        BY <1>0, <2>2
      <4>2. off + 1 \in 1..Len(text) /\ \A j \in marks : off + 1 < j
        BY <1>0, <2>2, <2>9, <4>1
      <4>3. body[off + 1] = text[off + 1]
        BY <4>2 DEF PrefixKept
      <4>4. off + 1 \in marks
        BY <2>6, <4>2, <4>3
      <4> QED BY <2>2, <4>2, <4>4
    <3>3. Len(body') \in Nat
      BY <2>5, LenProperties
    <3> QED BY <1>0, <2>2, <2>5, <3>1, <3>2, <3>3
  <2>10. PrefixKept'
    BY <2>7, <2>9 DEF PrefixKept
  <2> QED BY <2>8, <2>10
<1> QED BY <1>1, <1>2, <1>3 DEF Next

LEMMA UnchangedKeeps ==
  ASSUME TextsTyped, PrefixKept, UNCHANGED vars
  PROVE  TextsTyped' /\ PrefixKept'
BY DEF TextsTyped, PrefixKept, vars

LEMMA TextsStart ==
  ASSUME Init
  PROVE  TextsTyped /\ PrefixKept
<1>1. text \in Seq(Char) /\ args \in Seq(Seq(Char)) /\ body = text /\ idx = 0 /\ done = FALSE
  BY PreprocessAssumption DEF Init
<1>2. Len(args) \in Nat /\ Len(text) \in Nat
  BY <1>1, LenProperties
<1>3. TextsTyped
  <2>1. idx \in 0..Len(args)
    BY <1>1, <1>2
  <2> QED BY <1>1, <2>1 DEF TextsTyped
<1>4. PrefixKept
  <2> SUFFICES ASSUME NEW k \in 1..Len(text)
               PROVE  Len(body) >= k /\ body[k] = text[k]
    BY DEF PrefixKept
  <2> QED BY <1>1, <1>2
<1> QED BY <1>3, <1>4

\* However often and wherever arguments are inserted, the characters before the
\* first "#" of the program stay where they are.
THEOREM PreprocessPrefix == Spec => []PrefixKept
<1>1. TextsTyped /\ PrefixKept /\ [Next]_vars => TextsTyped' /\ PrefixKept'
  BY RoundKeeps, UnchangedKeeps
<1> QED BY <1>1, TextsStart, PTL DEF Spec

-----------------------------------------------------------------------------
(* Placeholders in the middle.                                             *)

\* The characters of the arguments so far, from the recursion that defines them.
LEMMA WidthUnfolds ==
  ASSUME args \in Seq(Seq(Char))
  PROVE  /\ Width \in [0..Len(args) -> Nat] /\ Width[0] = 0
         /\ \A n \in 1..Len(args) : Width[n] = Width[n - 1] + Len(args[n])
<1> DEFINE N == Len(args)
           step == [p \in (1..N) \X Nat |-> p[2] + Len(args[p[1]])]
           Unfolds(w) == w = [n \in 0..N |-> IF n = 0 THEN 0 ELSE w[n - 1] + Len(args[n])]
<1>1. N \in Nat /\ \A n \in 1..N : Len(args[n]) \in Nat
  BY LenProperties, ElementOfSeq
<1>2. step \in [(1..N) \X Nat -> Nat] /\ 0 \in Nat
  <2>1. ASSUME NEW p \in (1..N) \X Nat PROVE p[2] + Len(args[p[1]]) \in Nat
    BY <1>1
  <2> QED BY <2>1
<1> HIDE DEF N
<1>3. PICK f \in [0..N -> Nat] : Recurs(f, N, 0, step)
  <2> HIDE DEF step
  <2> QED BY <1>1, <1>2, Recursive
<1>4. ASSUME NEW n \in 1..N PROVE f[n] = f[n - 1] + Len(args[n])
  <2>1. n - 1 \in 0..N /\ <<n, f[n - 1]>> \in (1..N) \X Nat
    BY <1>1, <1>3
  <2> QED BY <1>3, <2>1 DEF Recurs
<1> HIDE DEF step
<1>5. Unfolds(f)
  <2>1. ASSUME NEW n \in 0..N PROVE n = 0 \/ n \in 1..N
    BY <1>1
  <2>2. ASSUME NEW n \in 0..N PROVE f[n] = IF n = 0 THEN 0 ELSE f[n - 1] + Len(args[n])
    BY <1>1, <1>3, <1>4, <2>1 DEF Recurs
  <2> QED BY <1>3, <2>2
<1>6. Unfolds(Width)
  <2>1. Width = CHOOSE w : Unfolds(w)
    BY DEF Width, N
  <2> HIDE DEF Unfolds
  <2> QED BY <1>5, <2>1
<1>7. /\ Width[0] = 0
      /\ \A n \in 1..N : Width[n] = Width[n - 1] + Len(args[n])
  BY <1>1, <1>6
<1>8. Width \in [0..N -> Nat]
  <2> DEFINE Bad == {n \in 0..N : Width[n] \notin Nat}
  <2>1. Bad = {}
    <3>1. SUFFICES ASSUME Bad # {} PROVE FALSE
      OBVIOUS
    <3>2. Bad \in SUBSET Nat
      BY <1>1
    <3>3. PICK n \in Bad : \A k \in Bad : n <= k
      BY <3>1, <3>2, LeastNat
    <3>4. n \in 1..N
      BY <1>1, <1>7, <3>3
    <3>5. n - 1 \in 0..N /\ ~(n <= n - 1)
      BY <1>1, <3>4
    <3>6. Width[n - 1] \in Nat
      BY <3>3, <3>5
    <3>7. Width[n] = Width[n - 1] + Len(args[n]) /\ Len(args[n]) \in Nat
      BY <1>1, <1>7, <3>4
    <3>8. Width[n] \in Nat
      BY <3>6, <3>7
    <3> QED BY <3>3, <3>8
  <2>2. \A n \in 0..N : Width[n] \in Nat
    BY <2>1
  <2>3. Width = [n \in 0..N |-> IF n = 0 THEN 0 ELSE Width[n - 1] + Len(args[n])]
    BY <1>6
  <2> DEFINE W == Width
  <2>4. \E w : W = [n \in 0..N |-> w[n]]
    <3> DEFINE w == [n \in 0..N |-> IF n = 0 THEN 0 ELSE Width[n - 1] + Len(args[n])]
    <3>1. W = [n \in 0..N |-> w[n]]
      BY <2>3
    <3> QED BY <3>1
  <2> HIDE DEF W
  <2>5. \A n \in 0..N : W[n] \in Nat
    BY <2>2 DEF W
  <2>6. W \in [0..N -> Nat]
    BY <2>4, <2>5
  <2> QED BY <2>6 DEF W
<1> QED BY <1>7, <1>8 DEF N

\* No prefix of the arguments is wider than all of them.
LEMMA WidthBound ==
  ASSUME args \in Seq(Seq(Char)), NEW n \in 0..Len(args)
  PROVE  Width[n] <= Width[Len(args)]
<1> DEFINE N == Len(args)
           Bad == {d \in 0..N : ~(Width[N - d] <= Width[N])}
<1>1. N \in Nat /\ \A k \in 1..N : Len(args[k]) \in Nat
  BY LenProperties, ElementOfSeq
<1>2. /\ Width \in [0..N -> Nat]
      /\ \A k \in 1..N : Width[k] = Width[k - 1] + Len(args[k])
  BY WidthUnfolds
<1>3. Bad = {}
  <2>1. SUFFICES ASSUME Bad # {} PROVE FALSE
    OBVIOUS
  <2> HIDE DEF N
  <2>2. Bad \in SUBSET Nat
    BY <1>1
  <2>3. PICK d \in Bad : \A e \in Bad : d <= e
    BY <2>1, <2>2, LeastNat
  <2>4. d # 0
    <3>1. Width[N] \in Nat /\ N - 0 = N
      BY <1>1, <1>2
    <3> QED BY <2>3, <3>1
  <2>5. d - 1 \in 0..N /\ ~(d <= d - 1) /\ N - d + 1 \in 1..N /\ N - (d - 1) = N - d + 1
    BY <1>1, <2>3, <2>4
  <2>6. Width[N - d + 1] <= Width[N]
    BY <2>3, <2>5
  <2>7. Width[N - d + 1] = Width[N - d] + Len(args[N - d + 1]) /\ Len(args[N - d + 1]) \in Nat
    <3>1. N - d + 1 - 1 = N - d
      BY <1>1, <2>3
    <3> QED BY <1>1, <1>2, <2>5, <3>1
  <2>8. Width[N - d] \in Nat /\ Width[N] \in Nat
    BY <1>1, <1>2, <2>3
  <2>9. Width[N - d] <= Width[N]
    <3> DEFINE a == Width[N - d]
               b == Width[N]
    <3> HIDE DEF a, b
    <3>1. a + Len(args[N - d + 1]) <= b
      BY <2>6, <2>7 DEF a, b
    <3>2. a <= b
      BY <2>7, <2>8, <3>1 DEF a, b
    <3> QED BY <3>2 DEF a, b
  <2> QED BY <2>3, <2>9
<1>4. N - n \in 0..N /\ N - (N - n) = n
  BY <1>1
<1> QED BY <1>3, <1>4

\* There is at most one first occurrence.
LEMMA FindOnce ==
  ASSUME NEW b, NEW key, NEW o1 \in Nat, NEW o2 \in Nat, Find(b, key, o1), Find(b, key, o2)
  PROVE  o1 = o2
BY DEF Find

\* What an argument replaces is one occurrence, and the text is left where there is none.
LEMMA ReplacedFound ==
  ASSUME NEW b, Len(b) \in Nat, NEW i \in Nat, NEW off \in 0..Len(b), Find(b, Key(i), off)
  PROVE  Replaced(b, i) = Inserted(b, off, args[i + 1], off + Len(Key(i)))
<1> DEFINE at == {o \in 0..Len(b) : Find(b, Key(i), o)}
<1>1. off \in at /\ \A o \in at : o \in Nat
  OBVIOUS
<1>2. \A o \in at : o = off
  BY <1>1, FindOnce
<1>3. (CHOOSE o \in at : TRUE) = off
  BY <1>1, <1>2
<1>4. Replaced(b, i) = IF at = {} THEN b
                       ELSE SubSeq(b, 1, CHOOSE o \in at : TRUE) \o args[i + 1]
                              \o Slag((CHOOSE o \in at : TRUE) + Len(Key(i)), b)
  BY DEF Replaced
<1> HIDE DEF at
<1> QED BY <1>1, <1>3, <1>4 DEF Inserted

LEMMA ReplacedAbsent ==
  ASSUME NEW b, NEW i, ~\E off \in 0..Len(b) : Occurs(b, off, Key(i))
  PROVE  Replaced(b, i) = b
BY DEF Replaced, Find

LEMMA ReplacedTyped ==
  ASSUME args \in Seq(Seq(Char)), NEW b \in Seq(Char), NEW i \in 0..(Len(args) - 1)
  PROVE  Replaced(b, i) \in Seq(Char)
<1>1. Len(b) \in Nat /\ i \in Nat /\ i + 1 \in 1..Len(args)
  BY LenProperties
<1>2. args[i + 1] \in Seq(Char)
  BY <1>1, ElementOfSeq
<1>3. CASE \E off \in 0..Len(b) : Find(b, Key(i), off)
  <2>1. PICK off \in 0..Len(b) : Find(b, Key(i), off)
    BY <1>3
  <2>2. off + Len(Key(i)) \in Nat
    BY <1>1, KeyMark
  <2>3. Replaced(b, i) = Inserted(b, off, args[i + 1], off + Len(Key(i)))
    BY <1>1, <2>1, ReplacedFound
  <2> DEFINE m == off + Len(Key(i))
  <2> HIDE DEF m
  <2>4. Inserted(b, off, args[i + 1], m) \in Seq(Char)
    BY <1>2, <2>2, InsertKeeps DEF m
  <2> QED BY <2>3, <2>4 DEF m
<1>4. CASE ~\E off \in 0..Len(b) : Find(b, Key(i), off)
  BY <1>4 DEF Replaced
<1> QED BY <1>3, <1>4

\* The text after so many arguments, from the recursion that defines it.
LEMMA AfterUnfolds ==
  ASSUME TextsTyped
  PROVE  /\ After[0] = text
         /\ \A n \in 1..Len(args) : After[n] = Replaced(After[n - 1], n - 1)
<1> DEFINE N == Len(args)
           step == [p \in (1..N) \X Seq(Char) |-> Replaced(p[2], p[1] - 1)]
           Unfolds(a) == a = [n \in 0..N |-> IF n = 0 THEN text ELSE Replaced(a[n - 1], n - 1)]
<1>1. N \in Nat /\ args \in Seq(Seq(Char)) /\ text \in Seq(Char)
  BY LenProperties DEF TextsTyped
<1>2. step \in [(1..N) \X Seq(Char) -> Seq(Char)]
  <2>1. ASSUME NEW p \in (1..N) \X Seq(Char) PROVE Replaced(p[2], p[1] - 1) \in Seq(Char)
    <3>1. p[2] \in Seq(Char) /\ p[1] - 1 \in 0..(N - 1)
      BY <1>1
    <3> QED BY <1>1, <3>1, ReplacedTyped
  <2> QED BY <2>1
<1> HIDE DEF N
<1>3. PICK f \in [0..N -> Seq(Char)] : Recurs(f, N, text, step)
  <2> HIDE DEF step
  <2> QED BY <1>1, <1>2, Recursive
<1>4. ASSUME NEW n \in 1..N PROVE f[n] = Replaced(f[n - 1], n - 1)
  <2>1. n - 1 \in 0..N /\ <<n, f[n - 1]>> \in (1..N) \X Seq(Char)
    BY <1>1, <1>3
  <2> QED BY <1>3, <2>1 DEF Recurs
<1> HIDE DEF step
<1>5. Unfolds(f)
  <2>1. ASSUME NEW n \in 0..N PROVE n = 0 \/ n \in 1..N
    BY <1>1
  <2>2. ASSUME NEW n \in 0..N
        PROVE  f[n] = IF n = 0 THEN text ELSE Replaced(f[n - 1], n - 1)
    BY <1>1, <1>3, <1>4, <2>1 DEF Recurs
  <2> QED BY <1>3, <2>2
<1>6. Unfolds(After)
  <2>1. After = CHOOSE a : Unfolds(a)
    BY DEF After, N
  <2> HIDE DEF Unfolds
  <2> QED BY <1>5, <2>1
<1>7. After[0] = text /\ \A n \in 1..N : After[n] = Replaced(After[n - 1], n - 1)
  BY <1>1, <1>6
<1> QED BY <1>7 DEF N

\* The inductive invariant of SubstitutedMiddle: the text so far is what is meant
\* after as many arguments, and every "#" of it has room for the arguments to come.
Sized == Middle(text, Width[Len(args)]) /\ Len(args) <= 10
MiddleInv ==
  /\ done => idx = Len(args)
  /\ \A i \in 1..Len(args) : \A k \in 1..Len(args[i]) : args[i][k] # "#"
  /\ Sized => body = After[idx] /\ Middle(body, Width[Len(args)] - Width[idx])

\* A "#" behind a placeholder of two characters moves by less than the argument is
\* long, and does not come before the placeholder.
LEMMA InsertedMiddle ==
  ASSUME NEW b \in Seq(Char), NEW x \in Seq(Char), \A k \in 1..Len(x) : x[k] # "#",
         NEW off \in Nat, off + 2 <= Len(b), b[off + 1] = "#",
         NEW room \in Nat, Middle(b, room + Len(x))
  PROVE  Middle(Inserted(b, off, x, off + 2), room)
<1> DEFINE c == Inserted(b, off, x, off + 2)
           m == off + 2
<1>1. Len(b) \in Nat /\ Len(x) \in Nat /\ off \in 0..Len(b) /\ m \in Nat /\ m <= Len(b)
  BY LenProperties
<1> HIDE DEF m
<1>2. /\ Len(c) = off + Len(x) + Len(b) - m
      /\ \A k \in 1..off : c[k] = b[k]
      /\ \A k \in 1..Len(x) : c[off + k] = x[k]
      /\ \A k \in 1..(Len(b) - m) : c[off + Len(x) + k] = b[m + k]
  <2>1. Spliced(c, b, off, x, m)
    <3>1. Spliced(Inserted(b, off, x, m), b, off, x, m)
      BY <1>1, InsertedParts
    <3> QED BY <3>1 DEF m
  <2> HIDE DEF c
  <2> QED BY <1>1, <2>1 DEF Spliced
<1> HIDE DEF c
<1> USE DEF m
<1>3. \A o \in 0..(Len(b) - 1) : b[o + 1] = "#" => o \in 100..(999 - (room + Len(x)))
  BY DEF Middle
<1>4. off \in 100..999
  BY <1>1, <1>3
<1> SUFFICES ASSUME NEW o \in 0..(Len(c) - 1), c[o + 1] = "#"
             PROVE  o \in 100..(999 - room)
  BY DEF Middle, c
<1>5. CASE o + 1 <= off
  <2>1. o \in 0..(Len(b) - 1) /\ b[o + 1] = "#"
    BY <1>1, <1>2, <1>5
  <2> QED BY <1>1, <1>3, <2>1
<1>6. CASE off < o + 1 /\ o + 1 <= off + Len(x)
  <2> DEFINE k == o + 1 - off
  <2>1. k \in 1..Len(x) /\ off + k = o + 1
    BY <1>1, <1>2, <1>6
  <2> HIDE DEF k
  <2>2. c[off + k] = x[k] /\ x[k] # "#"
    BY <1>2, <2>1
  <2> QED BY <2>1, <2>2
<1>7. CASE off + Len(x) < o + 1
  <2> DEFINE k == o + 1 - off - Len(x)
  <2>1. k \in 1..(Len(b) - m) /\ off + Len(x) + k = o + 1
    BY <1>1, <1>2, <1>7
  <2>2. c[o + 1] = b[m + k]
    BY <1>2, <2>1
  <2>3. m + k - 1 \in 0..(Len(b) - 1) /\ m + k - 1 + 1 = m + k
    BY <1>1, <2>1
  <2>4. m + k - 1 \in 100..(999 - (room + Len(x)))
    <3> DEFINE j == m + k - 1
    <3>1. j \in 0..(Len(b) - 1) /\ b[j + 1] = "#"
      BY <2>2, <2>3
    <3> HIDE DEF j
    <3>2. j \in 100..(999 - (room + Len(x)))
      BY <1>3, <3>1
    <3> QED BY <3>2 DEF j
  <2> QED BY <1>1, <1>4, <1>7, <2>4
<1> QED BY <1>1, <1>2, <1>5, <1>6, <1>7

\* A round keeps the text so far what is meant.
LEMMA MiddleKeeps ==
  ASSUME TextsTyped, MiddleInv, Next
  PROVE  MiddleInv'
<1>0. /\ Len(args) \in Nat /\ Len(text) \in Nat /\ Len(body) \in Nat /\ idx \in Nat
      /\ args \in Seq(Seq(Char)) /\ body \in Seq(Char)
  BY LenProperties DEF TextsTyped
<1>1. text' = text /\ args' = args
  BY DEF Next, Return, Absent, Insert
<1>2. Sized' = Sized /\ After' = After /\ Width' = Width
  BY <1>1 DEF Sized, Middle, After, Width, Replaced
<1>3. /\ Width \in [0..Len(args) -> Nat]
      /\ \A n \in 1..Len(args) : Width[n] = Width[n - 1] + Len(args[n])
  BY <1>0, WidthUnfolds
<1>4. CASE Return
  <2>1. body' = body /\ idx' = idx /\ idx = Len(args)
    BY <1>4 DEF Return
  <2> QED BY <1>1, <1>2, <2>1 DEF MiddleInv, Middle
<1>5. ASSUME idx < Len(args), idx' = idx + 1, done' = done, ~done,
             Sized => body' = After[idx'] /\ Middle(body', Width[Len(args)] - Width[idx'])
      PROVE  MiddleInv'
  <2>1. (Sized => body = After[idx] /\ Middle(body, Width[Len(args)] - Width[idx]))'
    BY <1>1, <1>2, <1>5 DEF Middle
  <2> QED BY <1>1, <1>5, <2>1 DEF MiddleInv
<1>6. ASSUME idx < Len(args), Sized, idx' = idx + 1
      PROVE  /\ body = After[idx] /\ After[idx'] = Replaced(body, idx)
             /\ Middle(body, Width[Len(args)] - Width[idx'] + Len(args[idx + 1]))
             /\ Width[Len(args)] - Width[idx'] \in Nat /\ idx \in 0..9
             /\ idx + 1 \in 1..Len(args) /\ Len(args[idx + 1]) \in Nat
  <2>1. body = After[idx] /\ Middle(body, Width[Len(args)] - Width[idx])
    BY <1>6 DEF MiddleInv
  <2>2. idx + 1 \in 1..Len(args) /\ idx + 1 - 1 = idx
    BY <1>0, <1>6
  <2>3. After[idx'] = Replaced(body, idx)
    <3>1. After[idx + 1] = Replaced(After[idx], idx)
      <4> DEFINE n == idx + 1
      <4>1. n \in 1..Len(args) /\ n - 1 = idx
        BY <1>0, <1>6
      <4> HIDE DEF n
      <4>2. After[n] = Replaced(After[n - 1], n - 1)
        BY <4>1, AfterUnfolds
      <4> QED BY <4>1, <4>2 DEF n
    <3> QED BY <1>6, <2>1, <3>1
  <2>4. Width[idx + 1] = Width[idx] + Len(args[idx + 1]) /\ Len(args[idx + 1]) \in Nat
    BY <1>0, <1>3, <2>2, ElementOfSeq, LenProperties
  <2>5. Width[idx] \in Nat /\ Width[idx + 1] \in Nat /\ Width[Len(args)] \in Nat
    <3>1. idx \in 0..Len(args) /\ idx + 1 \in 0..Len(args) /\ Len(args) \in 0..Len(args)
      BY <1>0, <1>6
    <3> QED BY <1>3, <3>1
  <2>6. Width[idx + 1] <= Width[Len(args)]
    BY <1>0, <2>2, WidthBound
  <2> DEFINE w == Width[Len(args)]
             v == Width[idx]
             u == Width[idx + 1]
             l == Len(args[idx + 1])
  <2> HIDE DEF w, v, u, l
  <2>7. u = v + l /\ l \in Nat /\ v \in Nat /\ u \in Nat /\ w \in Nat /\ u <= w
    BY <2>4, <2>5, <2>6 DEF w, v, u, l
  <2>8. w - u \in Nat /\ w - u + l = w - v
    BY <2>7
  <2>9. Width[Len(args)] - Width[idx'] \in Nat
        /\ Width[Len(args)] - Width[idx'] + Len(args[idx + 1]) = Width[Len(args)] - Width[idx]
    BY <1>6, <2>8 DEF w, v, u, l
  <2>10. idx \in 0..9
    BY <1>0, <1>6 DEF Sized
  <2> QED BY <2>1, <2>2, <2>3, <2>4, <2>9, <2>10
<1>7. CASE Absent
  <2>1. /\ idx < Len(args) /\ idx' = idx + 1 /\ done' = done /\ ~done /\ body' = body
        /\ ~\E off \in 0..Len(body) : Occurs(body, off, Key(idx))
    BY <1>7 DEF Absent
  <2>2. ASSUME Sized
        PROVE  body' = After[idx'] /\ Middle(body', Width[Len(args)] - Width[idx'])
    <3> DEFINE room == Width[Len(args)] - Width[idx']
               l == Len(args[idx + 1])
    <3>1. After[idx'] = body
      BY <1>6, <2>1, <2>2, ReplacedAbsent
    <3>2. Middle(body, room + l) /\ room \in Nat /\ l \in Nat
      BY <1>6, <2>1, <2>2
    <3> HIDE DEF room, l
    <3>3. Middle(body, room)
      BY <1>0, <3>2 DEF Middle
    <3> QED BY <2>1, <3>1, <3>3 DEF room
  <2> QED BY <1>5, <2>1, <2>2
<1>8. CASE Insert
  <2>1. /\ idx < Len(args) /\ idx' = idx + 1 /\ done' = done /\ ~done
        /\ \E off \in 0..Len(body) :
              /\ Find(body, Key(idx), off)
              /\ body' = SubSeq(body, 1, off) \o args[idx + 1]
                           \o Slag(off + PrintedLen(off) - 1, body)
    BY <1>8 DEF Insert
  <2>2. PICK off \in 0..Len(body) :
          /\ Find(body, Key(idx), off)
          /\ body' = SubSeq(body, 1, off) \o args[idx + 1]
                       \o Slag(off + PrintedLen(off) - 1, body)
    BY <2>1
  <2>3. ASSUME Sized
        PROVE  body' = After[idx'] /\ Middle(body', Width[Len(args)] - Width[idx'])
    <3> DEFINE room == Width[Len(args)] - Width[idx']
               x == args[idx + 1]
    <3>1. /\ After[idx'] = Replaced(body, idx) /\ idx \in 0..9 /\ idx + 1 \in 1..Len(args)
          /\ Middle(body, room + Len(x)) /\ room \in Nat /\ Len(x) \in Nat
      BY <1>6, <2>1, <2>3
    <3>2. Len(Key(idx)) = 2
      BY <3>1, KeyOfTwo
    <3>3. off + 1 \in 1..Len(body) /\ body[off + 1] = "#" /\ off \in Nat
      BY <1>0, <2>2, OccursMark DEF Find
    <3>4. off + 2 <= Len(body)
      BY <2>2, <3>2 DEF Find, Occurs
    <3>5. off \in 100..999
      <4> DEFINE l == Len(x)
      <4>1. Middle(body, room + l) /\ room \in Nat /\ l \in Nat
        BY <3>1
      <4>2. off \in 0..(Len(body) - 1)
        BY <1>0, <3>3
      <4> HIDE DEF room, x, l
      <4>3. off \in 100..(999 - (room + l))
        BY <3>3, <4>1, <4>2 DEF Middle
      <4>4. off <= 999
        BY <4>1, <4>3
      <4> QED BY <4>3, <4>4
    <3>6. off + PrintedLen(off) - 1 = off + 2
      BY <3>3, <3>5, CutOfTwo
    <3>7. body' = Inserted(body, off, x, off + 2)
      BY <2>2, <3>6 DEF Inserted
    <3>8. Replaced(body, idx) = Inserted(body, off, x, off + 2)
      BY <1>0, <2>2, <3>2, ReplacedFound
    <3>9. x \in Seq(Char) /\ \A k \in 1..Len(x) : x[k] # "#"
      BY <1>0, <3>1, ElementOfSeq DEF MiddleInv
    <3> HIDE DEF room, x
    <3>10. Middle(Inserted(body, off, x, off + 2), room)
      BY <1>0, <3>1, <3>3, <3>4, <3>9, InsertedMiddle
    <3> QED BY <3>1, <3>7, <3>8, <3>10 DEF room
  <2> QED BY <1>5, <2>1, <2>3
<1> QED BY <1>4, <1>7, <1>8 DEF Next

LEMMA MiddleStays ==
  ASSUME MiddleInv, UNCHANGED vars
  PROVE  MiddleInv'
<1>1. text' = text /\ args' = args /\ body' = body /\ idx' = idx /\ done' = done
  BY DEF vars
<1>2. Sized' = Sized /\ After' = After /\ Width' = Width
  BY <1>1 DEF Sized, Middle, After, Width, Replaced
<1> QED BY <1>1, <1>2 DEF MiddleInv, Middle

\* It holds before the first round.
Fresh ==
  /\ TextsTyped /\ body = text /\ idx = 0 /\ ~done
  /\ \A i \in 1..Len(args) : \A k \in 1..Len(args[i]) : args[i][k] # "#"

LEMMA MiddleStarts == Fresh => MiddleInv
<1> SUFFICES ASSUME Fresh PROVE MiddleInv
  OBVIOUS
<1>1. After[0] = text
  BY AfterUnfolds DEF Fresh
<1>2. Width \in [0..Len(args) -> Nat] /\ Width[0] = 0 /\ Len(args) \in Nat
  BY WidthUnfolds, LenProperties DEF Fresh, TextsTyped
<1>3. Width[Len(args)] - Width[0] = Width[Len(args)]
  BY <1>2
<1> QED BY <1>1, <1>3 DEF Fresh, MiddleInv, Sized

LEMMA MiddleMeans == MiddleInv => SubstitutedMiddle
BY DEF MiddleInv, Sized, SubstitutedMiddle, Substituted

\* For every program in which the placeholders are where offsets print with three
\* digits, and stay there, and at most ten arguments, the result is what is meant.
THEOREM PreprocessMiddle == Spec => []SubstitutedMiddle
<1>1. Init => TextsTyped /\ PrefixKept /\ MiddleInv
  <2>1. ASSUME Init PROVE MiddleInv
    <3>1. Fresh
      BY <2>1, TextsStart, PreprocessAssumption DEF Init, Fresh
    <3> QED BY <3>1, MiddleStarts
  <2> QED BY <2>1, TextsStart
<1>2. TextsTyped /\ PrefixKept /\ MiddleInv /\ [Next]_vars
      => TextsTyped' /\ PrefixKept' /\ MiddleInv'
  BY RoundKeeps, UnchangedKeeps, MiddleKeeps, MiddleStays
<1> QED BY <1>1, <1>2, MiddleMeans, PTL DEF Spec
=============================================================================
