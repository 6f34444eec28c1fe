---------------------------- MODULE FormatsProofs ----------------------------
(***************************************************************************)
(* Proofs about EscposLayout and EnvNumbers: the numbers of the            *)
(* environment, the width of a row, and the modes every line is printed    *)
(* in, for all widths of columns and types, and all texts.                 *)
(*                                                                         *)
(* The models recurse over the characters of texts, the digits of numbers  *)
(* and the items of a receipt; so first comes an induction principle.      *)
(***************************************************************************)
EXTENDS EscposLayout, EnvNumbers, SequenceTheorems, FiniteSetTheorems, WellFoundedInduction, TLAPS

-----------------------------------------------------------------------------
(* Induction.  The library's induction theorems have an operator as their  *)
(* parameter; here a set of numbers takes its place, and the principle     *)
(* follows from the smallest element of its complement.                    *)

\* Every set of naturals has a smallest element.
LEMMA Smallest ==
  ASSUME NEW T \in SUBSET Nat, T # {}
  PROVE  \E n \in T : \A m \in T : n <= m
<1>1. PICK n \in T : \A m \in T : ~ (<<m, n>> \in OpToRel(<, Nat))
  BY NatLessThanWellFounded, WFMin
<1>2. \A m \in T : ~ (m < n)
  BY <1>1 DEF OpToRel
<1> QED
  BY <1>2

\* Induction up to a bound.
LEMMA InductTo ==
  ASSUME NEW S, NEW n \in Nat, 0 \in S, \A k \in 0 .. n - 1 : k \in S => k + 1 \in S
  PROVE  \A k \in 0 .. n : k \in S
<1> SUFFICES ASSUME NEW j \in 0 .. n, j \notin S PROVE FALSE
  OBVIOUS
<1> DEFINE T == {k \in 0 .. n : k \notin S}
<1>1. PICK k \in T : \A m \in T : k <= m
  <2>1. T \in SUBSET Nat /\ T # {}
    OBVIOUS
  <2> HIDE DEF T
  <2> QED
    BY <2>1, Smallest
<1>2. k \in 1 .. n
  BY <1>1
<1>3. k - 1 \in 0 .. n - 1 /\ k - 1 \notin T
  BY <1>1, <1>2
<1> QED
  BY <1>1, <1>2, <1>3

\* The same for the values of a function.
LEMMA InductRun ==
  ASSUME NEW n \in Nat, NEW A, NEW f, f[0] \in A, \A k \in 1 .. n : f[k - 1] \in A => f[k] \in A
  PROVE  \A k \in 0 .. n : f[k] \in A
<1> DEFINE S == {k \in 0 .. n : f[k] \in A}
<1>1. ASSUME NEW k \in 0 .. n - 1, k \in S PROVE k + 1 \in S
  <2>1. k + 1 \in 1 .. n /\ (k + 1) - 1 = k
    OBVIOUS
  <2> QED
    BY <1>1, <2>1
<1>2. 0 \in S
  OBVIOUS
<1> HIDE DEF S
<1> QED
  BY <1>1, <1>2, InductTo DEF S

\* h begins with a, and what g makes of a value and the next number is the
\* next value, up to the n-th.
Runs(h, a, g, n) == h[0] = a /\ \A k \in 1 .. n : h[k] = g[<<h[k - 1], k>>]

\* A recursion over 0 .. n has a solution.
LEMMA RunExists ==
  ASSUME NEW n \in Nat, NEW A, NEW a \in A, NEW g \in [A \X (1 .. n) -> A]
  PROVE  \E h \in [0 .. n -> A] : Runs(h, a, g, n)
<1> DEFINE S == {m \in 0 .. n : \E h \in [0 .. m -> A] : Runs(h, a, g, m)}
<1>1. 0 \in S
  <2>1. [k \in 0 .. 0 |-> a] \in [0 .. 0 -> A] /\ [k \in 0 .. 0 |-> a][0] = a
    OBVIOUS
  <2>2. \A k : k \notin 1 .. 0
    OBVIOUS
  <2>3. Runs([k \in 0 .. 0 |-> a], a, g, 0)
    BY <2>1, <2>2 DEF Runs
  <2> QED
    BY <2>1, <2>3
<1>2. ASSUME NEW m \in 0 .. n - 1, m \in S PROVE m + 1 \in S
  <2>0. m \in Nat /\ m + 1 \in 1 .. n
    OBVIOUS
  <2>1. PICK h \in [0 .. m -> A] : Runs(h, a, g, m)
    BY <1>2
  <2>2. <<h[m], m + 1>> \in A \X (1 .. n)
    BY <2>0
  <2> DEFINE d == g[<<h[m], m + 1>>]
             i == [k \in 0 .. m + 1 |-> IF k = m + 1 THEN d ELSE h[k]]
  <2>3. d \in A
    BY <2>2
  <2> HIDE DEF d
  <2>4. i \in [0 .. m + 1 -> A]
    BY <2>0, <2>3
  <2>5. i[0] = a
    BY <2>0, <2>1 DEF Runs
  <2>6. ASSUME NEW k \in 1 .. m + 1 PROVE i[k] = g[<<i[k - 1], k>>]
    <3>1. CASE k = m + 1
      <4>1. i[k] = d /\ i[k - 1] = h[m]
        BY <2>0, <3>1
      <4> QED
        BY <3>1, <4>1 DEF d
    <3>2. CASE k # m + 1
      <4>1. k \in 1 .. m /\ i[k] = h[k] /\ i[k - 1] = h[k - 1]
        BY <2>0, <3>2
      <4> QED
        BY <2>1, <4>1 DEF Runs
    <3> QED
      BY <3>1, <3>2
  <2>7. Runs(i, a, g, m + 1)
    BY <2>5, <2>6 DEF Runs
  <2> QED
    BY <2>0, <2>4, <2>7
<1> HIDE DEF S
<1>3. n \in S
  BY <1>1, <1>2, InductTo
<1> QED
  BY <1>3 DEF S

-----------------------------------------------------------------------------
(* The numbers of the environment.                                         *)

\* A number of the type stays what it is.
LEMMA NoWrap ==
  ASSUME NEW max \in Nat, NEW n \in 0 .. max
  PROVE  Wrap(n, max) = n
<1>1. n + max + 1 \in 0 .. 2 * (max + 1) - 1
  OBVIOUS
<1>2. (n + max + 1) % (2 * (max + 1)) = n + max + 1
  BY <1>1
<1> QED
  BY <1>2 DEF Wrap

\* Wrapping stays within the type.
LEMMA WrapType == ASSUME NEW max \in Nat, NEW n \in Int PROVE Wrap(n, max) \in Int
BY DEF Wrap

\* The digits of a raw value, and nothing else.
LEMMA Digits ==
  ASSUME NEW raw \in Seq(0 .. 9 \cup {Other}), ~Invalid(raw)
  PROVE  Len(raw) \in Nat /\ \A k \in 1 .. Len(raw) : raw[k] \in 0 .. 9
<1>1. Len(raw) \in Nat /\ \A k \in 1 .. Len(raw) : raw[k] \in 0 .. 9 \cup {Other}
  BY ElementOfSeq, LenProperties
<1> QED
  BY <1>1 DEF Invalid, Contains

\* Another digit makes the number no smaller.
LEMMA NextNumber == ASSUME NEW a \in Nat, NEW d \in 0 .. 9 PROVE a * 10 + d \in Nat /\ a <= a * 10 + d
OBVIOUS

\* The numbers that the first digits stand for, up to n of them.
LEMMA MeantRuns ==
  ASSUME NEW raw, NEW n \in Nat, Len(raw) = n, \A k \in 1 .. n : raw[k] \in 0 .. 9
  PROVE  \E m \in [0 .. n -> Nat] :
           /\ m[0] = 0 /\ \A k \in 1 .. n : m[k] = m[k - 1] * 10 + raw[k]
           /\ Meant(raw) = m[n]
<1> DEFINE g == [p \in Nat \X (1 .. n) |-> p[1] * 10 + raw[p[2]]]
           F(h) == [k \in 0 .. n |-> IF k = 0 THEN 0 ELSE h[k - 1] * 10 + raw[k]]
           f == CHOOSE h : h = F(h)
<1>1. g \in [Nat \X (1 .. n) -> Nat]
  OBVIOUS
<1>2. PICK h \in [0 .. n -> Nat] : Runs(h, 0, g, n)
  <2> HIDE DEF g
  <2> QED
    BY <1>1, RunExists
<1>3. ASSUME NEW k \in 1 .. n PROVE h[k] = h[k - 1] * 10 + raw[k]
  <2>1. <<h[k - 1], k>> \in Nat \X (1 .. n)
    OBVIOUS
  <2> QED
    BY <1>2, <2>1 DEF Runs
<1>4. h = F(h)
  BY <1>2, <1>3 DEF Runs
<1>5. f = F(f)
  BY <1>4
<1> HIDE DEF f
<1>6. f[0] = 0 /\ \A k \in 1 .. n : f[k] = f[k - 1] * 10 + raw[k]
  BY <1>5
<1>7. ASSUME NEW k \in 1 .. n, f[k - 1] \in Nat PROVE f[k] \in Nat
  BY <1>6, <1>7, NextNumber, Zenon
<1>8. \A k \in 0 .. n : f[k] \in Nat
  <2>1. f[0] \in Nat
    BY <1>6
  <2> QED
    BY <1>7, <2>1, InductRun, Zenon
<1>9. f \in [0 .. n -> Nat]
  BY <1>5, <1>8
<1>10. Meant(raw) = f[n]
  BY DEF Meant, f
<1> QED
  BY <1>6, <1>9, <1>10

\* What the code makes of them.
LEMMA AccumulateRuns ==
  ASSUME NEW raw, NEW n \in Nat, Len(raw) = n, \A k \in 1 .. n : raw[k] \in 0 .. 9
  PROVE  \E a \in [0 .. n -> Int] :
           /\ a[0] = 0 /\ \A k \in 1 .. n : a[k] = Wrap(a[k - 1] * 10 + raw[k], MaxInt)
           /\ Accumulate(raw) = a[n]
<1> DEFINE g == [p \in Int \X (1 .. n) |-> Wrap(p[1] * 10 + raw[p[2]], MaxInt)]
           F(h) == [k \in 0 .. n |-> IF k = 0 THEN 0 ELSE Wrap(h[k - 1] * 10 + raw[k], MaxInt)]
           f == CHOOSE h : h = F(h)
<1>0. ASSUME NEW i \in Int, NEW k \in 1 .. n PROVE Wrap(i * 10 + raw[k], MaxInt) \in Int
  <2>1. i * 10 + raw[k] \in Int
    <3> HIDE DEF g, F, f
    <3>1. raw[k] \in 0 .. 9
      BY Zenon
    <3>2. \A d \in 0 .. 9 : i * 10 + d \in Int
      OBVIOUS
    <3> QED
      BY <3>1, <3>2, Zenon
  <2>2. MaxInt \in Nat
    BY NumbersAssumption DEF NumbersAssumption
  <2> QED
    BY <2>1, <2>2, WrapType, Zenon
<1>1. g \in [Int \X (1 .. n) -> Int]
  BY <1>0
<1>2. PICK h \in [0 .. n -> Int] : Runs(h, 0, g, n)
  <2> HIDE DEF g
  <2>1. 0 \in Int
    OBVIOUS
  <2> QED
    BY <1>1, <2>1, RunExists
<1>3. ASSUME NEW k \in 1 .. n PROVE h[k] = Wrap(h[k - 1] * 10 + raw[k], MaxInt)
  <2>1. <<h[k - 1], k>> \in Int \X (1 .. n)
    OBVIOUS
  <2> QED
    BY <1>2, <2>1 DEF Runs
<1>4. h = F(h)
  BY <1>2, <1>3 DEF Runs
<1>5. f = F(f)
  BY <1>4
<1> HIDE DEF f
<1>6. f[0] = 0 /\ \A k \in 1 .. n : f[k] = Wrap(f[k - 1] * 10 + raw[k], MaxInt)
  BY <1>5
<1>7. \A k \in 0 .. n : f[k] \in Int
  <2>1. f[0] \in Int
    BY <1>6
  <2>2. \A k \in 1 .. n : f[k - 1] \in Int => f[k] \in Int
    BY <1>0, <1>6, Zenon
  <2> QED
    BY <2>1, <2>2, InductRun, Zenon
<1>8. f \in [0 .. n -> Int]
  BY <1>5, <1>7
<1>9. Accumulate(raw) = f[n]
  BY DEF Accumulate, f
<1> QED
  BY <1>6, <1>8, <1>9

\* Digits whose number fits into an int are read as that number.
LEMMA ReadAsMeant ==
  ASSUME NEW raw \in Seq(0 .. 9 \cup {Other}), ~Invalid(raw)
  PROVE  /\ Meant(raw) \in Nat /\ Accumulate(raw) \in Int
         /\ Meant(raw) <= MaxInt => Accumulate(raw) = Meant(raw)
<1> DEFINE n == Len(raw)
<1>1. n \in Nat /\ \A k \in 1 .. n : raw[k] \in 0 .. 9
  BY Digits
<1> HIDE DEF n
<1>2. PICK m \in [0 .. n -> Nat] :
        /\ m[0] = 0 /\ \A k \in 1 .. n : m[k] = m[k - 1] * 10 + raw[k]
        /\ Meant(raw) = m[n]
  BY <1>1, MeantRuns DEF n
<1>3. PICK a \in [0 .. n -> Int] :
        /\ a[0] = 0 /\ \A k \in 1 .. n : a[k] = Wrap(a[k - 1] * 10 + raw[k], MaxInt)
        /\ Accumulate(raw) = a[n]
  BY <1>1, AccumulateRuns DEF n
<1>4. \A k \in 0 .. n : \A j \in 0 .. k : m[j] <= m[k]
  <2> DEFINE S == {k \in 0 .. n : \A j \in 0 .. k : m[j] <= m[k]}
  <2>1. 0 \in S
    BY <1>1
  <2>2. ASSUME NEW k \in 0 .. n - 1, k \in S PROVE k + 1 \in S
    <3>1. k + 1 \in 1 .. n /\ (k + 1) - 1 = k /\ m[k] \in Nat /\ m[k + 1] \in Nat
      BY <1>1
    <3>2. m[k] <= m[k + 1]
      BY <1>1, <1>2, <3>1, NextNumber
    <3>3. ASSUME NEW j \in 0 .. k + 1 PROVE m[j] <= m[k + 1]
      <4>1. CASE j = k + 1
        BY <3>1, <4>1
      <4>2. CASE j \in 0 .. k
        <5>1. m[j] <= m[k]
          BY <2>2, <4>2, Zenon
        <5>2. m[j] \in Nat
          BY <1>1, <4>2
        <5> QED
          BY <3>1, <3>2, <5>1, <5>2
      <4> QED
        BY <4>1, <4>2
    <3> QED
      BY <3>1, <3>3
  <2> HIDE DEF S
  <2>3. \A k \in 0 .. n : k \in S
    BY <1>1, <2>1, <2>2, InductTo
  <2> QED
    BY <2>3 DEF S
<1>5. ASSUME m[n] <= MaxInt PROVE a[n] = m[n]
  <2> DEFINE S == {k \in 0 .. n : a[k] = m[k]}
  <2>1. 0 \in S
    BY <1>1, <1>2, <1>3
  <2>2. ASSUME NEW k \in 0 .. n - 1, k \in S PROVE k + 1 \in S
    <3>1. k + 1 \in 1 .. n /\ (k + 1) - 1 = k /\ m[k + 1] \in Nat /\ m[n] \in Nat
      BY <1>1
    <3>2. m[k + 1] <= m[n]
      BY <1>1, <1>4, <3>1
    <3>3. m[k + 1] \in 0 .. MaxInt /\ MaxInt \in Nat
      BY <1>5, <3>1, <3>2, NumbersAssumption
    <3>4. a[k + 1] = Wrap(m[k + 1], MaxInt)
      BY <1>2, <1>3, <2>2, <3>1
    <3>5. a[k + 1] = m[k + 1]
      BY <3>3, <3>4, NoWrap
    <3> QED
      BY <3>1, <3>5
  <2> HIDE DEF S
  <2>3. \A k \in 0 .. n : k \in S
    BY <1>1, <2>1, <2>2, InductTo
  <2> QED
    BY <1>1, <2>3 DEF S
<1>6. m[n] \in Nat /\ a[n] \in Int
  BY <1>1
<1> QED
  BY <1>2, <1>3, <1>5, <1>6

\* Products of positive numbers are positive, and grow with a factor.
LEMMA Times ==
  ASSUME NEW a \in Nat \ {0}, NEW b \in Nat \ {0}, NEW c \in Nat, b <= c
  PROVE  a * b \in Nat \ {0} /\ b * a \in Nat \ {0} /\ b * a <= c * a
OBVIOUS

\* The two numbers, for every raw value.
LEMMA NumbersRight ==
  ASSUME NEW raw \in Raws, env = raw
  PROVE  EnvironmentRight
<1>0. /\ MaxInt \in Nat \ {0} /\ MaxDuration \in Nat \ {0} /\ Second \in Nat \ {0}
      /\ LeastInbound \in Nat \ {0} /\ LeastInterval \in Nat \ {0}
      /\ DefaultInbound \in LeastInbound .. MaxInt /\ DefaultInterval \in LeastInterval .. MaxInt
      /\ DefaultInterval * Second <= MaxDuration
      /\ raw \in Seq(0 .. 9 \cup {Other})
  BY NumbersAssumption
<1>1. CASE Invalid(raw)
  <2>1. WSMaxInbound(raw) = DefaultInbound /\ PrinterHealthInterval(raw) = DefaultInterval
    BY <1>1 DEF WSMaxInbound, PrinterHealthInterval
  <2>2. DefaultInterval * Second \in 1 .. MaxDuration
    <3>1. DefaultInterval \in Nat \ {0}
      BY <1>0
    <3>2. DefaultInterval * Second \in Nat \ {0}
      BY <1>0, <3>1, Times
    <3> QED
      BY <1>0, <3>2
  <2>3. Period(raw) = DefaultInterval * Second
    BY <1>0, <2>1, <2>2, NoWrap DEF Period
  <2> QED
    BY <1>0, <1>1, <2>1, <2>2, <2>3 DEF EnvironmentRight, TickerPanics
<1>2. CASE ~Invalid(raw)
  <2> DEFINE m == Meant(raw)
             a == Accumulate(raw)
             p == IF m < LeastInterval THEN LeastInterval ELSE m
  <2>1. m \in Nat /\ a \in Int /\ (m <= MaxInt => a = m)
    BY <1>0, <1>2, ReadAsMeant
  <2>2. WSMaxInbound(raw) = (IF a < LeastInbound THEN DefaultInbound ELSE a)
    BY <1>2 DEF WSMaxInbound, Floor
  <2>3. PrinterHealthInterval(raw) = (IF a < LeastInterval THEN LeastInterval ELSE a)
    BY <1>2 DEF PrinterHealthInterval, Floor
  <2> HIDE DEF m, a
  <2>4. ASSUME InRange(raw)
        PROVE  PrinterHealthInterval(raw) = p /\ p \in Nat \ {0} /\ p * Second <= MaxDuration
    <3>1. m <= MaxInt /\ m * Second <= MaxDuration
      BY <1>2, <2>4 DEF InRange, m
    <3>2. a = m
      BY <2>1, <3>1
    <3>3. LeastInterval * Second <= DefaultInterval * Second /\ LeastInterval * Second \in Nat
      <4>1. DefaultInterval \in Nat /\ LeastInterval <= DefaultInterval
        BY <1>0
      <4> QED
        BY <1>0, <4>1, Times
    <3>4. DefaultInterval * Second \in Int
      BY <1>0
    <3>5. LeastInterval * Second <= MaxDuration
      BY <1>0, <3>3, <3>4
    <3> QED
      BY <1>0, <2>1, <2>3, <3>1, <3>2, <3>5
  <2>5. ASSUME InRange(raw) PROVE Period(raw) \in Nat \ {0}
    <3>1. p * Second \in Nat \ {0}
      BY <1>0, <2>4, <2>5, Times
    <3>2. p * Second \in 0 .. MaxDuration
      BY <1>0, <2>4, <2>5, <3>1
    <3>3. Period(raw) = p * Second
      BY <1>0, <2>4, <2>5, <3>2, NoWrap DEF Period
    <3> QED
      BY <3>1, <3>3
  <2>6. InRange(raw) => ~TickerPanics(raw)
    BY <2>5 DEF TickerPanics
  <2>7. /\ WSMaxInbound(raw) >= LeastInbound
        /\ m \in LeastInbound .. MaxInt => WSMaxInbound(raw) = m
    BY <1>0, <2>1, <2>2
  <2>8. InRange(raw) => /\ PrinterHealthInterval(raw) >= LeastInterval
                        /\ m >= LeastInterval => PrinterHealthInterval(raw) = m
    BY <1>0, <2>1, <2>4
  <2> QED
    BY <2>6, <2>7, <2>8 DEF EnvironmentRight, m
<1> QED
  BY <1>1, <1>2

\* EnvironmentRight, for every width of int and Duration, every default, floor
\* and raw value.
THEOREM EnvironmentHandled == EnvSpec => []EnvironmentRight
<1>1. env \in Raws => EnvironmentRight
  BY NumbersRight
<1>2. env \in Raws /\ [UNCHANGED env]_env => (env \in Raws)'
  OBVIOUS
<1> QED
  BY <1>1, <1>2, PTL DEF EnvSpec

-----------------------------------------------------------------------------
(* Texts.                                                                  *)

\* What LenProperties says of a text whose length has a name.
LEMMA Numbered ==
  ASSUME NEW A, NEW s \in Seq(A), NEW n, n = Len(s)
  PROVE  n \in Nat /\ (\A k \in 1 .. n : s[k] \in A) /\ s \in [1 .. n -> A]
BY LenProperties, ElementOfSeq

\* A function on 1 .. n is a sequence of n elements.
LEMMA Sequence ==
  ASSUME NEW A, NEW n \in Nat, NEW s \in [1 .. n -> A]
  PROVE  s \in Seq(A) /\ Len(s) = n
<1>1. s \in Seq(A)
  BY SeqDef
<1> QED
  BY <1>1, LenProperties

\* A repeated character is a text of its length.
LEMMA Repeated ==
  ASSUME NEW A, NEW c \in A, NEW n \in Nat
  PROVE  Repeat(c, n) \in Seq(A) /\ Len(Repeat(c, n)) = n
<1>1. Repeat(c, n) \in [1 .. n -> A]
  BY DEF Repeat
<1> QED
  BY <1>1, Sequence

\* The bytes of the first k characters.
LEMMA SizesRuns ==
  ASSUME NEW s, NEW n \in Nat, Len(s) = n
  PROVE  /\ Sizes(s) \in [0 .. n -> Nat]
         /\ Sizes(s)[0] = 0 /\ \A k \in 1 .. n : Sizes(s)[k] = Sizes(s)[k - 1] + BytesOf(s[k])
<1> DEFINE g == [p \in Nat \X (1 .. n) |-> p[1] + BytesOf(s[p[2]])]
           F(h) == [k \in 0 .. n |-> IF k = 0 THEN 0 ELSE h[k - 1] + BytesOf(s[k])]
           f == CHOOSE h : h = F(h)
<1>0. \A c : BytesOf(c) \in 1 .. 3
  BY DEF BytesOf
<1>1. g \in [Nat \X (1 .. n) -> Nat]
  BY <1>0
<1>2. PICK h \in [0 .. n -> Nat] : Runs(h, 0, g, n)
  <2> HIDE DEF g
  <2> QED
    BY <1>1, RunExists
<1>3. ASSUME NEW k \in 1 .. n PROVE h[k] = h[k - 1] + BytesOf(s[k])
  <2>1. <<h[k - 1], k>> \in Nat \X (1 .. n)
    OBVIOUS
  <2> QED
    BY <1>2, <2>1 DEF Runs
<1>4. h = F(h)
  BY <1>2, <1>3 DEF Runs
<1>5. f = F(f)
  BY <1>4
<1> HIDE DEF f
<1>6. f[0] = 0 /\ \A k \in 1 .. n : f[k] = f[k - 1] + BytesOf(s[k])
  BY <1>5
<1>7. \A k \in 0 .. n : f[k] \in Nat
  <2>1. f[0] \in Nat
    BY <1>6
  <2>2. ASSUME NEW k \in 1 .. n, f[k - 1] \in Nat PROVE f[k] \in Nat
    <3>1. f[k] = f[k - 1] + BytesOf(s[k])
      BY <1>6
    <3>2. BytesOf(s[k]) \in 1 .. 3
      BY <1>0
    <3> QED
      BY <2>2, <3>1, <3>2
  <2> QED
    BY <2>1, <2>2, InductRun, Zenon
<1>8. f \in [0 .. n -> Nat]
  BY <1>5, <1>7
<1>9. Sizes(s) = f
  BY DEF Sizes, f
<1> QED
  BY <1>6, <1>8, <1>9

\* A text has at least as many bytes as characters.
LEMMA SizesGrow ==
  ASSUME NEW s, NEW n \in Nat, Len(s) = n
  PROVE  \A k \in 0 .. n : Sizes(s)[k] \in Nat /\ k <= Sizes(s)[k]
<1> DEFINE S == {k \in 0 .. n : k <= Sizes(s)[k]}
<1>0. /\ Sizes(s) \in [0 .. n -> Nat]
      /\ Sizes(s)[0] = 0 /\ \A k \in 1 .. n : Sizes(s)[k] = Sizes(s)[k - 1] + BytesOf(s[k])
  BY SizesRuns
<1>1. 0 \in S
  BY <1>0
<1>2. ASSUME NEW k \in 0 .. n - 1, k \in S PROVE k + 1 \in S
  <2>1. k + 1 \in 1 .. n /\ (k + 1) - 1 = k /\ Sizes(s)[k] \in Nat
    BY <1>0
  <2>2. Sizes(s)[k + 1] = Sizes(s)[k] + BytesOf(s[k + 1])
    BY <1>0, <2>1
  <2>3. BytesOf(s[k + 1]) \in 1 .. 3
    BY DEF BytesOf
  <2> QED
    BY <1>2, <2>1, <2>2, <2>3
<1> HIDE DEF S
<1>3. \A k \in 0 .. n : k \in S
  BY <1>1, <1>2, InductTo
<1>4. \A k \in 0 .. n : Sizes(s)[k] \in Nat
  BY <1>0
<1> QED
  BY <1>3, <1>4 DEF S

\* A text that is cut has no more characters than it may have bytes.
LEMMA CutFits ==
  ASSUME NEW s \in Text, NEW w \in Nat
  PROVE  Cut(s, w) \in Text /\ Len(Cut(s, w)) <= w
<1> DEFINE n == Len(s)
<1>0. n \in Nat /\ \A k \in 1 .. n : s[k] \in Chars
  BY Numbered DEF Text
<1>1. \A k \in 0 .. n : Sizes(s)[k] \in Nat /\ k <= Sizes(s)[k]
  BY <1>0, SizesGrow
<1>2. Sizes(s)[0] = 0
  BY <1>0, SizesRuns
<1>3. CASE Size(s) <= w
  <2>1. n <= Size(s) /\ Size(s) \in Nat
    BY <1>0, <1>1 DEF Size
  <2>2. Cut(s, w) = s
    BY <1>3 DEF Cut
  <2> QED
    BY <1>0, <1>3, <2>1, <2>2
<1>4. CASE ~ (Size(s) <= w)
  <2> HIDE DEF n
  <2> DEFINE Whole(k) == Sizes(s)[k] <= w /\ Sizes(s)[k + 1] > w
             c == CHOOSE k \in 0 .. n - 1 : Whole(k)
             tail == w - Sizes(s)[c]
  <2>1. \E k \in 0 .. n - 1 : Whole(k)
    <3> SUFFICES ASSUME \A k \in 0 .. n - 1 : ~Whole(k) PROVE FALSE
      OBVIOUS
    <3> DEFINE S == {k \in 0 .. n : Sizes(s)[k] <= w}
    <3>1. 0 \in S
      BY <1>0, <1>2
    <3>2. ASSUME NEW k \in 0 .. n - 1, k \in S PROVE k + 1 \in S
      <4>1. k + 1 \in 0 .. n
        BY <1>0
      <4>2. Sizes(s)[k + 1] \in Nat /\ Sizes(s)[k] \in Nat
        BY <1>0, <1>1, <4>1
      <4> QED
        BY <3>2, <4>1, <4>2
    <3> HIDE DEF S
    <3>3. \A k \in 0 .. n : k \in S
      BY <1>0, <3>1, <3>2, InductTo
    <3> QED
      BY <1>0, <1>4, <3>3 DEF S, Size, n
  <2>2. c \in 0 .. n - 1 /\ Whole(c)
    BY <2>1
  <2>3. Cut(s, w) = SubSeq(s, 1, c) \o Repeat("!", tail)
    BY <1>4 DEF Cut, n
  <2> HIDE DEF c
  <2>4. c \in Nat /\ tail \in Nat /\ c + tail <= w
    <3>1. Sizes(s)[c] \in Nat /\ c <= Sizes(s)[c] /\ c \in Nat
      BY <1>0, <1>1, <2>2
    <3> QED
      BY <2>2, <3>1
  <2> HIDE DEF tail
  <2>5. SubSeq(s, 1, c) \in Seq(Chars) /\ Len(SubSeq(s, 1, c)) = c
    <3>1. \A i \in 1 .. c : s[i] \in Chars
      BY <1>0, <2>2
    <3>2. /\ SubSeq(s, 1, c) \in Seq(Chars)
          /\ Len(SubSeq(s, 1, c)) = IF 1 <= c THEN c - 1 + 1 ELSE 0
      BY <2>4, <3>1, SubSeqProperties
    <3> QED
      BY <2>4, <3>2
  <2>6. Repeat("!", tail) \in Seq(Chars) /\ Len(Repeat("!", tail)) = tail
    <3>1. "!" \in Chars
      BY DEF Chars
    <3> QED
      BY <2>4, <3>1, Repeated
  <2>7. /\ SubSeq(s, 1, c) \o Repeat("!", tail) \in Seq(Chars)
        /\ Len(SubSeq(s, 1, c) \o Repeat("!", tail)) = c + tail
    BY <2>5, <2>6, ConcatProperties
  <2> QED
    BY <2>3, <2>4, <2>7 DEF Text
<1> QED
  BY <1>3, <1>4

\* What joining the fields of a text leaves is a text.
LEMMA JoinFieldsType == ASSUME NEW s \in Text PROVE JoinFields(s) \in Text
<1> DEFINE n == Len(s)
           Joined(t, k) == IF s[k] = " " /\ (t = <<>> \/ Last(t) = " ") THEN t ELSE Append(t, s[k])
           g == [p \in Text \X (1 .. n) |-> Joined(p[1], p[2])]
           F(h) == [k \in 0 .. n |-> IF k = 0 THEN <<>> ELSE Joined(h[k - 1], k)]
           f == CHOOSE h : h = F(h)
<1>0. n \in Nat /\ \A k \in 1 .. n : s[k] \in Chars
  BY Numbered DEF Text
<1>1. ASSUME NEW t \in Text, NEW k \in 1 .. n PROVE Joined(t, k) \in Text
  <2>1. Append(t, s[k]) \in Text
    BY <1>0, AppendProperties DEF Text
  <2> QED
    BY <2>1
<1>2. <<>> \in Text
  BY EmptySeq DEF Text
<1>3. JoinFields(s) = IF f[n] # <<>> /\ Last(f[n]) = " " THEN Front(f[n]) ELSE f[n]
  BY DEF JoinFields
<1> HIDE DEF n, Joined
<1>4. g \in [Text \X (1 .. n) -> Text]
  BY <1>1
<1>5. PICK h \in [0 .. n -> Text] : Runs(h, <<>>, g, n)
  <2> HIDE DEF g
  <2> QED
    BY <1>0, <1>2, <1>4, RunExists
<1>6. ASSUME NEW k \in 1 .. n PROVE h[k] = Joined(h[k - 1], k)
  <2>1. k - 1 \in 0 .. n
    BY <1>0
  <2>2. <<h[k - 1], k>> \in Text \X (1 .. n)
    BY <2>1
  <2> QED
    BY <1>5, <2>2 DEF Runs
<1>7. h = F(h)
  BY <1>0, <1>5, <1>6 DEF Runs
<1>8. f = F(f)
  BY <1>7
<1> HIDE DEF f
<1>9. f[0] = <<>> /\ \A k \in 1 .. n : f[k] = Joined(f[k - 1], k)
  BY <1>0, <1>8
<1>10. \A k \in 0 .. n : f[k] \in Text
  <2>1. f[0] \in Text
    BY <1>2, <1>9
  <2>2. \A k \in 1 .. n : f[k - 1] \in Text => f[k] \in Text
    BY <1>1, <1>9
  <2> QED
    BY <1>0, <2>1, <2>2, InductRun, Zenon
<1>11. f[n] \in Text
  BY <1>0, <1>10
<1>12. ASSUME f[n] # <<>> PROVE Front(f[n]) \in Text
  <2> DEFINE t == f[n]
  <2>1. t \in Seq(Chars) /\ Len(t) \in Nat
    BY <1>11, LenProperties DEF Text
  <2> HIDE DEF t
  <2>2. \A i \in 1 .. Len(t) - 1 : t[i] \in Chars
    BY <2>1, ElementOfSeq
  <2>3. SubSeq(t, 1, Len(t) - 1) \in Seq(Chars)
    BY <2>1, <2>2, SubSeqProperties
  <2> QED
    BY <2>3 DEF Front, Text, t
<1> QED
  BY <1>3, <1>11, <1>12

\* A cell is exactly as many characters wide as its column.
LEMMA CellWidth ==
  ASSUME NEW s \in Text, NEW width \in Nat, NEW leftAlign \in BOOLEAN
  PROVE  Cell(s, width, leftAlign) \in Text /\ Len(Cell(s, width, leftAlign)) = width
<1> DEFINE t == Cut(JoinFields(s), width)
<1>1. t \in Text /\ Len(t) <= width
  BY JoinFieldsType, CutFits
<1> HIDE DEF t
<1>2. t \in Seq(Chars) /\ Len(t) \in Nat /\ width - Len(t) \in Nat
  BY <1>1, LenProperties DEF Text
<1>3. Pad(t, width) \in Seq(Chars) /\ Len(Pad(t, width)) = width - Len(t)
  <2>1. " " \in Chars
    BY DEF Chars
  <2> QED
    BY <1>2, <2>1, Repeated DEF Pad
<1>4. /\ t \o Pad(t, width) \in Seq(Chars) /\ Len(t \o Pad(t, width)) = Len(t) + (width - Len(t))
      /\ Pad(t, width) \o t \in Seq(Chars) /\ Len(Pad(t, width) \o t) = (width - Len(t)) + Len(t)
  BY <1>2, <1>3, ConcatProperties
<1>5. Cell(s, width, leftAlign) = IF leftAlign THEN t \o Pad(t, width) ELSE Pad(t, width) \o t
  BY DEF Cell, t
<1> QED
  BY <1>2, <1>4, <1>5 DEF Text

\* The text of an item's row.
RowText(item) ==
  Cell(item.qty, AnzWidth, FALSE) \o <<" ">> \o Cell(item.name, ProduktWidth, TRUE)
    \o <<" ">> \o Cell(<<>>, ZusWidth, TRUE) \o <<" ">> \o Cell(item.price, PreisWidth, FALSE)

\* A text of n characters.
Wide(s, n) == s \in Seq(Chars) /\ Len(s) = n

\* Texts beside each other are as wide as both.
LEMMA Beside == ASSUME NEW s, NEW t, NEW m, NEW n, Wide(s, m), Wide(t, n) PROVE Wide(s \o t, m + n)
BY ConcatProperties DEF Wide

\* A row is as many characters wide as the receipt.
LEMMA RowWidth ==
  ASSUME NEW item, item.qty \in Text, item.name \in Text, item.price \in Text
  PROVE  RowText(item) \in Text /\ Len(RowText(item)) = ReceiptWidth
<1> DEFINE a == Cell(item.qty, AnzWidth, FALSE)
           b == Cell(item.name, ProduktWidth, TRUE)
           c == Cell(<<>>, ZusWidth, TRUE)
           d == Cell(item.price, PreisWidth, FALSE)
           blank == <<" ">>
<1>0. AnzWidth \in Nat /\ ProduktWidth \in Nat /\ ZusWidth \in Nat /\ PreisWidth \in Nat
  BY LayoutAssumption
<1>1. <<>> \in Text
  BY EmptySeq DEF Text
<1>2. Wide(a, AnzWidth) /\ Wide(b, ProduktWidth) /\ Wide(c, ZusWidth) /\ Wide(d, PreisWidth)
  BY <1>0, <1>1, CellWidth DEF Text, Wide
<1>3. RowText(item) = a \o blank \o b \o blank \o c \o blank \o d
  BY DEF RowText
<1>4. Wide(blank, 1)
  BY DEF Chars, Wide
<1> HIDE DEF a, b, c, d, blank
<1>5. Wide(a \o blank \o b \o blank \o c \o blank \o d, ReceiptWidth)
  BY <1>2, <1>4, Beside DEF ReceiptWidth
<1> QED
  BY <1>3, <1>5 DEF Text, Wide

\* The bytes of broken characters that come right after another one.
Torn(s, k) == {i \in 1 .. k - 1 : s[i] = "!" /\ s[i + 1] = "!"}

\* How many there are, character by character.
LEMMA TornGrows ==
  ASSUME NEW s, NEW k \in Nat \ {0}
  PROVE  /\ IsFiniteSet(Torn(s, k)) /\ Cardinality(Torn(s, k)) \in Nat
         /\ Cardinality(Torn(s, k + 1))
              = Cardinality(Torn(s, k)) + (IF s[k] = "!" /\ s[k + 1] = "!" THEN 1 ELSE 0)
<1>1. IsFiniteSet(Torn(s, k))
  <2>1. IsFiniteSet(1 .. k - 1) /\ Torn(s, k) \in SUBSET (1 .. k - 1)
    BY FS_Interval DEF Torn
  <2> QED
    BY <2>1, FS_Subset
<1>2. Cardinality(Torn(s, k)) \in Nat
  BY <1>1, FS_CardinalityType
<1>3. CASE s[k] = "!" /\ s[k + 1] = "!"
  <2>1. Torn(s, k + 1) = Torn(s, k) \cup {k} /\ k \notin Torn(s, k)
    BY <1>3 DEF Torn
  <2>2. Cardinality(Torn(s, k) \cup {k}) = Cardinality(Torn(s, k)) + 1
    BY <1>1, <2>1, FS_AddElement
  <2> QED
    BY <1>1, <1>2, <1>3, <2>1, <2>2
<1>4. CASE ~ (s[k] = "!" /\ s[k + 1] = "!")
  <2>1. Torn(s, k + 1) = Torn(s, k)
    BY <1>4 DEF Torn
  <2> QED
    BY <1>1, <1>2, <1>4, <2>1
<1> QED
  BY <1>3, <1>4

\* Before the second character there are none.
LEMMA NothingTorn == ASSUME NEW s PROVE Cardinality(Torn(s, 0)) = 0 /\ Cardinality(Torn(s, 1)) = 0
<1>1. Torn(s, 0) = {} /\ Torn(s, 1) = {}
  BY DEF Torn
<1> QED
  BY <1>1, FS_EmptySet

\* One character more.
LEMMA Longer ==
  ASSUME NEW t \in Text, NEW c \in Chars
  PROVE  Append(t, c) \in Text /\ Len(t) \in Nat /\ Len(Append(t, c)) = Len(t) + 1
BY AppendProperties, LenProperties DEF Text

\* A column is lost to each of them.
LEMMA ValidLength ==
  ASSUME NEW s \in Text
  PROVE  Len(ToValid(s)) = Len(s) - Cardinality(Torn(s, Len(s))) /\ Len(ToValid(s)) \in 0 .. Len(s)
<1> DEFINE n == Len(s)
           Next1(t, k) == IF s[k] # "!" THEN Append(t, s[k])
                          ELSE IF k > 1 /\ s[k - 1] = "!" THEN t
                          ELSE Append(t, "?")
           g == [p \in Text \X (1 .. n) |-> Next1(p[1], p[2])]
           F(h) == [k \in 0 .. n |-> IF k = 0 THEN <<>> ELSE Next1(h[k - 1], k)]
           f == CHOOSE h : h = F(h)
           torn(k) == Cardinality(Torn(s, k))
<1>0. n \in Nat /\ \A k \in 1 .. n : s[k] \in Chars
  BY Numbered DEF Text
<1>1. ASSUME NEW t \in Text, NEW k \in 1 .. n
      PROVE  /\ Next1(t, k) \in Text /\ Len(t) \in Nat
             /\ Len(Next1(t, k)) = Len(t) + (IF k > 1 /\ s[k] = "!" /\ s[k - 1] = "!" THEN 0 ELSE 1)
  <2>1. /\ Append(t, s[k]) \in Text /\ Len(Append(t, s[k])) = Len(t) + 1
        /\ Append(t, "?") \in Text /\ Len(Append(t, "?")) = Len(t) + 1
        /\ Len(t) \in Nat
    <3>1. s[k] \in Chars /\ "?" \in Chars
      BY <1>0 DEF Chars
    <3> QED
      BY <3>1, Longer, Zenon
  <2> QED
    BY <2>1
<1>2. <<>> \in Text /\ Len(<<>>) = 0
  BY EmptySeq DEF Text
<1>3. ToValid(s) = f[n]
  BY DEF ToValid
<1> HIDE DEF n, Next1
<1>4. g \in [Text \X (1 .. n) -> Text]
  BY <1>1
<1>5. PICK h \in [0 .. n -> Text] : Runs(h, <<>>, g, n)
  <2> HIDE DEF g
  <2> QED
    BY <1>0, <1>2, <1>4, RunExists
<1>6. ASSUME NEW k \in 1 .. n PROVE h[k] = Next1(h[k - 1], k)
  <2>1. k - 1 \in 0 .. n
    BY <1>0
  <2>2. <<h[k - 1], k>> \in Text \X (1 .. n)
    BY <2>1
  <2> QED
    BY <1>5, <2>2 DEF Runs
<1>7. h = F(h)
  BY <1>0, <1>5, <1>6 DEF Runs
<1>8. f = F(f)
  BY <1>7
<1> HIDE DEF f
<1>9. f[0] = <<>> /\ \A k \in 1 .. n : f[k] = Next1(f[k - 1], k)
  BY <1>0, <1>8
<1>10. \A k \in 0 .. n : f[k] \in Text
  <2>1. f[0] \in Text
    BY <1>2, <1>9
  <2>2. \A k \in 1 .. n : f[k - 1] \in Text => f[k] \in Text
    BY <1>1, <1>9
  <2> QED
    BY <1>0, <2>1, <2>2, InductRun, Zenon
<1>11. torn(0) = 0 /\ torn(1) = 0
  BY NothingTorn
<1>12. ASSUME NEW k \in 1 .. n - 1
       PROVE  torn(k) \in Nat /\ torn(k + 1) = torn(k) + (IF s[k] = "!" /\ s[k + 1] = "!" THEN 1 ELSE 0)
  <2>1. k \in Nat \ {0}
    BY <1>0
  <2> QED
    BY <2>1, TornGrows
<1> HIDE DEF torn
<1> DEFINE S == {k \in 0 .. n : torn(k) \in Nat /\ Len(f[k]) \in Nat /\ Len(f[k]) + torn(k) = k}
<1>13. 0 \in S
  BY <1>0, <1>2, <1>9, <1>11
<1>14. ASSUME NEW k \in 0 .. n - 1, k \in S PROVE k + 1 \in S
  <2>0. k + 1 \in 1 .. n /\ (k + 1) - 1 = k /\ k \in 0 .. n
    BY <1>0
  <2>1. f[k] \in Text /\ f[k + 1] = Next1(f[k], k + 1)
    BY <1>9, <1>10, <2>0
  <2>2. /\ Len(f[k]) \in Nat
        /\ Len(f[k + 1])
             = Len(f[k]) + (IF k + 1 > 1 /\ s[k + 1] = "!" /\ s[k] = "!" THEN 0 ELSE 1)
    BY <1>1, <2>0, <2>1
  <2>3. CASE k = 0
    BY <1>11, <1>14, <2>0, <2>2, <2>3
  <2>4. CASE k # 0
    <3>1. torn(k) \in Nat /\ torn(k + 1) = torn(k) + (IF s[k] = "!" /\ s[k + 1] = "!" THEN 1 ELSE 0)
      BY <1>0, <1>12, <2>4
    <3>2. Len(f[k]) + torn(k) = k
      BY <1>14
    <3>3. k \in Nat /\ k + 1 > 1
      BY <1>0, <2>4
    <3> DEFINE l == Len(f[k])
               m == Len(f[k + 1])
               t == torn(k)
               u == torn(k + 1)
    <3>4. (u = t + 1 /\ m = l + 0) \/ (u = t + 0 /\ m = l + 1)
      <4>1. CASE s[k] = "!" /\ s[k + 1] = "!"
        <5>1. u = t + 1
          BY <3>1, <4>1
        <5>2. m = l + 0
          BY <2>2, <3>3, <4>1
        <5> QED
          BY <5>1, <5>2
      <4>2. CASE ~ (s[k] = "!" /\ s[k + 1] = "!")
        <5>1. u = t + 0
          BY <3>1, <4>2
        <5>2. m = l + 1
          BY <2>2, <3>3, <4>2
        <5> QED
          BY <5>1, <5>2
      <4> QED
        BY <4>1, <4>2
    <3>5. l \in Nat /\ t \in Nat /\ l + t = k
      BY <2>2, <3>1, <3>2
    <3>6. u \in Nat /\ m \in Nat /\ m + u = k + 1
      <4> HIDE DEF l, m, t, u
      <4> QED
        BY <3>3, <3>4, <3>5
    <3> QED
      BY <2>0, <3>6
  <2> QED
    BY <2>3, <2>4
<1> HIDE DEF S
<1>15. \A k \in 0 .. n : k \in S
  BY <1>0, <1>13, <1>14, InductTo
<1>16. torn(n) \in Nat /\ Len(f[n]) \in Nat /\ Len(f[n]) + torn(n) = n
  BY <1>0, <1>15 DEF S
<1>17. Len(f[n]) = n - torn(n) /\ Len(f[n]) \in 0 .. n
  BY <1>0, <1>16
<1> QED
  BY <1>3, <1>17 DEF n, torn

\* The columns a text takes on the paper.
LEMMA ColumnsOf ==
  ASSUME NEW s \in Text
  PROVE  /\ Columns(s) = IF Contains(s, "x") THEN 0 ELSE Len(s) - Cardinality(Torn(s, Len(s)))
         /\ Columns(s) \in 0 .. Len(s)
<1>1. Len(s) \in Nat
  BY LenProperties DEF Text
<1>2. CASE Contains(s, "x")
  BY <1>1, <1>2, EmptySeq DEF Columns, Encode858
<1>3. CASE ~Contains(s, "x")
  <2>1. Columns(s) = Len(ToValid(s))
    BY <1>3 DEF Columns, Encode858
  <2> QED
    BY <1>3, <2>1, ValidLength
<1> QED
  BY <1>2, <1>3

-----------------------------------------------------------------------------
(* Documents.  Laid(doc, m, n): a printer in the modes m that prints doc   *)
(* prints each of its lines as the line is meant to look, and ends in n.   *)

Changes == {Fresh, [page |-> 858], [bold |-> 0], [bold |-> 1], [align |-> "center"],
            [align |-> "left"], [size |-> "normal"], [size |-> "high"], [size |-> "wide"],
            [size |-> "double"]}
Roles   == {"heading", "centered", "plain", "title", "bold", "row", "table", "total"}

CommandElements == [cmd : Changes]
LineElements    == [role : Roles, text : Text]
Elements        == CommandElements \cup LineElements

\* The text of a line is as wide as ColumnsRight needs it.
Fits(e) ==
  /\ e.role = "row" => Len(e.text) = ReceiptWidth
  /\ e.role = "title" => Len(e.text) <= ReceiptWidth \div 2

\* From the modes m over the element e to the modes n.
Leads(m, e, n) ==
  \/ e \in CommandElements /\ n = After(e.cmd, m)
  \/ e \in LineElements /\ m = Looks(e.role) /\ n = m /\ Fits(e)

\* f are the modes before, between and after the elements of doc.
Passes(f, doc, m, n) ==
  /\ f \in [0 .. Len(doc) -> Modes] /\ f[0] = m /\ f[Len(doc)] = n
  /\ \A k \in 1 .. Len(doc) : Leads(f[k - 1], doc[k], f[k])

Laid(doc, m, n) == doc \in Seq(Elements) /\ \E f : Passes(f, doc, m, n)

\* Elements that keep the modes may be repeated, or be left out.
LEMMA LaidSame ==
  ASSUME NEW m \in Modes, NEW e \in Elements, NEW n \in Nat, n = 0 \/ Leads(m, e, m)
  PROVE  Laid(Repeat(e, n), m, m)
<1> DEFINE doc == Repeat(e, n)
           f == [k \in 0 .. n |-> m]
<1>1. doc \in Seq(Elements) /\ Len(doc) = n
  BY Repeated
<1>2. \A k \in 1 .. n : doc[k] = e
  BY DEF Repeat
<1> HIDE DEF doc
<1>3. f \in [0 .. n -> Modes] /\ f[0] = m /\ f[n] = m
  OBVIOUS
<1>4. ASSUME NEW k \in 1 .. n PROVE Leads(f[k - 1], doc[k], f[k])
  <2>1. f[k - 1] = m /\ f[k] = m /\ n # 0
    OBVIOUS
  <2> QED
    BY <1>2, <2>1
<1> HIDE DEF f
<1>5. Passes(f, doc, m, m)
  BY <1>1, <1>3, <1>4 DEF Passes
<1> QED
  BY <1>1, <1>5 DEF Laid, doc

\* A document of one element.
LEMMA LaidOne ==
  ASSUME NEW m \in Modes, NEW n \in Modes, NEW e \in Elements, Leads(m, e, n)
  PROVE  Laid(<<e>>, m, n)
<1> DEFINE f == [k \in 0 .. 1 |-> IF k = 0 THEN m ELSE n]
<1>1. <<e>> \in Seq(Elements) /\ Len(<<e>>) = 1 /\ <<e>>[1] = e
  OBVIOUS
<1>2. f \in [0 .. 1 -> Modes] /\ f[0] = m /\ f[1] = n
  OBVIOUS
<1> HIDE DEF f
<1>3. ASSUME NEW k \in 1 .. 1 PROVE Leads(f[k - 1], <<e>>[k], f[k])
  <2>1. k = 1 /\ k - 1 = 0
    OBVIOUS
  <2> QED
    BY <1>1, <1>2, <2>1
<1>4. Passes(f, <<e>>, m, n)
  BY <1>1, <1>2, <1>3 DEF Passes
<1> QED
  BY <1>1, <1>4 DEF Laid

\* A document that begins where another ends.
LEMMA LaidBoth ==
  ASSUME NEW d, NEW e, NEW m, NEW n, NEW p, Laid(d, m, n), Laid(e, n, p)
  PROVE  Laid(d \o e, m, p)
<1>1. PICK f : Passes(f, d, m, n)
  BY DEF Laid
<1>2. PICK g : Passes(g, e, n, p)
  BY DEF Laid
<1> DEFINE a == Len(d)
           b == Len(e)
<1>3. d \in Seq(Elements) /\ e \in Seq(Elements) /\ a \in Nat /\ b \in Nat
  BY LenProperties DEF Laid
<1>4. /\ d \o e \in Seq(Elements) /\ Len(d \o e) = a + b
      /\ \A k \in 1 .. a + b : (d \o e)[k] = IF k <= a THEN d[k] ELSE e[k - a]
  BY <1>3, ConcatProperties
<1>5. f \in [0 .. a -> Modes] /\ f[0] = m /\ f[a] = n /\ \A k \in 1 .. a : Leads(f[k - 1], d[k], f[k])
  BY <1>1 DEF Passes
<1>6. g \in [0 .. b -> Modes] /\ g[0] = n /\ g[b] = p /\ \A k \in 1 .. b : Leads(g[k - 1], e[k], g[k])
  BY <1>2 DEF Passes
<1> DEFINE doc == d \o e
<1> HIDE DEF a, b, doc
<1> DEFINE h == [k \in 0 .. a + b |-> IF k <= a THEN f[k] ELSE g[k - a]]
<1>7. h \in [0 .. a + b -> Modes]
  <2>1. ASSUME NEW k \in 0 .. a + b PROVE (IF k <= a THEN f[k] ELSE g[k - a]) \in Modes
    <3>1. CASE k <= a
      BY <1>3, <1>5, <3>1
    <3>2. CASE ~ (k <= a)
      <4>1. k - a \in 0 .. b
        BY <1>3, <3>2
      <4> QED
        BY <1>6, <3>2, <4>1
    <3> QED
      BY <3>1, <3>2
  <2> QED
    BY <2>1
<1>8. h[0] = m /\ h[a + b] = p
  <2>1. h[0] = f[0]
    BY <1>3
  <2>2. CASE b = 0
    <3>1. h[a + b] = f[a]
      BY <1>3, <2>2
    <3> QED
      BY <1>5, <1>6, <2>1, <2>2, <3>1
  <2>3. CASE b # 0
    <3>1. h[a + b] = g[b]
      BY <1>3, <2>3
    <3> QED
      BY <1>5, <1>6, <2>1, <3>1
  <2> QED
    BY <2>2, <2>3
<1>9. ASSUME NEW k \in 1 .. a + b PROVE Leads(h[k - 1], doc[k], h[k])
  <2>1. CASE k <= a
    <3>1. h[k - 1] = f[k - 1] /\ h[k] = f[k] /\ k \in 1 .. a
      BY <1>3, <2>1
    <3>2. doc[k] = d[k]
      BY <1>4, <2>1 DEF doc
    <3> QED
      BY <1>5, <3>1, <3>2
  <2>2. CASE k = a + 1
    <3>1. h[k - 1] = f[a] /\ h[k] = g[1] /\ k - a = 1 /\ 1 \in 1 .. b /\ ~ (k <= a) /\ 1 - 1 = 0
      BY <1>3, <2>2
    <3>2. doc[k] = e[1]
      BY <1>4, <3>1 DEF doc
    <3>3. Leads(g[1 - 1], e[1], g[1])
      BY <1>6, <3>1
    <3> QED
      BY <1>5, <1>6, <3>1, <3>2, <3>3
  <2>3. CASE k > a + 1
    <3>1. /\ k - a \in 1 .. b /\ ~ (k <= a) /\ (k - a) - 1 = (k - 1) - a
          /\ h[k - 1] = g[(k - 1) - a] /\ h[k] = g[k - a]
      BY <1>3, <2>3
    <3>2. doc[k] = e[k - a]
      BY <1>4, <3>1 DEF doc
    <3>3. Leads(g[(k - a) - 1], e[k - a], g[k - a])
      BY <1>6, <3>1
    <3> QED
      BY <3>1, <3>2, <3>3
  <2> QED
    BY <1>3, <2>1, <2>2, <2>3
<1> HIDE DEF h
<1>10. Passes(h, doc, m, p)
  BY <1>4, <1>7, <1>8, <1>9 DEF Passes, doc
<1> QED
  BY <1>4, <1>10 DEF Laid, doc

\* What is left of a document after its first element is laid out as well.
LEMMA LaidRest ==
  ASSUME NEW d, NEW m, NEW n, Laid(d, m, n), d # <<>>
  PROVE  \E p : Leads(m, Head(d), p) /\ p \in Modes /\ Laid(Tail(d), p, n)
<1>1. PICK f : Passes(f, d, m, n)
  BY DEF Laid
<1> DEFINE a == Len(d)
           t == Tail(d)
<1>2. d \in Seq(Elements) /\ a \in Nat \ {0}
  BY EmptySeq DEF Laid
<1>3. /\ t \in Seq(Elements) /\ Len(t) = a - 1 /\ Head(d) = d[1]
      /\ \A k \in 1 .. a - 1 : t[k] = d[k + 1]
  BY <1>2, HeadTailProperties
<1>4. f \in [0 .. a -> Modes] /\ f[0] = m /\ f[a] = n /\ \A k \in 1 .. a : Leads(f[k - 1], d[k], f[k])
  BY <1>1 DEF Passes
<1> HIDE DEF a, t
<1> DEFINE g == [k \in 0 .. a - 1 |-> f[k + 1]]
<1>5. g \in [0 .. a - 1 -> Modes] /\ g[0] = f[1] /\ g[a - 1] = n
  BY <1>2, <1>4
<1>6. ASSUME NEW k \in 1 .. a - 1 PROVE Leads(g[k - 1], t[k], g[k])
  <2>1. k + 1 \in 1 .. a /\ (k + 1) - 1 = k /\ g[k - 1] = f[k] /\ g[k] = f[k + 1]
    BY <1>2
  <2>2. Leads(f[(k + 1) - 1], d[k + 1], f[k + 1])
    BY <1>4, <2>1
  <2> QED
    BY <1>3, <2>1, <2>2
<1> HIDE DEF g
<1>7. Passes(g, t, f[1], n)
  BY <1>3, <1>5, <1>6 DEF Passes
<1>8. Leads(m, Head(d), f[1]) /\ f[1] \in Modes
  <2>1. 1 \in 1 .. a /\ 1 \in 0 .. a /\ 1 - 1 = 0
    BY <1>2
  <2>2. Leads(f[1 - 1], d[1], f[1])
    BY <1>4, <2>1
  <2> QED
    BY <1>3, <1>4, <2>1, <2>2
<1>9. Laid(t, f[1], n)
  BY <1>3, <1>7 DEF Laid
<1> QED
  BY <1>8, <1>9 DEF t

\* The modes of a document with the code page 858.
M(b, a, s) == [bold |-> b, align |-> a, size |-> s, page |-> 858]

Aligns == {"left", "center"}
FontSizes == {"normal", "high", "wide", "double"}

\* These are modes.
LEMMA MType ==
  ASSUME NEW b \in {0, 1}, NEW a \in Aligns, NEW s \in FontSizes
  PROVE  M(b, a, s) \in Modes
BY DEF M, Modes, Aligns, FontSizes

\* What each command makes of the modes.
LEMMA Overrides ==
  ASSUME NEW b \in {0, 1}, NEW a \in Aligns, NEW s \in FontSizes
  PROVE  /\ \A c \in {0, 1} : After([bold |-> c], M(b, a, s)) = M(c, a, s)
         /\ \A c \in Aligns : After([align |-> c], M(b, a, s)) = M(b, c, s)
         /\ \A c \in FontSizes : After([size |-> c], M(b, a, s)) = M(b, a, c)
BY DEF M, After

\* ESC @ leaves nothing of the modes before it.
LEMMA Overridden == ASSUME NEW m \in Modes PROVE After(Fresh, m) = Fresh
<1>1. DOMAIN m = {"bold", "align", "size", "page"}
  BY DEF Modes
<1>2. Fresh = [f \in {"bold", "align", "size", "page"} |-> Fresh[f]]
  BY DEF Fresh
<1>3. DOMAIN Fresh = {"bold", "align", "size", "page"}
  BY DEF Fresh
<1> QED
  BY <1>1, <1>2, <1>3 DEF After

\* A command leads to the modes it sets.
LEMMA CommandLaid ==
  ASSUME NEW c \in Changes, NEW m \in Modes, NEW n \in Modes, n = After(c, m)
  PROVE  Laid(Command(c), m, n)
<1> DEFINE e == [cmd |-> c]
<1>1. e \in CommandElements /\ e.cmd = c
  BY DEF CommandElements
<1>2. Command(c) = <<e>>
  BY DEF Command
<1> HIDE DEF e
<1>3. e \in Elements /\ Leads(m, e, n)
  BY <1>1 DEF Elements, Leads
<1> QED
  BY <1>2, <1>3, LaidOne

\* A title in double width has half the receipt.
LEMMA HalfWidth == ReceiptWidth \in Nat /\ ReceiptWidth \div 2 \in Nat /\ 2 * (ReceiptWidth \div 2) <= ReceiptWidth
<1>1. AnzWidth \in Nat /\ ProduktWidth \in Nat /\ ZusWidth \in Nat /\ PreisWidth \in Nat
  BY LayoutAssumption
<1>2. ReceiptWidth \in Nat
  BY <1>1 DEF ReceiptWidth
<1> QED
  BY <1>2

\* Lines keep the modes they are printed in.
LEMMA LinesLaid ==
  ASSUME NEW role \in Roles \ {"row"}, NEW n \in Nat, Looks(role) \in Modes
  PROVE  Laid(Lines(role, n), Looks(role), Looks(role))
<1> DEFINE e == [role |-> role, text |-> <<>>]
<1>1. <<>> \in Text /\ Len(<<>>) = 0
  BY EmptySeq DEF Text
<1>2. e \in LineElements /\ e.role = role /\ e.text = <<>>
  BY <1>1 DEF LineElements
<1>3. Lines(role, n) = Repeat(e, n)
  BY DEF Lines
<1> HIDE DEF e
<1>4. e \in Elements /\ Fits(e)
  <2>1. 0 <= ReceiptWidth \div 2
    BY HalfWidth
  <2> QED
    BY <1>1, <1>2, <2>1 DEF Elements, Fits
<1>5. Leads(Looks(role), e, Looks(role))
  BY <1>2, <1>4 DEF Leads
<1> QED
  BY <1>3, <1>4, <1>5, LaidSame

\* The same for a line with a text.
LEMMA TextLaid ==
  ASSUME NEW role \in Roles, NEW t \in Text, Fits([role |-> role, text |-> t]), Looks(role) \in Modes
  PROVE  Laid(<<[role |-> role, text |-> t]>>, Looks(role), Looks(role))
<1> DEFINE e == [role |-> role, text |-> t]
<1>1. e \in LineElements /\ e.role = role
  BY DEF LineElements
<1> HIDE DEF e
<1>2. e \in Elements /\ Fits(e)
  BY <1>1 DEF Elements, e
<1>3. Leads(Looks(role), e, Looks(role))
  BY <1>1, <1>2 DEF Leads
<1> QED
  BY <1>2, <1>3, LaidOne DEF e

\* How the lines look.
LEMMA LooksOf ==
  /\ Looks("plain") = M(0, "left", "normal") /\ Looks("row") = M(0, "left", "normal")
  /\ Looks("bold") = M(1, "left", "normal")
  /\ Looks("heading") = M(1, "center", "normal")
  /\ Looks("centered") = M(0, "center", "normal")
  /\ Looks("title") = M(0, "center", "double")
  /\ Looks("table") = M(0, "left", "high")
  /\ Looks("total") = M(0, "left", "wide")
<1>1. Looks("plain") = M(0, "left", "normal") /\ Looks("row") = M(0, "left", "normal")
  BY DEF Looks, M
<1>2. Looks("bold") = M(1, "left", "normal") /\ Looks("heading") = M(1, "center", "normal")
  BY DEF Looks, M
<1>3. Looks("centered") = M(0, "center", "normal") /\ Looks("title") = M(0, "center", "double")
  BY DEF Looks, M
<1>4. Looks("table") = M(0, "left", "high") /\ Looks("total") = M(0, "left", "wide")
  BY DEF Looks, M
<1> QED
  BY <1>1, <1>2, <1>3, <1>4

\* What follows a document that ends in the modes M(b, a, s).
LEMMA Continued ==
  ASSUME NEW d, NEW m, NEW b \in {0, 1}, NEW a \in Aligns, NEW s \in FontSizes, Laid(d, m, M(b, a, s))
  PROVE  /\ Laid(d \o BoldOn, m, M(1, a, s)) /\ Laid(d \o BoldOff, m, M(0, a, s))
         /\ Laid(d \o Center, m, M(b, "center", s)) /\ Laid(d \o Left, m, M(b, "left", s))
         /\ \A t \in FontSizes : Laid(d \o Font(t), m, M(b, a, t))
         /\ \A role \in Roles \ {"row"} :
              Looks(role) = M(b, a, s) => Laid(d \o Line(role), m, M(b, a, s))
<1>0. /\ \A c \in {0, 1} : M(c, a, s) \in Modes
      /\ \A c \in Aligns : M(b, c, s) \in Modes
      /\ \A c \in FontSizes : M(b, a, c) \in Modes
      /\ M(b, a, s) \in Modes
  BY MType
<1>1. /\ \A c \in {0, 1} : [bold |-> c] \in Changes
      /\ \A c \in Aligns : [align |-> c] \in Changes
      /\ \A c \in FontSizes : [size |-> c] \in Changes
  BY DEF Changes, Aligns, FontSizes
<1>2. ASSUME NEW c \in {0, 1} PROVE Laid(Command([bold |-> c]), M(b, a, s), M(c, a, s))
  BY <1>0, <1>1, Overrides, CommandLaid
<1>3. ASSUME NEW c \in Aligns PROVE Laid(Command([align |-> c]), M(b, a, s), M(b, c, s))
  BY <1>0, <1>1, Overrides, CommandLaid
<1>4. ASSUME NEW c \in FontSizes PROVE Laid(Command([size |-> c]), M(b, a, s), M(b, a, c))
  BY <1>0, <1>1, Overrides, CommandLaid
<1>5. ASSUME NEW role \in Roles \ {"row"}, Looks(role) = M(b, a, s)
      PROVE  Laid(Line(role), M(b, a, s), M(b, a, s))
  <2>1. Looks(role) \in Modes
    BY <1>0, <1>5
  <2>2. Laid(Lines(role, 1), Looks(role), Looks(role))
    BY <2>1, LinesLaid
  <2> QED
    BY <1>5, <2>2 DEF Line
<1>6. Laid(BoldOn, M(b, a, s), M(1, a, s)) /\ Laid(BoldOff, M(b, a, s), M(0, a, s))
  BY <1>2 DEF BoldOn, BoldOff
<1>7. Laid(Center, M(b, a, s), M(b, "center", s)) /\ Laid(Left, M(b, a, s), M(b, "left", s))
  BY <1>3 DEF Center, Left, Aligns
<1>8. \A t \in FontSizes : Laid(Font(t), M(b, a, s), M(b, a, t))
  BY <1>4 DEF Font
<1> QED
  BY <1>5, <1>6, <1>7, <1>8, LaidBoth, Zenon

\* Every document of the bridge's own begins with commands that leave nothing
\* of the modes before.
LEMMA BeginLaid == ASSUME NEW m \in Modes PROVE Laid(Begin, m, M(0, "left", "normal"))
<1>1. Fresh \in Modes /\ M(0, "left", "normal") \in Modes
  BY MType DEF Fresh, Modes, Aligns, FontSizes
<1>2. Fresh \in Changes /\ [page |-> 858] \in Changes
  BY DEF Changes
<1>3. Laid(Command(Fresh), m, Fresh)
  BY <1>1, <1>2, Overridden, CommandLaid
<1>4. After([page |-> 858], Fresh) = M(0, "left", "normal")
  BY DEF After, Fresh, M
<1>5. Laid(Command([page |-> 858]), Fresh, M(0, "left", "normal"))
  BY <1>1, <1>2, <1>4, CommandLaid
<1> QED
  BY <1>3, <1>5, LaidBoth DEF Begin

\* A test print.
LEMMA TestPrintLaid == ASSUME NEW m \in Modes PROVE Laid(TestPrint, m, M(0, "left", "normal"))
<1>1. Laid(Begin, m, M(0, "left", "normal"))
  BY BeginLaid
<1> DEFINE heading == Begin \o Center \o BoldOn \o Line("heading")
<1>2. Laid(heading, m, M(1, "center", "normal"))
  BY <1>1, Continued, LooksOf DEF Roles, Aligns, FontSizes
<1> HIDE DEF heading
<1>3. Laid(heading \o BoldOff \o Line("centered") \o Left \o Line("plain"), m, M(0, "left", "normal"))
  BY <1>2, Continued, LooksOf DEF Roles, Aligns, FontSizes
<1> QED
  BY <1>3 DEF TestPrint, heading

\* A service call.
LEMMA ServiceCallLaid == ASSUME NEW m \in Modes PROVE Laid(ServiceCall, m, M(0, "left", "normal"))
<1>1. Laid(Begin, m, M(0, "left", "normal"))
  BY BeginLaid
<1> DEFINE top == Begin \o Center \o Line("centered") \o Font("double")
           mid == top \o Line("title") \o Font("normal") \o Line("centered") \o Left
<1>2. Laid(top, m, M(0, "center", "double"))
  BY <1>1, Continued, LooksOf DEF Roles, Aligns, FontSizes
<1>3. Laid(mid, m, M(0, "left", "normal"))
  <2> HIDE DEF top
  <2> QED
    BY <1>2, Continued, LooksOf DEF Roles, Aligns, FontSizes
<1> HIDE DEF mid
<1>4. Laid(mid \o Line("plain") \o BoldOn \o Line("bold"), m, M(1, "left", "normal"))
  BY <1>3, Continued, LooksOf DEF Roles, Aligns, FontSizes
<1>5. Laid(mid \o Line("plain") \o BoldOn \o Line("bold") \o BoldOff \o Line("plain"), m,
           M(0, "left", "normal"))
  BY <1>4, Continued, LooksOf DEF Roles, Aligns, FontSizes
<1> QED
  BY <1>5 DEF ServiceCall, mid

\* An item.
LEMMA ItemLaid ==
  ASSUME NEW item, item.qty \in Text, item.name \in Text, item.price \in Text, item.extras \in Nat
  PROVE  Laid(ItemBlock(item), M(0, "left", "normal"), M(0, "left", "normal"))
<1> DEFINE plain == M(0, "left", "normal")
           row == <<[role |-> "row", text |-> RowText(item)]>>
<1>0. Looks("plain") = plain /\ Looks("row") = plain /\ plain \in Modes
  BY LooksOf, MType DEF Aligns, FontSizes
<1>1. RowText(item) \in Text /\ Len(RowText(item)) = ReceiptWidth
  BY RowWidth
<1> DEFINE t == RowText(item)
<1>2. Laid(row, plain, plain)
  <2> HIDE DEF t
  <2>1. Fits([role |-> "row", text |-> t])
    BY <1>1 DEF Fits, t
  <2>2. "row" \in Roles
    BY DEF Roles
  <2>3. Laid(<<[role |-> "row", text |-> t]>>, Looks("row"), Looks("row"))
    <3> HIDE DEF plain
    <3> QED
      BY <1>0, <1>1, <2>1, <2>2, TextLaid DEF t
  <2> QED
    BY <1>0, <2>3 DEF t
<1>3. Laid(Line("plain"), plain, plain) /\ Laid(Lines("plain", item.extras), plain, plain)
  <2>1. "plain" \in Roles \ {"row"}
    BY DEF Roles
  <2> HIDE DEF plain
  <2> QED
    BY <1>0, <2>1, LinesLaid DEF Line
<1>4. ItemBlock(item) = Line("plain") \o row \o Lines("plain", item.extras)
  BY DEF ItemBlock, RowText
<1> HIDE DEF plain, row
<1>5. Laid(ItemBlock(item), plain, plain)
  BY <1>2, <1>3, <1>4, LaidBoth
<1> QED
  BY <1>5 DEF plain

\* Documents that lead from m to m, one after the other.
LEMMA FlattenLaid ==
  ASSUME NEW m \in Modes, NEW seqs \in Seq(Seq(Elements)), NEW n, n = Len(seqs),
         \A k \in 1 .. n : Laid(seqs[k], m, m)
  PROVE  Laid(FlattenSeq(seqs), m, m)
<1> DEFINE Docs == {d \in Seq(Elements) : Laid(d, m, m)}
           Nth(t, k) == IF k = 1 THEN seqs[k] ELSE t \o seqs[k]
           g == [p \in Docs \X (1 .. n) |-> Nth(p[1], p[2])]
           F(h) == [k \in 1 .. n |-> IF k = 1 THEN seqs[k] ELSE h[k - 1] \o seqs[k]]
           f == CHOOSE h : h = F(h)
<1>0. n \in Nat
  BY LenProperties
<1>1. <<>> \in Docs
  <2>1. <<>> \in Seq(Elements) /\ Len(<<>>) = 0
    BY EmptySeq
  <2>2. [k \in 0 .. 0 |-> m] \in [0 .. 0 -> Modes] /\ [k \in 0 .. 0 |-> m][0] = m
    OBVIOUS
  <2>3. Passes([k \in 0 .. 0 |-> m], <<>>, m, m)
    BY <2>1, <2>2 DEF Passes
  <2> QED
    BY <2>1, <2>3 DEF Laid
<1>2. \A k \in 1 .. n : seqs[k] \in Docs
  BY DEF Laid
<1>3. ASSUME NEW t \in Docs, NEW k \in 1 .. n PROVE Nth(t, k) \in Docs
  <2>1. t \o seqs[k] \in Docs
    BY <1>2, LaidBoth DEF Laid
  <2> QED
    BY <1>2, <2>1
<1>4. CASE n = 0
  <2>1. seqs = <<>>
    BY <1>4, EmptySeq
  <2>2. FlattenSeq(seqs) = seqs
    BY <1>4 DEF FlattenSeq
  <2> QED
    BY <1>1, <2>1, <2>2
<1>5. CASE n # 0
  <2>1. FlattenSeq(seqs) = f[n]
    BY <1>5 DEF FlattenSeq
  <2> HIDE DEF Docs
  <2>2. g \in [Docs \X (1 .. n) -> Docs]
    BY <1>3
  <2>3. PICK h \in [0 .. n -> Docs] : Runs(h, <<>>, g, n)
    <3> HIDE DEF g
    <3> QED
      BY <1>0, <1>1, <2>2, RunExists
  <2>4. ASSUME NEW k \in 1 .. n PROVE h[k] = Nth(h[k - 1], k)
    <3>1. k - 1 \in 0 .. n
      BY <1>0
    <3>2. <<h[k - 1], k>> \in Docs \X (1 .. n)
      BY <3>1
    <3> QED
      BY <2>3, <3>2 DEF Runs
  <2> DEFINE i == [k \in 1 .. n |-> h[k]]
  <2>5. i = F(i)
    <3>1. ASSUME NEW k \in 1 .. n PROVE i[k] = IF k = 1 THEN seqs[k] ELSE i[k - 1] \o seqs[k]
      <4>1. CASE k = 1
        BY <2>4, <4>1
      <4>2. CASE k # 1
        <5>1. k - 1 \in 1 .. n
          BY <1>0, <4>2
        <5> QED
          BY <2>4, <4>2, <5>1
      <4> QED
        BY <4>1, <4>2
    <3> HIDE DEF i
    <3>2. i = [k \in 1 .. n |-> i[k]]
      BY DEF i
    <3> QED
      BY <3>1, <3>2
  <2>6. f = F(f)
    BY <2>5
  <2> HIDE DEF f
  <2>7. ASSUME NEW k \in 1 .. n PROVE f[k] = IF k = 1 THEN seqs[k] ELSE f[k - 1] \o seqs[k]
    BY <2>6
  <2> DEFINE S == {k \in 0 .. n : k = 0 \/ f[k] \in Docs}
  <2>8. 0 \in S
    BY <1>0
  <2>9. ASSUME NEW k \in 0 .. n - 1, k \in S PROVE k + 1 \in S
    <3>1. k + 1 \in 1 .. n /\ (k + 1) - 1 = k
      BY <1>0
    <3>2. CASE k = 0
      <4>1. f[k + 1] = seqs[k + 1]
        BY <2>7, <3>1, <3>2
      <4> QED
        BY <1>2, <3>1, <4>1
    <3>3. CASE k # 0
      <4>1. f[k] \in Docs /\ k + 1 # 1
        BY <1>0, <2>9, <3>3
      <4>2. f[k + 1] = Nth(f[k], k + 1)
        BY <2>7, <3>1, <4>1
      <4>3. f[k + 1] \in Docs
        BY <1>3, <3>1, <4>1, <4>2
      <4> QED
        BY <3>1, <4>3
    <3> QED
      BY <3>2, <3>3
  <2> HIDE DEF S
  <2>10. \A k \in 0 .. n : k \in S
    BY <1>0, <2>8, <2>9, InductTo
  <2>11. f[n] \in Docs
    BY <1>0, <1>5, <2>10 DEF S
  <2> QED
    BY <2>1, <2>11 DEF Docs
<1> QED
  BY <1>4, <1>5

\* Everything in the order of OrderLike.
LEMMA OrderLikeLaid ==
  ASSUME NEW r \in Receipts, NEW m \in Modes
  PROVE  Laid(OrderLike(r), m, M(0, "left", "normal"))
<1> DEFINE plain == M(0, "left", "normal")
           title == <<[role |-> "title", text |-> Cut(r.tenant, ReceiptWidth \div 2)]>>
           blocks == [i \in 1 .. Len(r.items) |-> ItemBlock(r.items[i])]
           top == Begin \o Center \o Line("centered") \o Font("double")
           head == top \o title \o Font("normal") \o Line("centered") \o Left
           mid == head \o Line("plain") \o Font("high") \o Line("table") \o Font("normal")
           table == mid \o Line("plain") \o BoldOn \o Line("bold") \o BoldOff \o Line("plain")
           rows == table \o FlattenSeq(blocks)
           sum == rows \o Font("wide") \o Line("total") \o Font("normal")
           foot == IF r.footer THEN Line("plain") ELSE <<>>
<1>0. r.tenant \in Text /\ r.items \in Seq([qty : Text, name : Text, price : Text, extras : Nat])
  BY DEF Receipts
<1>1. Laid(top, m, M(0, "center", "double"))
  <2>1. Laid(Begin, m, M(0, "left", "normal"))
    BY BeginLaid
  <2> QED
    BY <2>1, Continued, LooksOf DEF Roles, Aligns, FontSizes
<1>2. Laid(title, M(0, "center", "double"), M(0, "center", "double"))
  <2> DEFINE t == Cut(r.tenant, ReceiptWidth \div 2)
  <2>1. t \in Text /\ Len(t) <= ReceiptWidth \div 2
    BY <1>0, HalfWidth, CutFits
  <2> HIDE DEF t
  <2>2. Fits([role |-> "title", text |-> t]) /\ "title" \in Roles
    BY <2>1 DEF Fits, Roles
  <2>3. Looks("title") \in Modes
    BY LooksOf, MType DEF Aligns, FontSizes
  <2>4. Laid(<<[role |-> "title", text |-> t]>>, Looks("title"), Looks("title"))
    BY <2>1, <2>2, <2>3, TextLaid
  <2> QED
    BY <2>4, LooksOf DEF t
<1>3. Laid(head, m, plain)
  <2> HIDE DEF top, title
  <2>1. Laid(top \o title, m, M(0, "center", "double"))
    BY <1>1, <1>2, LaidBoth
  <2> QED
    BY <2>1, Continued, LooksOf DEF Roles, Aligns, FontSizes
<1>4. Laid(mid, m, plain)
  <2> HIDE DEF head
  <2> QED
    BY <1>3, Continued, LooksOf DEF Roles, Aligns, FontSizes
<1>5. Laid(table, m, plain)
  <2> HIDE DEF mid
  <2>1. Laid(mid \o Line("plain") \o BoldOn \o Line("bold"), m, M(1, "left", "normal"))
    BY <1>4, Continued, LooksOf DEF Roles, Aligns, FontSizes
  <2> QED
    BY <2>1, Continued, LooksOf DEF Roles, Aligns, FontSizes
<1>6. Laid(FlattenSeq(blocks), plain, plain)
  <2> DEFINE n == Len(r.items)
  <2>1. /\ n \in Nat
        /\ \A i \in 1 .. n : r.items[i] \in [qty : Text, name : Text, price : Text, extras : Nat]
    BY <1>0, Numbered
  <2> HIDE DEF n
  <2>2. ASSUME NEW i \in 1 .. n PROVE Laid(ItemBlock(r.items[i]), plain, plain)
    BY <2>1, ItemLaid
  <2>3. [i \in 1 .. n |-> ItemBlock(r.items[i])] \in [1 .. n -> Seq(Elements)]
    BY <2>2 DEF Laid
  <2> DEFINE b == [i \in 1 .. n |-> ItemBlock(r.items[i])]
  <2>4. b \in Seq(Seq(Elements)) /\ Len(b) = n
    BY <2>1, <2>3, Sequence
  <2>5. \A i \in 1 .. n : Laid(b[i], plain, plain)
    BY <2>2
  <2>6. plain \in Modes
    BY MType DEF Aligns, FontSizes
  <2> HIDE DEF b, plain
  <2>7. Laid(FlattenSeq(b), plain, plain)
    BY <2>4, <2>5, <2>6, FlattenLaid
  <2> QED
    BY <2>7 DEF b, n
<1>7. Laid(sum, m, plain)
  <2>1. Laid(rows, m, plain)
    <3> HIDE DEF table, blocks, plain
    <3> QED
      BY <1>5, <1>6, LaidBoth
  <2> HIDE DEF rows
  <2> QED
    BY <2>1, Continued, LooksOf DEF Roles, Aligns, FontSizes
<1>8. Laid(sum \o foot, m, plain)
  <2> HIDE DEF sum
  <2>1. CASE r.footer
    BY <1>7, <2>1, Continued, LooksOf DEF Roles, Aligns, FontSizes
  <2>2. CASE ~r.footer
    <3>1. sum \o foot = sum
      BY <1>7, <2>2, ConcatEmptySeq DEF Laid
    <3> QED
      BY <1>7, <3>1
  <2> QED
    BY <2>1, <2>2
<1>9. OrderLike(r) = sum \o foot
  BY DEF OrderLike
<1> QED
  BY <1>8, <1>9

-----------------------------------------------------------------------------
(* The printer.                                                            *)

\* A printer that has not printed all of a document of the bridge's own is in
\* the modes the rest of it is laid out for.
LayoutInv == mode \in Modes /\ (rest = <<>> \/ rest = Foreign \/ \E n : Laid(rest, mode, n))

\* What Render builds is laid out from any modes on, unless it is Foreign.
LEMMA RenderLaid ==
  ASSUME NEW msg \in Messages, ~Fails(msg.kind, msg.receipt), NEW m \in Modes
  PROVE  Render(msg.kind, msg.receipt) = Foreign \/ \E n : Laid(Render(msg.kind, msg.receipt), m, n)
<1> DEFINE kind == msg.kind
           r == msg.receipt
<1>1. kind \in Kinds /\ r \in Receipts \cup {NoReceipt}
  BY LayoutAssumption
<1> HIDE DEF kind, r
<1>2. ~Fails(kind, r)
  BY DEF kind, r
<1>3. CASE kind = "test"
  <2>1. Render(kind, r) = TestPrint
    BY <1>3 DEF Render
  <2> QED
    BY <2>1, TestPrintLaid DEF kind, r
<1>4. CASE kind = "service_call"
  <2>1. Render(kind, r) = ServiceCall
    BY <1>4 DEF Render
  <2> QED
    BY <2>1, ServiceCallLaid DEF kind, r
<1>5. CASE kind \in {"pos_receipt", "logo_provision"} /\ r.b64 = "bytes"
  <2>1. Render(kind, r) = Foreign
    BY <1>5 DEF Render
  <2> QED
    BY <2>1 DEF kind, r
<1>6. CASE kind \in {"order", "kitchen", "pos_receipt"}
           /\ ~ (kind \in {"pos_receipt", "logo_provision"} /\ r.b64 = "bytes")
  <2>1. Render(kind, r) = OrderLike(r)
    BY <1>6 DEF Render
  <2>2. r \in Receipts
    BY <1>1, <1>2, <1>6 DEF Fails
  <2> QED
    BY <2>1, <2>2, OrderLikeLaid DEF kind, r
<1> QED
  BY <1>1, <1>2, <1>3, <1>4, <1>5, <1>6 DEF Kinds, Fails

\* The next element of a document under way.
LEMMA NextElement ==
  ASSUME LayoutInv, rest # <<>>, rest # Foreign
  PROVE  \E n, p : Leads(mode, Head(rest), p) /\ p \in Modes /\ Laid(Tail(rest), p, n)
BY LaidRest DEF LayoutInv

\* Which of the two an element is.
LEMMA OneOrOther ==
  ASSUME NEW m, NEW e, NEW p, Leads(m, e, p)
  PROVE  /\ "cmd" \in DOMAIN e => p = After(e.cmd, m)
         /\ "role" \in DOMAIN e =>
              e \in LineElements /\ m = Looks(e.role) /\ p = m /\ Fits(e)
BY DEF Leads, CommandElements, LineElements

\* Bytes of another program are neither a command nor a line.
LEMMA ForeignElement == Head(Foreign).foreign = TRUE /\ DOMAIN Head(Foreign) = {"foreign"} /\ Foreign # <<>>
BY DEF Foreign

\* LayoutInv is inductive: each element leads to the modes from which the rest is
\* laid out.
LEMMA LayoutStep == LayoutInv /\ [Next]_layoutVars => LayoutInv'
<1> SUFFICES ASSUME LayoutInv, [Next]_layoutVars PROVE LayoutInv'
  OBVIOUS
<1>1. ASSUME NEW msg \in Messages, Receive(msg) PROVE LayoutInv'
  <2>1. /\ ~Fails(msg.kind, msg.receipt) /\ mode' = mode /\ mode \in Modes
        /\ rest' = Render(msg.kind, msg.receipt)
    BY <1>1 DEF Receive, LayoutInv
  <2>2. rest' = Foreign \/ \E n : Laid(rest', mode, n)
    BY <2>1, RenderLaid
  <2> QED
    BY <2>1, <2>2 DEF LayoutInv
<1>2. CASE Obey
  <2>1. /\ rest # <<>> /\ "cmd" \in DOMAIN Head(rest) /\ mode' = After(Head(rest).cmd, mode)
        /\ rest' = Tail(rest)
    BY <1>2 DEF Obey
  <2>2. rest # Foreign
    BY <2>1, ForeignElement
  <2>3. PICK n, p : Leads(mode, Head(rest), p) /\ p \in Modes /\ Laid(Tail(rest), p, n)
    BY <2>1, <2>2, NextElement
  <2>4. p = mode'
    BY <2>1, <2>3, OneOrOther
  <2> QED
    BY <2>1, <2>3, <2>4 DEF LayoutInv
<1>3. CASE PrintLine
  <2>1. rest # <<>> /\ "role" \in DOMAIN Head(rest) /\ mode' = mode /\ rest' = Tail(rest)
    BY <1>3 DEF PrintLine
  <2>2. rest # Foreign
    BY <2>1, ForeignElement
  <2>3. PICK n, p : Leads(mode, Head(rest), p) /\ p \in Modes /\ Laid(Tail(rest), p, n)
    BY <2>1, <2>2, NextElement
  <2>4. p = mode
    BY <2>1, <2>3, OneOrOther
  <2> QED
    BY <2>1, <2>3, <2>4 DEF LayoutInv
<1>4. CASE ObeyForeign
  BY <1>4 DEF ObeyForeign, LayoutInv
<1>5. CASE BreakOff
  BY <1>5 DEF BreakOff, LayoutInv
<1>6. CASE UNCHANGED layoutVars
  BY <1>6 DEF layoutVars, LayoutInv
<1> QED
  BY <1>1, <1>2, <1>3, <1>4, <1>5, <1>6 DEF Next

\* The line that is printed next.
LEMMA NextLine ==
  ASSUME LayoutInv, rest # <<>>, "role" \in DOMAIN Head(rest)
  PROVE  mode = Looks(Head(rest).role) /\ Head(rest) \in LineElements /\ Fits(Head(rest))
<1>1. rest # Foreign
  BY ForeignElement
<1> QED
  BY <1>1, NextElement, OneOrOther

\* So it holds in every state.
LEMMA LayoutKept == Spec => []LayoutInv
<1>1. Init => LayoutInv
  BY DEF Init, LayoutInv
<1> QED
  BY <1>1, LayoutStep, PTL DEF Spec

\* PrintedAsLaidOut, for receipts of any items and columns of any widths, in
\* whatever modes the printer was.
THEOREM LinesAsLaidOut == Spec => []PrintedAsLaidOut
<1>1. LayoutInv => PrintedAsLaidOut
  BY NextLine DEF PrintedAsLaidOut
<1> QED
  BY <1>1, LayoutKept, PTL

\* ColumnsRight, for texts of any characters and columns of any widths.
THEOREM ColumnsStand == Spec => []ColumnsRight
<1>1. ASSUME LayoutInv PROVE ColumnsRight
  <2> DEFINE e == Head(rest)
  <2>1. ASSUME Printing({"row"})
        PROVE  Columns(e.text) = IF Contains(e.text, "x") THEN 0
                                 ELSE ReceiptWidth - Cardinality(Torn(e.text, Len(e.text)))
    <3>1. e.role = "row" /\ e \in LineElements /\ Fits(e)
      BY <1>1, <2>1, NextLine DEF Printing
    <3>2. e.text \in Text /\ Len(e.text) = ReceiptWidth
      BY <3>1 DEF LineElements, Fits
    <3> HIDE DEF e
    <3> QED
      BY <3>2, ColumnsOf
  <2>2. ASSUME Printing({"title"}) PROVE 2 * Columns(e.text) <= ReceiptWidth
    <3>1. e.role = "title" /\ e \in LineElements /\ Fits(e)
      BY <1>1, <2>2, NextLine DEF Printing
    <3>2. e.text \in Text /\ Len(e.text) <= ReceiptWidth \div 2
      BY <3>1 DEF LineElements, Fits
    <3> DEFINE c == Columns(e.text)
               l == Len(e.text)
    <3>3. c \in 0 .. l /\ l \in Nat
      BY <3>2, ColumnsOf, LenProperties DEF Text
    <3>4. l <= ReceiptWidth \div 2
      BY <3>2
    <3> HIDE DEF c, l
    <3>5. 2 * c <= ReceiptWidth
      BY <3>3, <3>4, HalfWidth
    <3> QED
      BY <3>5 DEF c
  <2> QED
    BY <2>1, <2>2 DEF ColumnsRight, Torn
<1> QED
  BY <1>1, LayoutKept, PTL
=============================================================================
