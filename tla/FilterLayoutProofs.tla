------------------------- MODULE FilterLayoutProofs -------------------------
(***************************************************************************)
(* Proofs about FilterLayout, for every number of items and every target   *)
(* load: alternates lead back to where they came from; they stay in the    *)
(* table whenever no mask reaches beyond the range the bucket count was    *)
(* rounded up to, hence in every table of less than 10000 buckets; and the *)
(* items fit.                                                              *)
(***************************************************************************)
EXTENDS FilterLayout, WellFoundedInduction, TLAPS

-----------------------------------------------------------------------------
(* Induction and recursion over the numbers.                               *)

\* A set of numbers that is not empty has a least one.
LEMMA LeastElement ==
  ASSUME NEW T, T \subseteq Nat, T # {}
  PROVE  \E x \in T : \A y \in T : x <= y
<1> DEFINE Less == {p \in Nat \X Nat : p[1] < p[2]}
<1>1. OpToRel(<, Nat) = Less
  BY Zenon DEF OpToRel
<1>2. IsWellFoundedOn(Less, Nat)
  BY <1>1, NatLessThanWellFounded
<1>3. \A x, y \in Nat : y < x => <<y, x>> \in Less
  OBVIOUS
<1> HIDE DEF Less
<1>4. PICK x \in T : \A y \in T : ~ (<<y, x>> \in Less)
  BY <1>2, WFMin
<1>5. ASSUME NEW y \in T PROVE x <= y
  <2>1. x \in Nat /\ y \in Nat
    OBVIOUS
  <2>2. ~ (y < x)
    BY <1>3, <1>4, <2>1, Zenon
  <2> QED BY <2>1, <2>2
<1> QED BY <1>5

\* Induction, as a fact about the set of counterexamples: if below each there
\* is another, there is none.
LEMMA Exhausted ==
  ASSUME NEW T, T \subseteq Nat,
         \A n \in T : \E m \in T : m < n
  PROVE  T = {}
<1>1. SUFFICES ASSUME T # {} PROVE FALSE
  OBVIOUS
<1>2. PICK x \in T : \A y \in T : x <= y
  BY <1>1, LeastElement
<1>3. PICK m \in T : m < x
  OBVIOUS
<1>4. x \in Nat /\ m \in Nat /\ x <= m
  BY <1>2
<1> QED BY <1>3, <1>4


\* f is z at 0, and elsewhere the step from its value at the number before.
Recurses(f, z, before, step) ==
  /\ f[0] = z
  /\ \A n \in Nat : n # 0 => f[n] = step[n][f[before[n]]]

Decreases(before) == \A n \in Nat : n # 0 => before[n] < n

\* A function may be defined by recursion to a smaller argument.  Its
\* approximations on 0 .. n exist, and agree where they are defined.
LEMMA RecursionExists ==
  ASSUME NEW V, NEW z \in V,
         NEW before \in [Nat -> Nat], Decreases(before),
         NEW step \in [Nat -> [V -> V]]
  PROVE  \E f \in [Nat -> V] : Recurses(f, z, before, step)
<1>0. \A n \in Nat : n # 0 => before[n] < n
  BY DEF Decreases
<1> DEFINE Meets(g, n) == /\ g[0] = z
                          /\ \A i \in 0 .. n : i # 0 => g[i] = step[i][g[before[i]]]
           Approx(n) == {g \in [0 .. n -> V] : Meets(g, n)}
<1>1. ASSUME NEW m \in Nat, NEW n \in Nat, NEW g \in Approx(m), NEW h \in Approx(n)
      PROVE  \A i \in Nat : i <= m /\ i <= n => g[i] = h[i]
  <2> DEFINE T == {i \in Nat : i <= m /\ i <= n /\ g[i] # h[i]}
  <2>1. ASSUME NEW i \in T
        PROVE  \E j \in T : j < i
    <3>1. i \in Nat /\ i <= m /\ i <= n /\ g[i] # h[i]
      OBVIOUS
    <3>2. i # 0
      BY <3>1
    <3>3. g[i] = step[i][g[before[i]]] /\ h[i] = step[i][h[before[i]]]
      BY <3>1, <3>2
    <3>4. g[before[i]] # h[before[i]]
      BY <3>1, <3>3
    <3>5. before[i] \in Nat /\ before[i] < i /\ before[i] <= m /\ before[i] <= n
      <4>1. before[i] \in Nat /\ before[i] < i
        BY <1>0, <3>1, <3>2
      <4>2. \A p, q, r \in Nat : p < q /\ q <= r => p <= r
        OBVIOUS
      <4> QED BY <3>1, <4>1, <4>2, Zenon
    <3>6. before[i] \in T
      BY <3>4, <3>5
    <3> QED BY <3>5, <3>6
  <2>2. T \subseteq Nat
    OBVIOUS
  <2> HIDE DEF T
  <2>3. T = {}
    BY <2>1, <2>2, Exhausted
  <2> QED BY <2>3 DEF T
<1>2. \A n \in Nat : Approx(n) # {}
  <2> DEFINE T == {n \in Nat : Approx(n) = {}}
  <2>1. ASSUME NEW n \in T
        PROVE  \E m \in T : m < n
    <3> SUFFICES ASSUME \A m \in Nat : m < n => Approx(m) # {}
                 PROVE  FALSE
      OBVIOUS
    <3>1. n \in Nat /\ Approx(n) = {}
      OBVIOUS
    <3>2. CASE n = 0
      <4> DEFINE g == [i \in 0 .. 0 |-> z]
      <4>1. g \in Approx(0)
        OBVIOUS
      <4> QED BY <3>1, <3>2, <4>1
    <3>3. CASE n # 0
      <4>1. n - 1 \in Nat /\ n - 1 < n
        BY <3>1, <3>3
      <4>2. PICK g : g \in Approx(n - 1)
        BY <4>1
      <4> DEFINE h == [i \in 0 .. n |-> IF i = n THEN step[n][g[before[n]]] ELSE g[i]]
      <4>3. g \in [0 .. n - 1 -> V] /\ Meets(g, n - 1)
        BY <4>2
      <4>4. before[n] \in 0 .. n - 1 /\ g[before[n]] \in V /\ step[n] \in [V -> V]
        BY <1>0, <3>1, <3>3, <4>3
      <4>5. h \in [0 .. n -> V]
        BY <4>3, <4>4, <3>1
      <4>6. h[0] = z
        BY <3>1, <3>3, <4>3
      <4>7. ASSUME NEW i \in 0 .. n, i # 0
            PROVE  h[i] = step[i][h[before[i]]]
        <5>1. before[i] \in 0 .. n - 1
          BY <1>0, <3>1, <4>7
        <5>2. h[before[i]] = g[before[i]]
          BY <5>1, <3>1
        <5>3. CASE i = n
          BY <5>2, <5>3
        <5>4. CASE i # n
          <6>1. i \in 0 .. n - 1
            BY <5>4, <3>1
          <6>2. h[i] = g[i]
            BY <5>4
          <6> QED BY <6>1, <6>2, <5>2, <4>3, <4>7
        <5> QED BY <5>3, <5>4
      <4>8. h \in Approx(n)
        BY <4>5, <4>6, <4>7, Zenon
      <4> QED BY <3>1, <4>8
    <3> QED BY <3>2, <3>3
  <2>2. T \subseteq Nat
    OBVIOUS
  <2> HIDE DEF T, Approx
  <2>3. T = {}
    BY <2>1, <2>2, Exhausted
  <2> QED BY <2>3 DEF T
<1> DEFINE G(n) == CHOOSE g : g \in Approx(n)
           f == [n \in Nat |-> G(n)[n]]
<1>3. \A n \in Nat : G(n) \in Approx(n)
  <2> HIDE DEF Approx
  <2> QED BY <1>2
<1>4. \A n \in Nat : G(n) \in [0 .. n -> V] /\ Meets(G(n), n)
  BY <1>3
<1>5. f \in [Nat -> V]
  <2> HIDE DEF G, Meets
  <2> QED BY <1>4
<1>6. f[0] = z
  <2> HIDE DEF G
  <2> QED BY <1>4
<1>7. ASSUME NEW n \in Nat, n # 0
      PROVE  f[n] = step[n][f[before[n]]]
  <2>1. before[n] \in Nat /\ before[n] < n
    BY <1>0, <1>7
  <2>2. f[n] = G(n)[n] /\ f[before[n]] = G(before[n])[before[n]]
    BY <2>1, Zenon
  <2>3. G(n)[n] = step[n][G(n)[before[n]]]
    <3> HIDE DEF G
    <3> QED BY <1>4, <1>7
  <2>4. G(n)[before[n]] = G(before[n])[before[n]]
    <3> HIDE DEF G, Approx
    <3> QED BY <1>1, <1>3, <2>1
  <2> QED BY <2>2, <2>3, <2>4, Zenon
<1> HIDE DEF f
<1> QED BY <1>5, <1>6, <1>7 DEF Recurses

\* A function all whose values follow from those before them has its type.
LEMMA TypedByRecursion ==
  ASSUME NEW V, NEW g, NEW before \in [Nat -> Nat], Decreases(before),
         g[0] \in V,
         \A n \in Nat : n # 0 /\ g[before[n]] \in V => g[n] \in V
  PROVE  \A n \in Nat : g[n] \in V
<1> DEFINE T == {n \in Nat : g[n] \notin V}
<1>1. ASSUME NEW n \in T PROVE \E m \in T : m < n
  <2>1. n \in Nat /\ g[n] \notin V /\ n # 0
    OBVIOUS
  <2>2. before[n] \in Nat /\ before[n] < n
    BY <2>1 DEF Decreases
  <2>3. before[n] \in T
    BY <2>1, <2>2
  <2> QED BY <2>2, <2>3
<1>2. T \subseteq Nat
  OBVIOUS
<1> HIDE DEF T
<1>3. T = {}
  BY <1>1, <1>2, Exhausted
<1> QED BY <1>3 DEF T

-----------------------------------------------------------------------------
(* The operators on words.                                                 *)

\* Power is the function its definition says.
LEMMA PowerIs ==
  /\ Power \in [Nat -> Nat \ {0}]
  /\ Power[0] = 1
  /\ \A n \in Nat : n # 0 => Power[n] = 2 * Power[n - 1]
<1> DEFINE V == Nat \ {0}
           before == [n \in Nat |-> IF n = 0 THEN 0 ELSE n - 1]
           step == [n \in Nat |-> [v \in V |-> 2 * v]]
           Equation(g) == g = [n \in Nat |-> IF n = 0 THEN 1 ELSE 2 * g[n - 1]]
<1>1. PICK f \in [Nat -> V] : Recurses(f, 1, before, step)
  <2>1. before \in [Nat -> Nat] /\ step \in [Nat -> [V -> V]] /\ 1 \in V
    OBVIOUS
  <2>2. Decreases(before)
    BY DEF Decreases
  <2> HIDE DEF V, before, step
  <2> QED BY <2>1, <2>2, RecursionExists
<1>2. ASSUME NEW n \in Nat, n # 0
      PROVE  f[n] = 2 * f[n - 1]
  <2>1. before[n] = n - 1 /\ n - 1 \in Nat
    BY <1>2
  <2>2. f[n] = step[n][f[n - 1]] /\ f[n - 1] \in V
    BY <1>1, <1>2, <2>1 DEF Recurses
  <2> QED BY <2>2
<1>3. Equation(f)
  BY <1>1, <1>2 DEF Recurses
<1>4. Equation(Power)
  <2> HIDE DEF Equation
  <2>1. Power = CHOOSE g : Equation(g)
    BY Zenon DEF Power, Equation
  <2> QED BY <1>3, <2>1
<1>5. /\ Power[0] = 1
      /\ \A n \in Nat : n # 0 => Power[n] = 2 * Power[n - 1]
  BY <1>4
<1>6. \A n \in Nat : Power[n] \in V
  <2>1. before \in [Nat -> Nat] /\ Decreases(before)
    BY DEF Decreases
  <2>2. \A n \in Nat : n # 0 /\ Power[before[n]] \in V => Power[n] \in V
    BY <1>5
  <2>3. Power[0] \in V
    BY <1>5
  <2> HIDE DEF V, before
  <2> QED BY <2>1, <2>2, <2>3, TypedByRecursion
<1> QED BY <1>4, <1>5, <1>6

LEMMA HalfSmaller ==
  \A n \in Nat : n \div 2 \in Nat /\ (n # 0 => n \div 2 < n)
OBVIOUS

\* The first powers of two.
LEMMA FirstPowers ==
  /\ Power[0] = 1 /\ Power[1] = 2 /\ Power[2] = 4 /\ Power[3] = 8
  /\ Power[4] = 16 /\ Power[5] = 32 /\ Power[6] = 64 /\ Power[7] = 128
  /\ Power[8] = 256 /\ Power[9] = 512 /\ Power[10] = 1024
  /\ Power[11] = 2048 /\ Power[12] = 4096
<1>1. /\ Power[0] = 1 /\ Power[1] = 2 /\ Power[2] = 4 /\ Power[3] = 8
      /\ Power[4] = 16 /\ Power[5] = 32 /\ Power[6] = 64
  BY PowerIs
<1> QED BY <1>1, PowerIs

\* What Xor and And have in common: a digit and, from the rest of both words,
\* the rest of the result.
DigitByDigit(g, z, digit) ==
  g = [a \in Nat |-> [b \in Nat |->
         IF a = 0 THEN z[b] ELSE 2 * g[a \div 2][b \div 2] + digit[a][b]]]

Digits(g, z, digit) ==
  /\ g \in [Nat -> [Nat -> Nat]]
  /\ \A b \in Nat : g[0][b] = z[b]
  /\ \A a, b \in Nat : a # 0 =>
       g[a][b] = 2 * g[a \div 2][b \div 2] + digit[a][b]

LEMMA DigitRecursion ==
  ASSUME NEW z \in [Nat -> Nat], NEW digit \in [Nat -> [Nat -> Nat]]
  PROVE  /\ \E g : DigitByDigit(g, z, digit)
         /\ \A g : DigitByDigit(g, z, digit) => Digits(g, z, digit)
<1> DEFINE V == [Nat -> Nat]
           before == [n \in Nat |-> n \div 2]
           Row(n, h) == [b \in Nat |-> 2 * h[b \div 2] + digit[n][b]]
           step == [n \in Nat |-> [h \in V |-> Row(n, h)]]
<1>1. before \in [Nat -> Nat] /\ Decreases(before)
  BY HalfSmaller DEF Decreases
<1>2. ASSUME NEW n \in Nat, NEW h \in V
      PROVE  Row(n, h) \in V
  <2>1. ASSUME NEW b \in Nat
        PROVE  2 * h[b \div 2] + digit[n][b] \in Nat
    <3>1. h[b \div 2] \in Nat
      BY HalfSmaller
    <3>2. digit[n][b] \in Nat
      OBVIOUS
    <3>3. \A x, y \in Nat : 2 * x + y \in Nat
      OBVIOUS
    <3> QED BY <3>1, <3>2, <3>3, Zenon
  <2> QED BY <2>1
<1>3. \E g : DigitByDigit(g, z, digit)
  <2>1. step \in [Nat -> [V -> V]]
    <3>1. ASSUME NEW n \in Nat
          PROVE  [h \in V |-> Row(n, h)] \in [V -> V]
      <4> HIDE DEF V, Row
      <4> QED BY <1>2
    <3> HIDE DEF V, Row
    <3> QED BY <3>1
  <2>2. PICK g \in [Nat -> V] : Recurses(g, z, before, step)
    <3>1. z \in V
      OBVIOUS
    <3> HIDE DEF V, before, step
    <3> QED BY <1>1, <2>1, <3>1, RecursionExists
  <2>3. ASSUME NEW a \in Nat, a # 0
        PROVE  g[a] = Row(a, g[a \div 2])
    <3>1. a \div 2 \in Nat /\ before[a] = a \div 2
      BY HalfSmaller
    <3>2. g[a] = step[a][g[a \div 2]] /\ g[a \div 2] \in V
      BY <2>2, <2>3, <3>1, Zenon DEF Recurses
    <3> QED BY <3>2, Zenon
  <2>4. g[0] = [b \in Nat |-> z[b]]
    BY <2>2 DEF Recurses
  <2>5. ASSUME NEW a \in Nat
        PROVE  g[a] = [b \in Nat |->
                         IF a = 0 THEN z[b]
                         ELSE 2 * g[a \div 2][b \div 2] + digit[a][b]]
    <3>1. CASE a = 0
      BY <2>4, <3>1
    <3>2. CASE a # 0
      BY <2>3, <3>2
    <3> QED BY <3>1, <3>2
  <2>6. DigitByDigit(g, z, digit)
    BY <2>2, <2>5, Zenon DEF DigitByDigit
  <2> QED BY <2>6
<1>4. ASSUME NEW g, DigitByDigit(g, z, digit)
      PROVE  Digits(g, z, digit)
  <2>1. ASSUME NEW a \in Nat
        PROVE  g[a] = [b \in Nat |->
                         IF a = 0 THEN z[b]
                         ELSE 2 * g[a \div 2][b \div 2] + digit[a][b]]
    BY <1>4, Zenon DEF DigitByDigit
  <2>2. ASSUME NEW n \in Nat, n # 0, g[before[n]] \in V
        PROVE  g[n] \in V
    <3>1. n \div 2 \in Nat /\ g[n \div 2] \in V
      BY <2>2, HalfSmaller
    <3>2. Row(n, g[n \div 2]) \in V
      <4> DEFINE h == g[n \div 2]
      <4>1. h \in V
        BY <3>1
      <4> HIDE DEF h
      <4>2. Row(n, h) \in V
        BY <4>1, <1>2, <2>2
      <4> QED BY <4>2 DEF h
    <3>3. g[n] = Row(n, g[n \div 2])
      BY <2>1, <2>2
    <3> QED BY <3>2, <3>3
  <2>3. g[0] \in V
    BY <2>1
  <2>4. \A n \in Nat : g[n] \in V
    <3> HIDE DEF V, before
    <3> QED BY <1>1, <2>2, <2>3, TypedByRecursion
  <2>5. g \in [Nat -> V]
    BY <1>4, <2>4, Zenon DEF DigitByDigit
  <2> QED BY <2>1, <2>5 DEF Digits
<1> QED BY <1>3, <1>4

\* Xor is the function its definition says.
LEMMA XorIs ==
  /\ Xor \in [Nat -> [Nat -> Nat]]
  /\ \A b \in Nat : Xor[0][b] = b
  /\ \A a, b \in Nat : a # 0 =>
       Xor[a][b] = 2 * Xor[a \div 2][b \div 2] + ((a + b) % 2)
<1> DEFINE z == [b \in Nat |-> b]
           digit == [a \in Nat |-> [b \in Nat |-> (a + b) % 2]]
           Equation(g) ==
             g = [a \in Nat |-> [b \in Nat |->
                    IF a = 0 THEN b
                    ELSE 2 * g[a \div 2][b \div 2] + ((a + b) % 2)]]
<1>1. z \in [Nat -> Nat] /\ digit \in [Nat -> [Nat -> Nat]]
  OBVIOUS
<1>2. ASSUME NEW g
      PROVE  DigitByDigit(g, z, digit) <=> Equation(g)
  BY DEF DigitByDigit
<1>3. Equation(Xor)
  <2>1. \E g : Equation(g)
    <3> HIDE DEF z, digit, Equation
    <3> QED BY <1>1, <1>2, DigitRecursion
  <2>2. Xor = CHOOSE g : Equation(g)
    BY Zenon DEF Xor
  <2> HIDE DEF Equation
  <2> QED BY <2>1, <2>2
<1>4. DigitByDigit(Xor, z, digit)
  BY <1>2, <1>3, Zenon
<1>5. Digits(Xor, z, digit)
  <2> HIDE DEF z, digit
  <2> QED BY <1>1, <1>4, DigitRecursion
<1> QED BY <1>5 DEF Digits

\* And is the function its definition says.
LEMMA AndIs ==
  /\ And \in [Nat -> [Nat -> Nat]]
  /\ \A b \in Nat : And[0][b] = 0
  /\ \A a, b \in Nat : a # 0 =>
       And[a][b] = 2 * And[a \div 2][b \div 2] + (a % 2) * (b % 2)
<1> DEFINE z == [b \in Nat |-> 0]
           digit == [a \in Nat |-> [b \in Nat |-> (a % 2) * (b % 2)]]
           Equation(g) ==
             g = [a \in Nat |-> [b \in Nat |->
                    IF a = 0 THEN 0
                    ELSE 2 * g[a \div 2][b \div 2] + (a % 2) * (b % 2)]]
<1>1. z \in [Nat -> Nat] /\ digit \in [Nat -> [Nat -> Nat]]
  OBVIOUS
<1>2. ASSUME NEW g
      PROVE  DigitByDigit(g, z, digit) <=> Equation(g)
  BY DEF DigitByDigit
<1>3. Equation(And)
  <2>1. \E g : Equation(g)
    <3> HIDE DEF z, digit, Equation
    <3> QED BY <1>1, <1>2, DigitRecursion
  <2>2. And = CHOOSE g : Equation(g)
    BY Zenon DEF And
  <2> HIDE DEF Equation
  <2> QED BY <2>1, <2>2
<1>4. DigitByDigit(And, z, digit)
  BY <1>2, <1>3, Zenon
<1>5. Digits(And, z, digit)
  <2> HIDE DEF z, digit
  <2> QED BY <1>1, <1>4, DigitRecursion
<1> QED BY <1>5 DEF Digits

\* The equation of Xor holds at 0, too.
LEMMA XorStep ==
  ASSUME NEW a \in Nat, NEW b \in Nat
  PROVE  /\ Xor[a][b] \in Nat
         /\ Xor[a][b] = 2 * Xor[a \div 2][b \div 2] + ((a + b) % 2)
<1>1. Xor[a][b] \in Nat
  BY XorIs
<1>2. CASE a = 0
  <2>1. b \div 2 \in Nat /\ b = 2 * (b \div 2) + (b % 2)
    OBVIOUS
  <2>2. Xor[0][b] = b /\ Xor[0][b \div 2] = b \div 2
    BY XorIs, <2>1
  <2>3. a \div 2 = 0 /\ a + b = b
    BY <1>2
  <2> QED BY <1>1, <1>2, <2>1, <2>2, <2>3
<1>3. CASE a # 0
  BY <1>1, <1>3, XorIs
<1> QED BY <1>2, <1>3

\* The last digit of an exclusive or, and the rest.
LEMMA XorSplit ==
  ASSUME NEW a \in Nat, NEW b \in Nat
  PROVE  /\ Xor[a][b] % 2 = (a + b) % 2
         /\ Xor[a][b] \div 2 = Xor[a \div 2][b \div 2]
<1> DEFINE rest == Xor[a \div 2][b \div 2]
           digit == (a + b) % 2
<1>1. rest \in Nat
  BY XorStep, HalfSmaller
<1>2. digit \in {0, 1}
  OBVIOUS
<1>3. Xor[a][b] = 2 * rest + digit
  BY XorStep
<1> HIDE DEF rest, digit
<1>4. Xor[a][b] % 2 = digit /\ Xor[a][b] \div 2 = rest
  BY <1>1, <1>2, <1>3
<1> QED BY <1>4 DEF rest, digit

LEMMA XorZero ==
  \A a \in Nat : Xor[a][0] = a
<1> DEFINE T == {a \in Nat : Xor[a][0] # a}
<1>1. ASSUME NEW a \in T PROVE \E m \in T : m < a
  <2>1. a \in Nat /\ Xor[a][0] # a
    OBVIOUS
  <2>2. a # 0
    BY <2>1, XorIs
  <2>3. Xor[a][0] = 2 * Xor[a \div 2][0] + (a % 2)
    <3>1. 0 \div 2 = 0 /\ a + 0 = a /\ 0 \in Nat
      BY <2>1
    <3> QED BY <2>1, <3>1, XorStep
  <2>4. a \div 2 \in Nat /\ a \div 2 < a /\ a = 2 * (a \div 2) + (a % 2)
    BY <2>1, <2>2
  <2>5. Xor[a \div 2][0] # a \div 2
    BY <2>1, <2>3, <2>4
  <2> QED BY <2>4, <2>5
<1>2. T \subseteq Nat
  OBVIOUS
<1> HIDE DEF T
<1>3. T = {}
  BY <1>1, <1>2, Exhausted
<1> QED BY <1>3 DEF T

LEMMA XorSelf ==
  \A m \in Nat : Xor[m][m] = 0
<1> DEFINE T == {m \in Nat : Xor[m][m] # 0}
<1>1. ASSUME NEW m \in T PROVE \E k \in T : k < m
  <2>1. m \in Nat /\ Xor[m][m] # 0
    OBVIOUS
  <2>2. m # 0
    BY <2>1, XorIs
  <2>3. m \div 2 \in Nat /\ m \div 2 < m
    BY <2>1, <2>2
  <2>4. Xor[m][m] = 2 * Xor[m \div 2][m \div 2] + ((m + m) % 2)
    BY <2>1, XorStep
  <2>5. (m + m) % 2 = 0
    BY <2>1
  <2>6. Xor[m \div 2][m \div 2] # 0
    BY <2>1, <2>4, <2>5
  <2> QED BY <2>3, <2>6
<1>2. T \subseteq Nat
  OBVIOUS
<1> HIDE DEF T
<1>3. T = {}
  BY <1>1, <1>2, Exhausted
<1> QED BY <1>3 DEF T

\* Exclusive or with the same word leads back.
LEMMA XorReturns ==
  \A a, m \in Nat : Xor[Xor[a][m]][m] = a
<1> DEFINE T == {a \in Nat : \E m \in Nat : Xor[Xor[a][m]][m] # a}
<1>1. ASSUME NEW a \in T PROVE \E k \in T : k < a
  <2>1. PICK m \in Nat : Xor[Xor[a][m]][m] # a
    OBVIOUS
  <2>2. a \in Nat
    OBVIOUS
  <2>3. a # 0
    BY <2>1, XorIs, XorSelf
  <2> DEFINE x == Xor[a][m]
  <2>4. /\ x \in Nat
        /\ x % 2 = (a + m) % 2
        /\ x \div 2 = Xor[a \div 2][m \div 2]
    BY <2>2, XorStep, XorSplit
  <2> HIDE DEF x
  <2>5. Xor[x][m] = 2 * Xor[x \div 2][m \div 2] + ((x + m) % 2)
    BY <2>4, XorStep
  <2>6. (x + m) % 2 = a % 2
    BY <2>2, <2>4
  <2>7. a \div 2 \in Nat /\ a \div 2 < a /\ a = 2 * (a \div 2) + (a % 2)
    BY <2>2, <2>3
  <2>8. Xor[x \div 2][m \div 2] # a \div 2
    BY <2>1, <2>2, <2>5, <2>6, <2>7 DEF x
  <2>9. m \div 2 \in Nat
    OBVIOUS
  <2> QED BY <2>4, <2>7, <2>8, <2>9
<1>2. T \subseteq Nat
  OBVIOUS
<1> HIDE DEF T
<1>3. T = {}
  BY <1>1, <1>2, Exhausted
<1> QED BY <1>3 DEF T

\* Exclusive or with a word of e bits leaves a number below a multiple of 2^e
\* below it.
LEMMA XorBelow ==
  \A e \in Nat : \A k, a, m \in Nat :
    m < Power[e] /\ a < k * Power[e] => Xor[a][m] < k * Power[e]
<1> DEFINE Stays(e) == \A k, a, m \in Nat :
             m < Power[e] /\ a < k * Power[e] => Xor[a][m] < k * Power[e]
           T == {e \in Nat : ~ Stays(e)}
<1>1. ASSUME NEW e \in T PROVE \E d \in T : d < e
  <2>1. e \in Nat
    OBVIOUS
  <2>2. PICK k \in Nat, a \in Nat, m \in Nat :
          /\ m < Power[e]
          /\ a < k * Power[e]
          /\ ~ (Xor[a][m] < k * Power[e])
    OBVIOUS
  <2>3. e # 0
    <3>1. ASSUME e = 0 PROVE FALSE
      <4>1. m = 0
        BY <2>2, <3>1, PowerIs
      <4> QED BY <2>2, <4>1, XorZero
    <3> QED BY <3>1
  <2>4. e - 1 \in Nat /\ e - 1 < e
    BY <2>1, <2>3
  <2> DEFINE half == Power[e - 1]
             bound == k * half
  <2>5. half \in Nat \ {0} /\ Power[e] = 2 * half
    BY <2>1, <2>3, <2>4, PowerIs
  <2> HIDE DEF half
  <2>6. bound \in Nat /\ k * Power[e] = 2 * bound
    BY <2>5
  <2> HIDE DEF bound
  <2>7. m \div 2 \in Nat /\ m \div 2 < half
    BY <2>2, <2>5
  <2>8. a \div 2 \in Nat /\ a \div 2 < bound
    BY <2>2, <2>6
  <2>9. /\ Xor[a][m] = 2 * Xor[a \div 2][m \div 2] + ((a + m) % 2)
        /\ Xor[a \div 2][m \div 2] \in Nat
    BY <2>7, <2>8, XorStep
  <2>10. ~ (Xor[a \div 2][m \div 2] < bound)
    BY <2>2, <2>6, <2>9
  <2>11. ~ Stays(e - 1)
    BY <2>4, <2>7, <2>8, <2>10 DEF half, bound
  <2> QED BY <2>4, <2>11
<1>2. T \subseteq Nat
  OBVIOUS
<1> HIDE DEF T, Stays
<1>3. T = {}
  BY <1>1, <1>2, Exhausted
<1>4. \A e \in Nat : Stays(e)
  BY <1>3 DEF T
<1> QED BY <1>4 DEF Stays

\* Exclusive or passes the last e bits by if one of the words has none there.
LEMMA XorShifted ==
  \A e \in Nat : \A q, s, r \in Nat :
    r < Power[e] =>
      Xor[q * Power[e] + r][s * Power[e]] = Xor[q][s] * Power[e] + r
<1> DEFINE Shifts(e) == \A q, s, r \in Nat :
             r < Power[e] =>
               Xor[q * Power[e] + r][s * Power[e]] = Xor[q][s] * Power[e] + r
           T == {e \in Nat : ~ Shifts(e)}
<1>1. ASSUME NEW e \in T PROVE \E d \in T : d < e
  <2>1. e \in Nat
    OBVIOUS
  <2>2. PICK q \in Nat, s \in Nat, r \in Nat :
          /\ r < Power[e]
          /\ Xor[q * Power[e] + r][s * Power[e]] # Xor[q][s] * Power[e] + r
    OBVIOUS
  <2> DEFINE x == Xor[q][s]
  <2>3. x \in Nat
    BY XorStep
  <2>4. e # 0
    <3>1. ASSUME e = 0 PROVE FALSE
      <4>1. Power[e] = 1 /\ r = 0
        BY <2>2, <3>1, PowerIs
      <4>2. q * 1 + 0 = q /\ s * 1 = s /\ x * 1 + 0 = x
        BY <2>3
      <4> QED BY <2>2, <4>1, <4>2
    <3> QED BY <3>1
  <2>5. e - 1 \in Nat /\ e - 1 < e
    BY <2>1, <2>4
  <2> DEFINE half == Power[e - 1]
             a == q * half
             b == s * half
             c == x * half
             h == r \div 2
  <2>6. half \in Nat \ {0} /\ Power[e] = 2 * half
    BY <2>1, <2>4, <2>5, PowerIs
  <2> HIDE DEF x, half
  <2>7. /\ a \in Nat /\ b \in Nat /\ c \in Nat
        /\ q * Power[e] = 2 * a /\ s * Power[e] = 2 * b /\ x * Power[e] = 2 * c
    BY <2>3, <2>6
  <2> HIDE DEF a, b, c
  <2>8. h \in Nat /\ h < half /\ r = 2 * h + (r % 2)
    BY <2>2, <2>6
  <2> HIDE DEF h
  <2>9. /\ 2 * a + r \in Nat /\ 2 * b \in Nat
        /\ (2 * a + r) \div 2 = a + h
        /\ (2 * b) \div 2 = b
        /\ (2 * a + r + 2 * b) % 2 = r % 2
    BY <2>7, <2>8
  <2>10. Xor[2 * a + r][2 * b] = 2 * Xor[a + h][b] + (r % 2)
    <3> DEFINE u == 2 * a + r
               v == 2 * b
    <3>1. u \in Nat /\ v \in Nat
      BY <2>9
    <3> HIDE DEF u, v
    <3>2. Xor[u][v] = 2 * Xor[u \div 2][v \div 2] + ((u + v) % 2)
      BY <3>1, XorStep
    <3> QED BY <2>9, <3>2 DEF u, v
  <2>11. Xor[2 * a + r][2 * b] # 2 * c + r
    BY <2>2, <2>7 DEF x
  <2>12. Xor[a + h][b] # c + h
    BY <2>7, <2>8, <2>10, <2>11
  <2>13. ~ Shifts(e - 1)
    BY <2>8, <2>12 DEF half, a, b, c, x
  <2> QED BY <2>5, <2>13
<1>2. T \subseteq Nat
  OBVIOUS
<1> HIDE DEF T, Shifts
<1>3. T = {}
  BY <1>1, <1>2, Exhausted
<1>4. \A e \in Nat : Shifts(e)
  BY <1>3 DEF T
<1> QED BY <1>4 DEF Shifts

LEMMA XorOne ==
  ASSUME NEW q \in Nat, q % 2 = 0
  PROVE  Xor[q][1] = q + 1
<1>1. ASSUME NEW b \in Nat, b = 1
      PROVE  Xor[q][b] = q + 1
  <2>1. Xor[q][b] = 2 * Xor[q \div 2][b \div 2] + ((q + b) % 2)
    BY XorStep
  <2>2. q \div 2 \in Nat /\ (q + b) % 2 = 1 /\ b \div 2 = 0 /\ 2 * (q \div 2) = q
    BY <1>1
  <2>3. Xor[q \div 2][0] = q \div 2
    BY <2>2, XorZero
  <2> QED BY <2>1, <2>2, <2>3
<1> QED BY <1>1

\* Where bit 10 is not set, setting it leaves every table that does not end
\* with a whole period of that bit.
LEMMA BitTenLeaves ==
  ASSUME NEW count \in Nat, count % 2048 # 0
  PROVE  \E p \in 0 .. count - 1 : Xor[p][1024] >= count
<1> DEFINE q == 2 * (count \div 2048)
           rest == count % 2048
           r == IF rest <= 1024 THEN rest - 1 ELSE 1023
           p == q * 1024 + r
<1>0. q \in Nat
  OBVIOUS
<1>1. /\ q % 2 = 0
      /\ rest \in 1 .. 2047
      /\ count = q * 1024 + rest
  OBVIOUS
<1>2. Power[10] = 1024
  BY FirstPowers
<1> HIDE DEF q, rest
<1>3. r \in 0 .. 1023 /\ r < rest /\ r + 1024 >= rest
  BY <1>1
<1> HIDE DEF r
<1>4. Xor[q][1] = q + 1
  BY <1>0, <1>1, XorOne
<1>5. Xor[q * 1024 + r][1 * 1024] = Xor[q][1] * 1024 + r
  <2>1. 10 \in Nat /\ 1 \in Nat /\ r \in Nat /\ r < 1024
    BY <1>3
  <2>2. ASSUME NEW e \in Nat, NEW s \in Nat, e = 10, s = 1
        PROVE  Xor[q * Power[e] + r][s * Power[e]] = Xor[q][s] * Power[e] + r
    <3>1. r < Power[e]
      BY <1>2, <2>1, <2>2
    <3> QED BY <1>0, <2>1, <3>1, XorShifted
  <2> QED BY <1>2, <2>1, <2>2
<1>6. Xor[p][1024] = p + 1024
  BY <1>0, <1>3, <1>4, <1>5
<1>7. p \in 0 .. count - 1 /\ p + 1024 >= count
  BY <1>0, <1>1, <1>3
<1> HIDE DEF p
<1> QED BY <1>6, <1>7

\* What is masked is not more than the mask.
LEMMA AndBelow ==
  \A a, m \in Nat : And[a][m] \in Nat /\ And[a][m] <= m
<1> DEFINE T == {a \in Nat : \E m \in Nat : ~ (And[a][m] <= m)}
<1>1. ASSUME NEW a \in T PROVE \E k \in T : k < a
  <2>1. PICK m \in Nat : ~ (And[a][m] <= m)
    OBVIOUS
  <2>2. a \in Nat
    OBVIOUS
  <2>3. a # 0
    <3>1. And[0][m] = 0 /\ 0 <= m
      BY AndIs
    <3> QED BY <2>1, <3>1
  <2>4. And[a][m] = 2 * And[a \div 2][m \div 2] + (a % 2) * (m % 2)
    BY <2>2, <2>3, AndIs
  <2>5. a \div 2 \in Nat /\ a \div 2 < a /\ a % 2 \in {0, 1}
    BY <2>2, <2>3
  <2>6. m \div 2 \in Nat /\ m % 2 \in {0, 1} /\ m = 2 * (m \div 2) + (m % 2)
    OBVIOUS
  <2>7. And[a \div 2][m \div 2] \in Nat
    BY <2>5, <2>6, AndIs
  <2> DEFINE rest == And[a \div 2][m \div 2]
             digit == (a % 2) * (m % 2)
  <2>8. digit <= m % 2 /\ digit \in Nat
    BY <2>5, <2>6
  <2>9. rest \in Nat /\ And[a][m] = 2 * rest + digit
    BY <2>4, <2>7
  <2> HIDE DEF rest, digit
  <2>10. ~ (rest <= m \div 2)
    BY <2>1, <2>6, <2>8, <2>9
  <2> QED BY <2>5, <2>6, <2>10 DEF rest
<1>2. T \subseteq Nat
  OBVIOUS
<1> HIDE DEF T
<1>3. T = {}
  BY <1>1, <1>2, Exhausted
<1>4. \A a, m \in Nat : And[a][m] \in Nat
  BY AndIs
<1> QED BY <1>3, <1>4 DEF T

-----------------------------------------------------------------------------
(* Layouts.                                                                *)

\* A quotient rounded up, times the divisor, is not less than the dividend.
LEMMA QuotientRoundedUp ==
  ASSUME NEW x \in Nat, NEW d \in Nat \ {0}
  PROVE  /\ (x + d - 1) \div d \in Nat
         /\ ((x + d - 1) \div d) * d >= x
         /\ x # 0 => (x + d - 1) \div d # 0
<1> DEFINE q == (x + d - 1) \div d
           r == (x + d - 1) % d
<1>1. x + d - 1 = d * q + r /\ q \in Int /\ r \in 0 .. d - 1
  OBVIOUS
<1> HIDE DEF q, r
<1>2. d * q >= x
  BY <1>1
<1>3. q >= 0
  <2>1. ASSUME q <= -1 PROVE d * q <= -d
    BY <1>1, <2>1
  <2> QED BY <1>1, <1>2, <2>1
<1>4. q * d = d * q
  BY <1>1
<1>5. x # 0 => q # 0
  BY <1>1, <1>2
<1> QED BY <1>1, <1>2, <1>3, <1>4, <1>5 DEF q

LEMMA PowerGrows ==
  \A n \in Nat : n < Power[n]
<1> DEFINE T == {n \in Nat : ~ (n < Power[n])}
<1>1. ASSUME NEW n \in T PROVE \E m \in T : m < n
  <2>1. n \in Nat /\ ~ (n < Power[n])
    OBVIOUS
  <2>2. n # 0
    BY <2>1, PowerIs
  <2>3. /\ n - 1 \in Nat
        /\ n - 1 < n
        /\ Power[n] = 2 * Power[n - 1]
        /\ Power[n - 1] \in Nat \ {0}
    BY <2>1, <2>2, PowerIs
  <2>4. ~ (n - 1 < Power[n - 1])
    BY <2>1, <2>3
  <2> QED BY <2>3, <2>4
<1>2. T \subseteq Nat
  OBVIOUS
<1> HIDE DEF T
<1>3. T = {}
  BY <1>1, <1>2, Exhausted
<1> QED BY <1>3 DEF T

\* The loop of UpperPowerOfTwo ends, with the least power that is large enough.
LEMMA UpperPowerIsLeast ==
  ASSUME NEW value \in Nat
  PROVE  \E e \in Nat : /\ UpperPowerOfTwo(value) = Power[e]
                        /\ Power[e] >= value
                        /\ \A d \in 0 .. e - 1 : Power[d] < value
<1> DEFINE T == {e \in Nat : Power[e] >= value}
           Least(e) == Power[e] >= value /\ \A d \in 0 .. e - 1 : Power[d] < value
<1>1. T \subseteq Nat /\ value \in T
  BY PowerGrows, PowerIs
<1>2. PICK x \in T : \A y \in T : x <= y
  <2> HIDE DEF T
  <2> QED BY <1>1, LeastElement
<1>3. x \in 0 .. value /\ Power[x] >= value
  BY <1>1, <1>2
<1>4. ASSUME NEW d \in 0 .. x - 1 PROVE Power[d] < value
  <2>1. d \in Nat /\ ~ (x <= d)
    BY <1>3
  <2>2. d \notin T
    BY <1>2, <2>1
  <2> QED BY <2>1, <2>2, PowerIs
<1>5. Least(x)
  BY <1>3, <1>4
<1> DEFINE e == CHOOSE y \in 0 .. value : Least(y)
<1>6. e \in 0 .. value /\ Least(e)
  <2> HIDE DEF Least
  <2> QED BY <1>3, <1>5
<1>7. UpperPowerOfTwo(value) = Power[e]
  BY Zenon DEF UpperPowerOfTwo
<1> HIDE DEF e
<1> QED BY <1>6, <1>7

\* At least one bucket is asked for, and as many as the items need.
LEMMA RequestedSuffices ==
  ASSUME NEW items \in Items
  PROVE  /\ RequestedBuckets(items) \in Nat \ {0}
         /\ RequestedBuckets(items) * (LoadPercent * SlotsPerBucket) >= items * 100
<1> DEFINE x == items * 100
           d == LoadPercent * SlotsPerBucket
<1>1. x \in Nat \ {0} /\ d \in Nat \ {0}
  BY ConstructorAssumption DEF SlotsPerBucket
<1>2. RequestedBuckets(items) = (x + d - 1) \div d
  BY DEF RequestedBuckets
<1> HIDE DEF x, d
<1>3. /\ (x + d - 1) \div d \in Nat
      /\ ((x + d - 1) \div d) * d >= x
      /\ (x + d - 1) \div d # 0
  BY <1>1, QuotientRoundedUp
<1> QED BY <1>2, <1>3 DEF x, d

\* The bucket count is rounded to a power of two, on both sides of 10000.
LEMMA BaseIsPower ==
  ASSUME NEW items \in Items
  PROVE  \E e \in Nat : BaseRange(items) = Power[e]
<1> DEFINE n == RequestedBuckets(items)
<1>1. n \in Nat
  BY RequestedSuffices
<1>2. CASE n < 10000
  <2>1. BaseRange(items) = SmallSegment(n)
    BY <1>2 DEF BaseRange
  <2>2. (n + 3) \div 4 \in Nat
    BY <1>1
  <2> HIDE DEF n
  <2>3. CASE n < 256
    BY <1>1, <2>1, <2>3, UpperPowerIsLeast DEF SmallSegment
  <2>4. CASE ~ (n < 256)
    BY <2>1, <2>2, <2>4, UpperPowerIsLeast DEF SmallSegment
  <2> QED BY <2>3, <2>4
<1>3. CASE ~ (n < 10000)
  <2>1. n >= 10000
    BY <1>1, <1>3
  <2>2. IsPowerOfTwo(ProperAlternateRange(n, 0))
    BY <2>1, RangeAssumption
  <2>3. BaseRange(items) = ProperAlternateRange(n, 0)
    BY <1>3 DEF BaseRange
  <2> HIDE DEF n
  <2>4. PICK e \in 0 .. ProperAlternateRange(n, 0) :
          Power[e] = ProperAlternateRange(n, 0)
    BY <2>2 DEF IsPowerOfTwo
  <2>5. e \in Nat
    OBVIOUS
  <2> QED BY <2>3, <2>4, <2>5
<1> QED BY <1>2, <1>3

\* The bucket count is a multiple of the range, and not less than was asked for.
LEMMA CountIsMultiple ==
  ASSUME NEW items \in Items
  PROVE  /\ BaseRange(items) \in Nat \ {0}
         /\ BucketCount(items) \in Nat
         /\ BucketCount(items) >= RequestedBuckets(items)
         /\ \E k \in Nat : BucketCount(items) = k * BaseRange(items)
<1> DEFINE n == RequestedBuckets(items)
           base == BaseRange(items)
<1>1. n \in Nat /\ base \in Nat \ {0}
  BY RequestedSuffices, BaseIsPower, PowerIs
<1>2. BucketCount(items) = ((n + base - 1) \div base) * base
  BY DEF BucketCount, RoundUp
<1> HIDE DEF n, base
<1>3. /\ (n + base - 1) \div base \in Nat
      /\ ((n + base - 1) \div base) * base >= n
  BY <1>1, QuotientRoundedUp
<1> DEFINE k == (n + base - 1) \div base
<1> HIDE DEF k
<1>4. k \in Nat /\ BucketCount(items) = k * base /\ k * base >= n
  BY <1>2, <1>3 DEF k
<1>5. BucketCount(items) \in Nat
  BY <1>1, <1>4
<1> QED BY <1>1, <1>4, <1>5 DEF n, base

LEMMA MasksAreWords ==
  ASSUME NEW items \in Items
  PROVE  AlternateMasks(items) \in [0 .. 3 -> Nat]
<1> DEFINE base == BaseRange(items)
           Range(c) == ProperAlternateRange(BucketCount(items), c)
<1>1. base \in Nat \ {0}
  BY CountIsMultiple
<1>2. CASE RequestedBuckets(items) < 10000
  <2>1. AlternateMasks(items) = [c \in 0 .. 3 |-> base - 1]
    BY <1>2 DEF AlternateMasks
  <2> HIDE DEF base
  <2> QED BY <1>1, <2>1
<1>3. CASE ~ (RequestedBuckets(items) < 10000)
  <2>1. RequestedBuckets(items) >= 10000
    BY <1>3, RequestedSuffices
  <2>2. ASSUME NEW c \in 1 .. 3
        PROVE  Range(c) \in Nat \ {0}
    <3>1. IsPowerOfTwo(Range(c))
      BY <2>1, RangeAssumption
    <3> HIDE DEF Range
    <3>2. PICK e \in 0 .. Range(c) : Power[e] = Range(c)
      BY <3>1 DEF IsPowerOfTwo
    <3> QED BY <3>2, PowerIs
  <2>3. AlternateMasks(items) =
          [c \in 0 .. 3 |->
             CASE c = 0 -> IF base - 1 < 1024 THEN 1024 ELSE base - 1
               [] c \in {1, 2} -> Range(c) - 1
               [] c = 3 -> Range(c) * 2 - 1]
    BY <1>3 DEF AlternateMasks
  <2> HIDE DEF base, Range
  <2>4. /\ Range(1) - 1 \in Nat
        /\ Range(2) - 1 \in Nat
        /\ Range(3) * 2 - 1 \in Nat
        /\ (IF base - 1 < 1024 THEN 1024 ELSE base - 1) \in Nat
    BY <1>1, <2>2
  <2>5. ASSUME NEW c \in 0 .. 3
        PROVE  (CASE c = 0 -> IF base - 1 < 1024 THEN 1024 ELSE base - 1
                  [] c \in {1, 2} -> Range(c) - 1
                  [] c = 3 -> Range(c) * 2 - 1) \in Nat
    <3>1. c = 0 \/ c = 1 \/ c = 2 \/ c = 3
      OBVIOUS
    <3> QED BY <2>4, <3>1
  <2> QED BY <2>3, <2>5
<1> QED BY <1>2, <1>3

\* Below 10000 buckets no mask reaches beyond the range.
LEMMA SmallRangesFit ==
  ASSUME NEW items \in Items, RequestedBuckets(items) < 10000
  PROVE  RangesFit(items)
<1>1. BaseRange(items) \in Nat
  BY CountIsMultiple
<1>2. AlternateMasks(items) = [c \in 0 .. 3 |-> BaseRange(items) - 1]
  BY DEF AlternateMasks
<1> QED BY <1>1, <1>2 DEF RangesFit

-----------------------------------------------------------------------------
(* Walks.                                                                  *)

\* The table is the layout of its items, and the walk is in it.
LayoutInv ==
  /\ maximum_items \in Items
  /\ bucket_count = BucketCount(maximum_items)
  /\ alternate_masks = AlternateMasks(maximum_items)
  /\ position \in Nat
  /\ position < bucket_count

LEMMA HashIsWord ==
  ASSUME NEW f \in Nat
  PROVE  FingerprintHash(f) \in Nat /\ f % 4 \in 0 .. 3
<1>1. HashMultiplier \in Nat
  BY FingerprintAssumption DEF HashMultiplier
<1> DEFINE x == f * HashMultiplier
<1>2. x \in Nat
  BY <1>1
<1> HIDE DEF x
<1>3. x % HashWidth \in Nat
  BY <1>2, FingerprintAssumption
<1> QED BY <1>3 DEF x, FingerprintHash

\* From any position, the alternate of the alternate is the position.
LEMMA AlternateTwice ==
  ASSUME alternate_masks \in [0 .. 3 -> Nat], NEW p \in Nat, NEW f \in Nat
  PROVE  Alternate(p, f) \in Nat /\ Alternate(Alternate(p, f), f) = p
<1> DEFINE m == And[FingerprintHash(f)][alternate_masks[f % 4]]
<1>1. m \in Nat
  BY HashIsWord, AndBelow
<1>2. \A a : Alternate(a, f) = Xor[a][m]
  BY DEF Alternate
<1> HIDE DEF m
<1>3. Xor[p][m] \in Nat
  BY <1>1, XorStep
<1>4. Xor[Xor[p][m]][m] = p
  BY <1>1, XorReturns, Zenon
<1> QED BY <1>2, <1>3, <1>4

\* Masks below the range the bucket count is a multiple of keep every bucket's
\* alternate in the table.
LEMMA AlternateInside ==
  ASSUME NEW items \in Items, RangesFit(items),
         bucket_count = BucketCount(items),
         alternate_masks = AlternateMasks(items),
         NEW p \in Nat, p < bucket_count, NEW f \in Nat
  PROVE  Alternate(p, f) < bucket_count
<1> DEFINE mask == alternate_masks[f % 4]
           m == And[FingerprintHash(f)][mask]
<1>1. PICK e \in Nat : BaseRange(items) = Power[e]
  BY BaseIsPower
<1>2. PICK k \in Nat : BucketCount(items) = k * BaseRange(items)
  BY CountIsMultiple
<1>3. mask \in Nat /\ mask < BaseRange(items)
  BY HashIsWord, MasksAreWords DEF RangesFit
<1>4. m \in Nat /\ m <= mask
  <2> HIDE DEF mask
  <2> QED BY <1>3, HashIsWord, AndBelow
<1>5. Alternate(p, f) = Xor[p][m]
  BY DEF Alternate
<1> HIDE DEF mask, m
<1>6. m < Power[e]
  BY <1>1, <1>3, <1>4, PowerIs
<1>7. p < k * Power[e]
  BY <1>1, <1>2
<1>8. Xor[p][m] < k * Power[e]
  BY <1>4, <1>6, <1>7, XorBelow
<1> QED BY <1>1, <1>2, <1>5, <1>8

LEMMA LayoutInvariant == Spec => []LayoutInv
<1>1. ASSUME Init PROVE LayoutInv
  <2>1. maximum_items \in Items
    BY <1>1 DEF Init
  <2>2. /\ bucket_count = BucketCount(maximum_items)
        /\ alternate_masks = AlternateMasks(maximum_items)
        /\ position \in {0, bucket_count \div 2, bucket_count - 1}
    BY <1>1 DEF Init, InitializeLayout
  <2>3. bucket_count \in Nat \ {0}
    BY <2>1, <2>2, CountIsMultiple, RequestedSuffices
  <2>4. position \in Nat /\ position < bucket_count
    BY <2>2, <2>3
  <2> QED BY <2>1, <2>2, <2>4 DEF LayoutInv
<1>2. ASSUME LayoutInv, [Next]_vars PROVE LayoutInv'
  <2>1. CASE UNCHANGED vars
    BY <1>2, <2>1 DEF LayoutInv, vars
  <2>2. ASSUME NEW f \in Fingerprints, Hop(f)
        PROVE  LayoutInv'
    <3>1. /\ maximum_items' = maximum_items
          /\ bucket_count' = bucket_count
          /\ alternate_masks' = alternate_masks
          /\ position' = Alternate(position, f)
          /\ position' < bucket_count
      BY <2>2 DEF Hop
    <3>2. f \in Nat
      BY FingerprintAssumption
    <3>3. alternate_masks \in [0 .. 3 -> Nat] /\ position \in Nat
      BY <1>2, MasksAreWords DEF LayoutInv
    <3>4. position' \in Nat
      BY <3>1, <3>2, <3>3, AlternateTwice
    <3> QED BY <1>2, <3>1, <3>4 DEF LayoutInv
  <2> QED BY <1>2, <2>1, <2>2 DEF Next
<1> QED BY <1>1, <1>2, PTL DEF Spec

\* A record's two candidates name each other, in every layout, also in one whose
\* masks do not fit (Alternate, lines 493-500).
THEOREM AlternatesReturn == Spec => []AlternateReturns
<1>1. ASSUME LayoutInv PROVE AlternateReturns
  <2>1. alternate_masks \in [0 .. 3 -> Nat] /\ position \in Nat
    BY <1>1, MasksAreWords DEF LayoutInv
  <2> QED BY <2>1, AlternateTwice, FingerprintAssumption DEF AlternateReturns
<1> QED BY <1>1, LayoutInvariant, PTL

\* "assert(alternate < bucket_count_)" holds in every layout whose masks lie
\* below the range InitializeLayout rounds the bucket count to.
THEOREM AlternatesStayInside ==
  Spec => [](RangesFit(maximum_items) => AlternateInRange)
<1>1. ASSUME LayoutInv, RangesFit(maximum_items) PROVE AlternateInRange
  BY <1>1, AlternateInside, FingerprintAssumption DEF LayoutInv, AlternateInRange
<1> QED BY <1>1, LayoutInvariant, PTL

\* With fewer than 10000 buckets asked for they always do, at every target load
\* (lines 446-452): only the branch for large tables can break the assertion.
THEOREM SmallTablesStayInside ==
  Spec => [](RequestedBuckets(maximum_items) < 10000 => AlternateInRange)
<1>1. ASSUME LayoutInv, RequestedBuckets(maximum_items) < 10000
      PROVE  RangesFit(maximum_items)
  BY <1>1, SmallRangesFit DEF LayoutInv
<1> QED BY <1>1, LayoutInvariant, AlternatesStayInside, PTL

\* What VacuumFilter assumes of Alternate (AlternateAssumption), of every bucket
\* and every fingerprint.
BucketsPair ==
  \A p \in 0 .. bucket_count - 1, f \in Nat :
    /\ Alternate(p, f) \in 0 .. bucket_count - 1
    /\ Alternate(Alternate(p, f), f) = p

\* A layout whose masks fit satisfies that assumption, not only for the buckets
\* a walk reaches (Alternate, lines 493-500).
THEOREM AlternateAssumptionHolds ==
  Spec => [](RangesFit(maximum_items) => BucketsPair)
<1>1. ASSUME LayoutInv, RangesFit(maximum_items) PROVE BucketsPair
  <2> SUFFICES ASSUME NEW p \in 0 .. bucket_count - 1, NEW f \in Nat
               PROVE  /\ Alternate(p, f) \in 0 .. bucket_count - 1
                      /\ Alternate(Alternate(p, f), f) = p
    BY DEF BucketsPair
  <2>1. alternate_masks \in [0 .. 3 -> Nat] /\ bucket_count \in Nat
    BY <1>1, MasksAreWords, CountIsMultiple DEF LayoutInv
  <2>2. p \in Nat /\ p < bucket_count
    BY <2>1
  <2>3. Alternate(p, f) < bucket_count
    BY <1>1, <2>2, AlternateInside DEF LayoutInv
  <2>4. Alternate(p, f) \in Nat /\ Alternate(Alternate(p, f), f) = p
    BY <2>1, <2>2, AlternateTwice
  <2> QED BY <2>1, <2>3, <2>4
<1> QED BY <1>1, LayoutInvariant, PTL

\* Where std::max raises the first mask to 1024 (line 457), the assertion is
\* broken at some bucket unless 2048 happens to divide the bucket count, by every
\* fingerprint of class 0 whose hash has that bit.
THEOREM RaisedMaskLeaves ==
  Spec => [](alternate_masks[0] = 1024 /\ bucket_count % 2048 # 0 =>
               \A f \in Nat :
                 f % 4 = 0 /\ And[FingerprintHash(f)][1024] = 1024 =>
                   \E p \in 0 .. bucket_count - 1 :
                     Alternate(p, f) >= bucket_count)
<1> DEFINE Leaves ==
             alternate_masks[0] = 1024 /\ bucket_count % 2048 # 0 =>
               \A f \in Nat :
                 f % 4 = 0 /\ And[FingerprintHash(f)][1024] = 1024 =>
                   \E p \in 0 .. bucket_count - 1 :
                     Alternate(p, f) >= bucket_count
<1>1. ASSUME LayoutInv PROVE Leaves
  <2> SUFFICES ASSUME alternate_masks[0] = 1024, bucket_count % 2048 # 0,
                      NEW f \in Nat, f % 4 = 0,
                      And[FingerprintHash(f)][1024] = 1024
               PROVE  \E p \in 0 .. bucket_count - 1 :
                        Alternate(p, f) >= bucket_count
    OBVIOUS
  <2>1. bucket_count \in Nat
    BY <1>1, CountIsMultiple DEF LayoutInv
  <2>2. PICK p \in 0 .. bucket_count - 1 : Xor[p][1024] >= bucket_count
    BY <2>1, BitTenLeaves
  <2>3. Alternate(p, f) = Xor[p][1024]
    BY DEF Alternate
  <2> QED BY <2>2, <2>3
<1> HIDE DEF Leaves
<1>2. Spec => []Leaves
  BY <1>1, LayoutInvariant, PTL
<1> QED BY <1>2 DEF Leaves

-----------------------------------------------------------------------------
(* Sizes.                                                                  *)

\* A number above 2^c and not above 2^(c + 1) is raised to the latter.
LEMMA RaisedTo ==
  ASSUME NEW c \in 1 .. 12, NEW v \in Nat, Power[c - 1] < v, v <= Power[c]
  PROVE  UpperPowerOfTwo(v) = Power[c]
<1>1. PICK e \in Nat : /\ UpperPowerOfTwo(v) = Power[e]
                       /\ Power[e] >= v
                       /\ \A d \in 0 .. e - 1 : Power[d] < v
  BY UpperPowerIsLeast
<1>2. e <= c
  <2>1. ASSUME c < e PROVE FALSE
    <3>1. c \in 0 .. e - 1
      BY <2>1
    <3>2. Power[c] < v /\ Power[c] \in Nat
      BY <1>1, <3>1, PowerIs
    <3> QED BY <3>2
  <2> QED BY <2>1
<1>3. ASSUME e < c PROVE FALSE
  <2>1. e \in 0 .. 11 /\ c \in 1 .. 12 /\ e <= c - 1
    BY <1>3
  <2>2. Power[e] <= Power[c - 1]
    BY <2>1, FirstPowers
  <2> QED BY <1>1, <2>2, PowerIs
<1>4. e = c
  BY <1>2, <1>3
<1> QED BY <1>1, <1>4

\* The items fit under the target load in every layout, and the published sizes
\* come out slot for slot (InitializeLayout, lines 441-463).
THEOREM LayoutsFit == Spec => []LayoutFits
<1> DEFINE n == RequestedBuckets(maximum_items)
<1>1. ASSUME LayoutInv
      PROVE  100 * maximum_items <= LoadPercent * bucket_count * SlotsPerBucket
  <2> DEFINE d == LoadPercent * SlotsPerBucket
  <2>1. maximum_items \in Nat /\ d \in Nat /\ LoadPercent \in Nat
    BY <1>1, ConstructorAssumption DEF LayoutInv, SlotsPerBucket
  <2>2. n \in Nat /\ n * d >= maximum_items * 100
    BY <1>1, RequestedSuffices DEF LayoutInv
  <2>3. bucket_count \in Nat /\ bucket_count >= n
    BY <1>1, CountIsMultiple DEF LayoutInv
  <2>4. LoadPercent * bucket_count * SlotsPerBucket = bucket_count * d
    BY <2>1, <2>3 DEF SlotsPerBucket
  <2> HIDE DEF n, d
  <2>5. n * d <= bucket_count * d
    BY <2>1, <2>2, <2>3
  <2> QED BY <2>1, <2>2, <2>3, <2>4, <2>5
<1>2. ASSUME LayoutInv, LoadPercent = 95
      PROVE  /\ maximum_items = 16384 => bucket_count * SlotsPerBucket = 24576
             /\ maximum_items = 32768 => bucket_count * SlotsPerBucket = 49152
  <2>1. ASSUME maximum_items = 16384
        PROVE  bucket_count * SlotsPerBucket = 24576
    <3>1. n = 4312
      BY <1>2, <2>1 DEF RequestedBuckets, SlotsPerBucket
    <3>2. UpperPowerOfTwo(1078) = 2048
      <4>1. 11 \in 1 .. 12 /\ 11 - 1 = 10 /\ 1078 \in Nat
        OBVIOUS
      <4>2. Power[11 - 1] < 1078 /\ 1078 <= Power[11]
        BY FirstPowers
      <4> QED BY <4>1, <4>2, RaisedTo, FirstPowers
    <3>3. BaseRange(maximum_items) = 2048
      BY <3>1, <3>2 DEF BaseRange, SmallSegment
    <3>4. BucketCount(maximum_items) = 6144
      BY <3>1, <3>3 DEF BucketCount, RoundUp
    <3> QED BY <1>2, <3>4 DEF LayoutInv, SlotsPerBucket
  <2>2. ASSUME maximum_items = 32768
        PROVE  bucket_count * SlotsPerBucket = 49152
    <3>1. n = 8624
      BY <1>2, <2>2 DEF RequestedBuckets, SlotsPerBucket
    <3>2. UpperPowerOfTwo(2156) = 4096
      <4>1. 12 \in 1 .. 12 /\ 12 - 1 = 11 /\ 2156 \in Nat
        OBVIOUS
      <4>2. Power[12 - 1] < 2156 /\ 2156 <= Power[12]
        BY FirstPowers
      <4> QED BY <4>1, <4>2, RaisedTo, FirstPowers
    <3>3. BaseRange(maximum_items) = 4096
      BY <3>1, <3>2 DEF BaseRange, SmallSegment
    <3>4. BucketCount(maximum_items) = 12288
      BY <3>1, <3>3 DEF BucketCount, RoundUp
    <3> QED BY <1>2, <3>4 DEF LayoutInv, SlotsPerBucket
  <2> QED BY <2>1, <2>2
<1>3. ASSUME LayoutInv, LoadPercent = 95
      PROVE  /\ maximum_items = 65536 => bucket_count * SlotsPerBucket = 81920
             /\ maximum_items = 131072 => bucket_count * SlotsPerBucket = 163840
             /\ maximum_items = 262144 => bucket_count * SlotsPerBucket = 294912
  <2>1. ASSUME maximum_items = 65536
        PROVE  bucket_count * SlotsPerBucket = 81920
    <3>1. n = 17247
      BY <1>3, <2>1 DEF RequestedBuckets, SlotsPerBucket
    <3>2. BaseRange(maximum_items) = 4096
      BY <1>3, <2>1, <3>1, PublishedRanges DEF LayoutInv, BaseRange
    <3>3. BucketCount(maximum_items) = 20480
      BY <3>1, <3>2 DEF BucketCount, RoundUp
    <3> QED BY <1>3, <3>3 DEF LayoutInv, SlotsPerBucket
  <2>2. ASSUME maximum_items = 131072
        PROVE  bucket_count * SlotsPerBucket = 163840
    <3>1. n = 34493
      BY <1>3, <2>2 DEF RequestedBuckets, SlotsPerBucket
    <3>2. BaseRange(maximum_items) = 8192
      BY <1>3, <2>2, <3>1, PublishedRanges DEF LayoutInv, BaseRange
    <3>3. BucketCount(maximum_items) = 40960
      BY <3>1, <3>2 DEF BucketCount, RoundUp
    <3> QED BY <1>3, <3>3 DEF LayoutInv, SlotsPerBucket
  <2>3. ASSUME maximum_items = 262144
        PROVE  bucket_count * SlotsPerBucket = 294912
    <3>1. n = 68986
      BY <1>3, <2>3 DEF RequestedBuckets, SlotsPerBucket
    <3>2. BaseRange(maximum_items) = 8192
      BY <1>3, <2>3, <3>1, PublishedRanges DEF LayoutInv, BaseRange
    <3>3. BucketCount(maximum_items) = 73728
      BY <3>1, <3>2 DEF BucketCount, RoundUp
    <3> QED BY <1>3, <3>3 DEF LayoutInv, SlotsPerBucket
  <2> QED BY <2>1, <2>2, <2>3
<1>4. ASSUME LayoutInv PROVE LayoutFits
  <2> DEFINE Sizes == {<<16384, 24576>>, <<32768, 49152>>, <<65536, 81920>>,
                       <<131072, 163840>>, <<262144, 294912>>}
  <2>1. ASSUME NEW c \in Sizes, maximum_items = c[1], LoadPercent = 95
        PROVE  bucket_count * SlotsPerBucket = c[2]
    BY <1>2, <1>3, <1>4, <2>1
  <2> QED BY <1>1, <1>4, <2>1 DEF LayoutFits
<1> QED BY <1>4, LayoutInvariant, PTL
=============================================================================
