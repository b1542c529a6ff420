-------------------------- MODULE BucketCodecProofs --------------------------
(***************************************************************************)
(* Proofs about BucketCodec, for every number of buckets, every width the  *)
(* code admits and all records of that width: no access leaves the         *)
(* storage, a write leaves what the other buckets read as it was, and a    *)
(* bucket reads as the records it was last written with, however they were *)
(* arranged.                                                               *)
(***************************************************************************)
EXTENDS BucketCodec, FiniteSetTheorems, WellFoundedInduction, TLAPS

-----------------------------------------------------------------------------
(* Powers of two, which the library knows as numbers of subsets.           *)

\* A set of numbers that is not empty has a least one.
LEMMA LeastElement ==
  ASSUME NEW T, T \subseteq Nat, T # {}
  PROVE  \E x \in T : \A y \in T : x <= y
<1> DEFINE Less == {p \in Nat \X Nat : p[1] < p[2]}
<1>1. OpToRel(<, Nat) = Less
  BY Zenon DEF OpToRel
<1>2. IsWellFoundedOn(Less, Nat)
  BY <1>1, NatLessThanWellFounded
<1>3. \A x, y \in Nat : y < x => <<y, x>> \in Less
  OBVIOUS
<1> HIDE DEF Less
<1>4. PICK x \in T : \A y \in T : ~ (<<y, x>> \in Less)
  BY <1>2, WFMin
<1>5. ASSUME NEW y \in T PROVE x <= y
  <2>1. x \in Nat /\ y \in Nat
    OBVIOUS
  <2>2. ~ (y < x)
    BY <1>3, <1>4, <2>1, Zenon
  <2> QED BY <2>1, <2>2
<1> QED BY <1>5

\* Induction, as a fact about the set of counterexamples: if below each there
\* is another, there is none.
LEMMA Exhausted ==
  ASSUME NEW T, T \subseteq Nat,
         \A n \in T : \E m \in T : m < n
  PROVE  T = {}
<1>1. SUFFICES ASSUME T # {} PROVE FALSE
  OBVIOUS
<1>2. PICK x \in T : \A y \in T : x <= y
  BY <1>1, LeastElement
<1>3. PICK m \in T : m < x
  OBVIOUS
<1>4. x \in Nat /\ m \in Nat /\ x <= m
  BY <1>2
<1> QED BY <1>3, <1>4

\* A power of two counts the subsets of an interval.
LEMMA IntervalSubsets ==
  ASSUME NEW n \in Nat
  PROVE  /\ IsFiniteSet(SUBSET (1 .. n))
         /\ Cardinality(SUBSET (1 .. n)) = 2 ^ n
         /\ Cardinality(SUBSET (1 .. n)) \in Nat
<1>1. IsFiniteSet(1 .. n) /\ Cardinality(1 .. n) = n
  BY FS_Interval
<1> DEFINE S == 1 .. n
<1> HIDE DEF S
<1>2. IsFiniteSet(SUBSET S) /\ Cardinality(SUBSET S) = 2 ^ n
  BY <1>1, FS_SUBSET DEF S
<1>3. Cardinality(SUBSET S) \in Nat
  BY <1>2, FS_CardinalityType
<1> QED BY <1>2, <1>3 DEF S

\* The subsets of 1 .. n + 1 are those of 1 .. n, without and with the last
\* number.
LEMMA SubsetsDouble ==
  ASSUME NEW n \in Nat
  PROVE  Cardinality(SUBSET (1 .. n + 1)) = 2 * Cardinality(SUBSET (1 .. n))
<1> DEFINE S == SUBSET (1 .. n)
           T == {s \cup {n + 1} : s \in S}
           f == [s \in S |-> s \cup {n + 1}]
<1>1. IsFiniteSet(S) /\ Cardinality(S) \in Nat
  BY IntervalSubsets
<1>0. \A s \in S : n + 1 \notin s
  OBVIOUS
<1>2. f \in Bijection(S, T)
  <2>1. \A s, t \in S : s \cup {n + 1} = t \cup {n + 1} => s = t
    BY <1>0
  <2> HIDE DEF S
  <2> QED BY <2>1 DEF Bijection, Injection, Surjection, IsInjective
<1>3. IsFiniteSet(T) /\ Cardinality(T) = Cardinality(S)
  <2> HIDE DEF S, T, f
  <2> QED BY <1>1, <1>2, FS_Bijection DEF ExistsBijection
<1>4. S \cap T = {}
  BY <1>0
<1>5. S \cup T = SUBSET (1 .. n + 1)
  <2>1. S \cup T \subseteq SUBSET (1 .. n + 1)
    <3>1. 1 .. n \subseteq 1 .. n + 1 /\ n + 1 \in 1 .. n + 1
      OBVIOUS
    <3> QED BY <3>1
  <2>2. ASSUME NEW x \in SUBSET (1 .. n + 1)
        PROVE  x \in S \cup T
    <3>1. \A y \in 1 .. n + 1 : y # n + 1 => y \in 1 .. n
      OBVIOUS
    <3>2. CASE n + 1 \in x
      <4>1. x \ {n + 1} \in S
        BY <3>1
      <4>2. x = (x \ {n + 1}) \cup {n + 1}
        BY <3>2
      <4> QED BY <4>1, <4>2
    <3>3. CASE n + 1 \notin x
      BY <3>1, <3>3
    <3> QED BY <3>2, <3>3
  <2> QED BY <2>1, <2>2
<1>6. Cardinality(S \cup T) = Cardinality(S) + Cardinality(T) - Cardinality(S \cap T)
  <2> HIDE DEF S, T
  <2> QED BY <1>1, <1>3, FS_Union
<1>7. Cardinality(S \cap T) = 0
  BY <1>4, FS_EmptySet
<1> HIDE DEF S, T
<1>8. Cardinality(S \cup T) = 2 * Cardinality(S)
  BY <1>1, <1>3, <1>6, <1>7
<1> QED BY <1>5, <1>8 DEF S

\* So powers of two double.
LEMMA PowerDoubles ==
  ASSUME NEW n \in Nat
  PROVE  2 ^ n \in Nat \ {0} /\ 2 ^ (n + 1) = 2 * 2 ^ n
<1>1. 2 ^ n \in Nat
  BY IntervalSubsets
<1>2. Cardinality(SUBSET (1 .. n)) # 0
  <2>1. {} \in SUBSET (1 .. n)
    OBVIOUS
  <2> DEFINE S == SUBSET (1 .. n)
  <2>2. IsFiniteSet(S)
    BY IntervalSubsets
  <2> HIDE DEF S
  <2>3. S # {}
    BY <2>1 DEF S
  <2>4. Cardinality(S) # 0
    BY <2>2, <2>3, FS_EmptySet
  <2> QED BY <2>4 DEF S
<1>3. n + 1 \in Nat
  OBVIOUS
<1>4. Cardinality(SUBSET (1 .. n + 1)) = 2 ^ (n + 1)
  BY <1>3, IntervalSubsets
<1>5. Cardinality(SUBSET (1 .. n)) = 2 ^ n
  BY IntervalSubsets
<1> QED BY <1>1, <1>2, <1>4, <1>5, SubsetsDouble

\* The two the codec needs by their values.
LEMMA SmallPowers == 2 ^ 0 = 1 /\ 2 ^ 12 = 4096
<1>1. 2 ^ 0 = 1
  <2>1. SUBSET (1 .. 0) = {{}} /\ IsFiniteSet(1 .. 0) /\ Cardinality(1 .. 0) = 0
    BY FS_Interval, FS_EmptySet
  <2> QED BY <2>1, FS_SUBSET, FS_Singleton
<1>2. \A n \in Nat : 2 ^ (n + 1) = 2 * 2 ^ n
  BY PowerDoubles
<1>3. 2 ^ 1 = 2 /\ 2 ^ 2 = 4 /\ 2 ^ 3 = 8 /\ 2 ^ 4 = 16
  <2>1. 2 ^ (0 + 1) = 2 * 2 ^ 0 /\ 2 ^ (1 + 1) = 2 * 2 ^ 1 /\ 2 ^ (2 + 1) = 2 * 2 ^ 2
        /\ 2 ^ (3 + 1) = 2 * 2 ^ 3
    BY <1>2
  <2> QED BY <1>1, <2>1
<1>4. 2 ^ 5 = 32 /\ 2 ^ 6 = 64 /\ 2 ^ 7 = 128 /\ 2 ^ 8 = 256
  <2>1. 2 ^ (4 + 1) = 2 * 2 ^ 4 /\ 2 ^ (5 + 1) = 2 * 2 ^ 5 /\ 2 ^ (6 + 1) = 2 * 2 ^ 6
        /\ 2 ^ (7 + 1) = 2 * 2 ^ 7
    BY <1>2
  <2> QED BY <1>3, <2>1
<1>5. 2 ^ (8 + 1) = 2 * 2 ^ 8 /\ 2 ^ (9 + 1) = 2 * 2 ^ 9 /\ 2 ^ (10 + 1) = 2 * 2 ^ 10
        /\ 2 ^ (11 + 1) = 2 * 2 ^ 11
    BY <1>2
<1> QED BY <1>1, <1>4, <1>5

-----------------------------------------------------------------------------
(* A number and the set of its one bits.                                   *)

\* The remainder of a number is the only one that leaves a multiple.
LEMMA OneRemainder ==
  ASSUME NEW k \in Nat \ {0}, NEW a \in Int, NEW r \in 0 .. k - 1
  PROVE  (k * a + r) % k = r
<1> DEFINE x == k * a + r
           c == x \div k
           d == x % k
<1>1. x \in Int
  OBVIOUS
<1>2. x = k * c + d /\ c \in Int /\ d \in 0 .. k - 1
  <2> HIDE DEF x
  <2> QED BY <1>1
<1>3. k * a + r = k * c + d
  BY <1>2
<1> HIDE DEF c, d
<1>4. ASSUME c >= a + 1 PROVE FALSE
  <2>1. k * c >= k * a + k
    BY <1>2, <1>4
  <2> QED BY <1>2, <1>3, <2>1
<1>5. ASSUME c <= a - 1 PROVE FALSE
  <2>1. k * c <= k * a - k
    BY <1>2, <1>5
  <2> QED BY <1>2, <1>3, <2>1
<1>6. c = a
  BY <1>2, <1>4, <1>5
<1> QED BY <1>2, <1>3, <1>6 DEF d

\* One more bit of a number.
LEMMA OneMoreBit ==
  ASSUME NEW m \in Nat \ {0}, NEW v \in Nat
  PROVE  v % (2 * m) = (v % m) + (IF (v \div m) % 2 = 1 THEN m ELSE 0)
<1> DEFINE q == v \div m
           r == v % m
           a == q \div 2
           b == q % 2
           e == m * b + r
<1>1. v = m * q + r /\ q \in Int /\ r \in 0 .. m - 1
  OBVIOUS
<1>2. q = 2 * a + b /\ a \in Int /\ b \in {0, 1}
  <2> HIDE DEF q
  <2> QED BY <1>1
<1>3. e \in 0 .. 2 * m - 1
  <2>1. b = 0 => e = r
    BY <1>1
  <2>2. b = 1 => e = m + r
    BY <1>1
  <2> QED BY <1>1, <1>2, <2>1, <2>2
<1>4. v = (2 * m) * a + e
  <2> HIDE DEF q, r, a, b
  <2>1. m * (2 * a + b) = (2 * m) * a + m * b
    BY <1>2
  <2> QED BY <1>1, <1>2, <2>1
<1>5. ((2 * m) * a + e) % (2 * m) = e
  <2> HIDE DEF a, e
  <2>1. 2 * m \in Nat \ {0}
    OBVIOUS
  <2> QED BY <1>2, <1>3, <2>1, OneRemainder
<1>6. v % (2 * m) = m * b + r
  BY <1>4, <1>5
<1>7. m * b = IF b = 1 THEN m ELSE 0
  BY <1>2
<1> HIDE DEF r, b
<1>8. v % (2 * m) = r + (IF b = 1 THEN m ELSE 0)
  BY <1>1, <1>6, <1>7
<1> QED BY <1>8 DEF r, b, q

\* A number is the value of its one bits.
LEMMA ValueOfOnes ==
  ASSUME NEW w \in Nat, NEW v \in Nat, v < 2 ^ w
  PROVE  Value(Ones(v, w), w) = v
<1> DEFINE Bit(n) == IF n - 1 \in Ones(v, w) THEN 2 ^ (n - 1) ELSE 0
           Equation(g) == g = [n \in 0 .. w |-> IF n = 0 THEN 0 ELSE g[n - 1] + Bit(n)]
           low == [n \in 0 .. w |-> v % 2 ^ n]
           sum == CHOOSE g : Equation(g)
<1>1. \A n \in 0 .. w : n # 0 =>
        /\ n - 1 \in 0 .. w
        /\ low[n] = low[n - 1] + Bit(n)
  <2> SUFFICES ASSUME NEW n \in 0 .. w, n # 0
               PROVE  n - 1 \in 0 .. w /\ low[n] = low[n - 1] + Bit(n)
    OBVIOUS
  <2>1. n - 1 \in Nat /\ n - 1 \in 0 .. w /\ n - 1 \in 0 .. w - 1 /\ (n - 1) + 1 = n
    OBVIOUS
  <2>2. 2 ^ (n - 1) \in Nat \ {0} /\ 2 ^ ((n - 1) + 1) = 2 * 2 ^ (n - 1)
    BY <2>1, PowerDoubles
  <2>3. v % (2 * 2 ^ (n - 1))
          = (v % 2 ^ (n - 1))
              + (IF (v \div 2 ^ (n - 1)) % 2 = 1 THEN 2 ^ (n - 1) ELSE 0)
    BY <2>2, OneMoreBit
  <2>4. n - 1 \in Ones(v, w) <=> (v \div 2 ^ (n - 1)) % 2 = 1
    BY <2>1 DEF Ones
  <2>5. low[n] = v % 2 ^ n /\ low[n - 1] = v % 2 ^ (n - 1)
    BY <2>1
  <2>6. 2 ^ n = 2 * 2 ^ (n - 1)
    BY <2>1, <2>2
  <2> QED BY <2>1, <2>3, <2>4, <2>5, <2>6
<1>2. low[0] = 0
  <2>1. v % 1 = 0
    OBVIOUS
  <2> QED BY <2>1, SmallPowers
<1>3. Equation(low)
  <2>1. \A n \in 0 .. w : low[n] = IF n = 0 THEN 0 ELSE low[n - 1] + Bit(n)
    BY <1>1, <1>2, Zenon
  <2>2. low = [n \in 0 .. w |-> low[n]]
    OBVIOUS
  <2> HIDE DEF low, Bit
  <2> QED BY <2>1, <2>2
<1>4. Equation(sum)
  <2> HIDE DEF Equation
  <2> QED BY <1>3
<1>5. \A n \in 0 .. w : sum[n] = low[n]
  <2> DEFINE T == {n \in 0 .. w : sum[n] # low[n]}
  <2>1. \A n \in 0 .. w : sum[n] = IF n = 0 THEN 0 ELSE sum[n - 1] + Bit(n)
    <3> HIDE DEF sum, Bit
    <3> QED BY <1>4
  <2>2. ASSUME NEW n \in T PROVE \E m \in T : m < n
    <3>1. n \in 0 .. w /\ n # 0 /\ sum[n] # low[n]
      <4> HIDE DEF sum, low
      <4> QED BY <2>1, <1>2
    <3>2. n - 1 \in 0 .. w /\ n - 1 < n
      BY <3>1
    <3>3. sum[n - 1] # low[n - 1]
      <4> HIDE DEF sum, low, Bit
      <4> QED BY <1>1, <2>1, <3>1
    <3> HIDE DEF sum, low
    <3> QED BY <3>2, <3>3
  <2>3. T \subseteq Nat
    OBVIOUS
  <2> HIDE DEF T
  <2>4. T = {}
    BY <2>2, <2>3, Exhausted
  <2> QED BY <2>4 DEF T
<1>6. sum[w] = v % 2 ^ w
  <2> HIDE DEF sum
  <2> QED BY <1>5
<1>7. v % 2 ^ w = v
  <2>1. 2 ^ w \in Nat \ {0}
    BY PowerDoubles
  <2> DEFINE m == 2 ^ w
  <2> HIDE DEF m
  <2>2. v % m = v
    <3>1. m \in Nat \ {0} /\ v \in 0 .. m - 1
      BY <2>1 DEF m
    <3>2. (m * 0 + v) % m = v
      BY <3>1, OneRemainder
    <3> QED BY <3>1, <3>2
  <2> QED BY <2>2 DEF m
<1>8. Value(Ones(v, w), w) = sum[w]
  BY Zenon DEF Value
<1> QED BY <1>6, <1>7, <1>8

\* Where no bit is set the value is zero.
LEMMA ValueOfNone ==
  ASSUME NEW w \in Nat
  PROVE  Value({}, w) = 0
<1>1. Ones(0, w) = {}
  <2> SUFFICES ASSUME NEW i \in 0 .. w - 1, (0 \div 2 ^ i) % 2 = 1
               PROVE  FALSE
    BY DEF Ones
  <2>1. 2 ^ i \in Nat \ {0}
    BY PowerDoubles
  <2>2. \A m \in Nat \ {0} : (0 \div m) % 2 = 0
    OBVIOUS
  <2> QED BY <2>1, <2>2
<1>2. 0 < 2 ^ w
  BY PowerDoubles
<1> QED BY <1>1, <1>2, ValueOfOnes

-----------------------------------------------------------------------------
(* The code of four nibbles.                                              *)

\* The turns of the loops are numbers, grow with the bound, and one more value
\* of the first index adds the turns of the loops inside.
LEMMA TurnsValues ==
  /\ \A m \in 0 .. 16 : Turns(1, m) = m
  /\ Turns(2, 0) = 0 /\ Turns(3, 0) = 0 /\ Turns(4, 0) = 0 /\ Turns(4, 16) = 3876
  /\ \A m \in 0 .. 15 : Turns(2, m + 1) = Turns(2, m) + Turns(1, m + 1)
  /\ \A m \in 0 .. 15 : Turns(3, m + 1) = Turns(3, m) + Turns(2, m + 1)
  /\ \A m \in 0 .. 15 : Turns(4, m + 1) = Turns(4, m) + Turns(3, m + 1)
<1>1. /\ \A m : Turns(1, m) = m
      /\ \A m : Turns(2, m) = (m * (m + 1)) \div 2
      /\ \A m : Turns(3, m) = (m * (m + 1) * (m + 2)) \div 6
      /\ \A m : Turns(4, m) = (m * (m + 1) * (m + 2) * (m + 3)) \div 24
  BY DEF Turns
<1>2. ASSUME NEW m \in 0 .. 15
      PROVE  /\ m = 0 \/ m = 1 \/ m = 2 \/ m = 3 \/ m = 4 \/ m = 5 \/ m = 6 \/ m = 7
                \/ m = 8 \/ m = 9 \/ m = 10 \/ m = 11 \/ m = 12 \/ m = 13
                \/ m = 14 \/ m = 15
  OBVIOUS
<1>3. ASSUME NEW m \in 0 .. 15
      PROVE  ((m + 1) * (m + 2)) \div 2 = (m * (m + 1)) \div 2 + (m + 1)
  BY <1>2
<1>4. ASSUME NEW m \in 0 .. 15
      PROVE  ((m + 1) * (m + 2) * (m + 3)) \div 6
               = (m * (m + 1) * (m + 2)) \div 6 + ((m + 1) * (m + 2)) \div 2
  BY <1>2
<1>5. ASSUME NEW m \in 0 .. 15
      PROVE  ((m + 1) * (m + 2) * (m + 3) * (m + 4)) \div 24
               = (m * (m + 1) * (m + 2) * (m + 3)) \div 24
                 + ((m + 1) * (m + 2) * (m + 3)) \div 6
  BY <1>2
<1>6. \A m \in 0 .. 15 : m + 1 + 1 = m + 2 /\ m + 1 + 2 = m + 3 /\ m + 1 + 3 = m + 4
  OBVIOUS
<1>7. /\ Turns(2, 0) = 0 /\ Turns(3, 0) = 0 /\ Turns(4, 0) = 0 /\ Turns(4, 16) = 3876
  BY <1>1
<1> QED BY <1>1, <1>3, <1>4, <1>5, <1>6, <1>7

\* A table that grows at every step grows.
LEMMA Climbs ==
  ASSUME NEW t \in [0 .. 16 -> Int], \A m \in 0 .. 15 : t[m] < t[m + 1]
  PROVE  \A x, y \in 0 .. 16 : x < y => t[x] < t[y]
<1> DEFINE T == {y \in 0 .. 16 : \E x \in 0 .. 16 : x < y /\ ~ (t[x] < t[y])}
<1>1. ASSUME NEW y \in T PROVE \E z \in T : z < y
  <2>1. PICK x \in 0 .. 16 : x < y /\ ~ (t[x] < t[y])
    OBVIOUS
  <2>2. y - 1 \in 0 .. 15 /\ (y - 1) + 1 = y /\ y - 1 \in 0 .. 16 /\ y \in 0 .. 16
    BY <2>1
  <2>3. t[y - 1] < t[y]
    BY <2>2
  <2>4. t[x] \in Int /\ t[y - 1] \in Int /\ t[y] \in Int
    BY <2>2
  <2>5. x # y - 1
    BY <2>1, <2>3
  <2>6. x < y - 1
    BY <2>1, <2>2, <2>5
  <2>7. ~ (t[x] < t[y - 1])
    BY <2>1, <2>3, <2>4
  <2>8. y - 1 \in T
    BY <2>2, <2>6, <2>7
  <2>9. y - 1 < y
    BY <2>2
  <2> QED BY <2>8, <2>9
<1>2. T \subseteq Nat
  OBVIOUS
<1> HIDE DEF T
<1>3. T = {}
  BY <1>1, <1>2, Exhausted
<1> QED BY <1>3 DEF T

\* The turns of n loops, as a table.
Table(n) == [m \in 0 .. 16 |-> Turns(n, m)]

\* It starts at 0 and grows, at each step by what the loops inside turn.
Ladder(t, u) ==
  /\ t \in [0 .. 16 -> Nat]
  /\ t[0] = 0
  /\ \A m \in 0 .. 15 : t[m + 1] = t[m] + u[m + 1]
  /\ \A x, y \in 0 .. 16 : x < y => t[x] < t[y]

\* It grows when the loops inside turn.
LEMMA LadderFrom ==
  ASSUME NEW t \in [0 .. 16 -> Int], t[0] = 0,
         NEW u \in [0 .. 16 -> Nat], \A m \in 0 .. 15 : u[m + 1] > 0,
         \A m \in 0 .. 15 : t[m + 1] = t[m] + u[m + 1]
  PROVE  Ladder(t, u)
<1>1. \A m \in 0 .. 15 : t[m] < t[m + 1]
  <2> SUFFICES ASSUME NEW m \in 0 .. 15 PROVE t[m] < t[m + 1]
    OBVIOUS
  <2>1. m \in 0 .. 16 /\ m + 1 \in 0 .. 16
    OBVIOUS
  <2>2. t[m] \in Int /\ u[m + 1] \in Nat /\ u[m + 1] > 0 /\ t[m + 1] = t[m] + u[m + 1]
    BY <2>1
  <2> QED BY <2>2
<1>2. \A x, y \in 0 .. 16 : x < y => t[x] < t[y]
  BY <1>1, Climbs
<1>3. ASSUME NEW m \in 0 .. 16 PROVE t[m] \in Nat
  <2>1. m = 0 \/ 0 < m
    OBVIOUS
  <2>2. 0 \in 0 .. 16 /\ t[m] \in Int
    OBVIOUS
  <2> QED BY <1>2, <2>1, <2>2
<1> QED BY <1>2, <1>3 DEF Ladder

\* So do the tables of two, three and four loops.
LEMMA Ladders ==
  /\ Table(1) = [m \in 0 .. 16 |-> m]
  /\ Ladder(Table(2), Table(1))
  /\ Ladder(Table(3), Table(2))
  /\ Ladder(Table(4), Table(3))
  /\ Table(4)[16] = 3876
<1>1. /\ \A m \in 0 .. 16 : Table(1)[m] = m
      /\ Table(1) = [m \in 0 .. 16 |-> m]
  BY TurnsValues DEF Table
<1>2. ASSUME NEW n \in {2, 3, 4}, NEW m \in 0 .. 16
      PROVE  Turns(n, m) \in Int
  <2>1. /\ Turns(2, m) = (m * (m + 1)) \div 2
        /\ Turns(3, m) = (m * (m + 1) * (m + 2)) \div 6
        /\ Turns(4, m) = (m * (m + 1) * (m + 2) * (m + 3)) \div 24
    BY DEF Turns
  <2>2. /\ m * (m + 1) \in Int /\ m * (m + 1) * (m + 2) \in Int
        /\ m * (m + 1) * (m + 2) * (m + 3) \in Int
    OBVIOUS
  <2>3. \A x \in Int : x \div 2 \in Int /\ x \div 6 \in Int /\ x \div 24 \in Int
    OBVIOUS
  <2> QED BY <2>1, <2>2, <2>3
<1>3. \A n \in {2, 3, 4} : Table(n) \in [0 .. 16 -> Int]
  BY <1>2 DEF Table
<1>4. /\ Table(2)[0] = 0 /\ Table(3)[0] = 0 /\ Table(4)[0] = 0 /\ Table(4)[16] = 3876
  <2>1. 0 \in 0 .. 16 /\ 16 \in 0 .. 16
    OBVIOUS
  <2> QED BY <2>1, TurnsValues DEF Table
<1>5. \A m \in 0 .. 15 : m \in 0 .. 16 /\ m + 1 \in 0 .. 16
  OBVIOUS
<1>6. \A n \in 1 .. 4 : \A m \in 0 .. 15 :
        Table(n)[m] = Turns(n, m) /\ Table(n)[m + 1] = Turns(n, m + 1)
  BY <1>5 DEF Table
<1>7. \A m \in 0 .. 15 : Table(2)[m + 1] = Table(2)[m] + Table(1)[m + 1]
  BY <1>6, TurnsValues
<1>8. \A m \in 0 .. 15 : Table(3)[m + 1] = Table(3)[m] + Table(2)[m + 1]
  BY <1>6, TurnsValues
<1>9. \A m \in 0 .. 15 : Table(4)[m + 1] = Table(4)[m] + Table(3)[m + 1]
  BY <1>6, TurnsValues
<1>10. ASSUME NEW t, NEW u, Ladder(t, u), NEW m \in 0 .. 15 PROVE t[m + 1] > 0
  BY <1>5, <1>10 DEF Ladder
<1>11. Ladder(Table(2), Table(1))
  <2>1. Table(1) \in [0 .. 16 -> Nat]
    BY <1>1
  <2>2. \A m \in 0 .. 15 : Table(1)[m + 1] > 0
    BY <1>1, <1>5
  <2> QED BY <1>3, <1>4, <1>7, <2>1, <2>2, LadderFrom
<1>12. Ladder(Table(3), Table(2))
  <2>1. Table(2) \in [0 .. 16 -> Nat]
    BY <1>11 DEF Ladder
  <2>2. \A m \in 0 .. 15 : Table(2)[m + 1] > 0
    BY <1>10, <1>11
  <2> QED BY <1>3, <1>4, <1>8, <2>1, <2>2, LadderFrom
<1>13. Ladder(Table(4), Table(3))
  <2>1. Table(3) \in [0 .. 16 -> Nat]
    BY <1>12 DEF Ladder
  <2>2. \A m \in 0 .. 15 : Table(3)[m + 1] > 0
    BY <1>10, <1>12
  <2> QED BY <1>3, <1>4, <1>9, <2>1, <2>2, LadderFrom
<1> QED BY <1>1, <1>4, <1>11, <1>12, <1>13

\* The nibble of an index is the step of the ladder it stands on.
LEMMA NibbleIs ==
  ASSUME NEW n \in {2, 3, 4}, NEW u, Ladder(Table(n), u),
         NEW m \in 0 .. 15, NEW index \in Int,
         Table(n)[m] <= index, index < Table(n)[m + 1]
  PROVE  Nibble(n, index) = m
<1> DEFINE t == Table(n)
           S == {x \in 0 .. 15 : Turns(n, x) <= index}
<1>1. \A x \in 0 .. 15 : x \in 0 .. 16 /\ x + 1 \in 0 .. 16 /\ t[x] = Turns(n, x)
  BY DEF Table
<1>2. /\ \A x \in 0 .. 16 : t[x] \in Nat
      /\ \A x, y \in 0 .. 16 : x < y => t[x] < t[y]
  BY DEF Ladder
<1>3. m \in S
  BY <1>1
<1>4. ASSUME NEW x \in S PROVE x <= m
  <2>1. SUFFICES ASSUME m < x PROVE FALSE
    OBVIOUS
  <2>2. x \in 0 .. 15 /\ t[x] <= index
    BY <1>1
  <2>3. m + 1 = x \/ m + 1 < x
    BY <2>1
  <2>4. t[m + 1] <= t[x]
    <3>1. t[m + 1] \in Nat /\ t[x] \in Nat /\ x \in 0 .. 16 /\ m + 1 \in 0 .. 16
      BY <1>1, <1>2, <2>2
    <3>2. CASE m + 1 = x
      BY <3>1, <3>2
    <3>3. CASE m + 1 < x
      BY <1>2, <3>1, <3>3
    <3> QED BY <2>3, <3>2, <3>3
  <2>5. t[m + 1] \in Nat /\ t[x] \in Nat /\ index < t[m + 1]
    BY <1>1, <1>2, <2>2
  <2> HIDE DEF t
  <2> QED BY <2>2, <2>4, <2>5
<1>5. Max(S) = m
  <2>0. S \subseteq Int
    OBVIOUS
  <2> DEFINE x == CHOOSE x \in S : \A y \in S : x >= y
  <2> HIDE DEF S, t
  <2>1. \A y \in S : m >= y
    BY <1>3, <1>4, <2>0
  <2>2. x \in S /\ \A y \in S : x >= y
    BY <1>3, <2>1
  <2>3. x >= m /\ m >= x /\ x \in Int
    BY <1>3, <2>0, <2>1, <2>2
  <2>4. x = m
    <3> HIDE DEF x
    <3> QED BY <2>3
  <2> QED BY <2>4 DEF Max
<1> QED BY <1>5 DEF Nibble

\* Every index below the top stands on one.
LEMMA NibbleExists ==
  ASSUME NEW n \in {2, 3, 4}, NEW u, Ladder(Table(n), u),
         NEW index \in Nat, index < Table(n)[16]
  PROVE  /\ Nibble(n, index) \in 0 .. 15
         /\ Table(n)[Nibble(n, index)] <= index
         /\ index < Table(n)[Nibble(n, index) + 1]
<1> DEFINE t == Table(n)
           S == {x \in 0 .. 16 : index < t[x]}
<1>1. /\ \A x \in 0 .. 16 : t[x] \in Nat
      /\ t[0] = 0
  BY DEF Ladder
<1>2. S \subseteq Nat /\ 16 \in S
  OBVIOUS
<1>3. PICK x \in S : \A y \in S : x <= y
  <2> HIDE DEF S
  <2> QED BY <1>2, LeastElement
<1>4. x \in 0 .. 16 /\ index < t[x] /\ x # 0
  BY <1>1
<1>5. x - 1 \in 0 .. 15 /\ (x - 1) + 1 = x /\ x - 1 \in 0 .. 16
  BY <1>4
<1>6. t[x - 1] <= index
  <2>1. x - 1 \notin S
    BY <1>3, <1>5
  <2> QED BY <1>1, <1>5, <2>1
<1>7. Nibble(n, index) = x - 1
  BY <1>4, <1>5, <1>6, NibbleIs
<1> QED BY <1>4, <1>5, <1>6, <1>7

\* The slots, one by one.
LEMMA SlotValues == Slots = {0, 1, 2, 3} /\ 0 .. 2 = {0, 1, 2}
BY DEF Slots

\* As a range.
LEMMA CodeRange == \A index : index \in Codes <=> index \in Nat /\ index < 3876
<1> DEFINE top == 3875
<1>1. top \in Int /\ \A index \in Int : index <= top <=> index < 3876
  OBVIOUS
<1> HIDE DEF top
<1>2. \A index : index \in 0 .. top <=> index \in Nat /\ index <= top
  BY <1>1
<1>3. \A index : index \in 0 .. top <=> index \in Nat /\ index < 3876
  BY <1>1, <1>2
<1>4. Codes = 0 .. top
  BY DEF top, Codes
<1> QED BY <1>3, <1>4

\* Four nibbles the constructor's loops stand at.
Descends(i, j, k, l) ==
  /\ i \in 0 .. 15 /\ j \in 0 .. 15 /\ k \in 0 .. 15 /\ l \in 0 .. 15
  /\ j <= i /\ k <= j /\ l <= k

\* What an index is made of: the constructor's loops stand at i, j, k and l.
Loops(index, i, j, k, l) ==
  /\ index = Turns(4, i) + Turns(3, j) + Turns(2, k) + l
  /\ i = Nibble(4, index)
  /\ j = Nibble(3, index - Turns(4, i))
  /\ k = Nibble(2, index - Turns(4, i) - Turns(3, j))
  /\ l = index - Turns(4, i) - Turns(3, j) - Turns(2, k)

\* The table of n loops does not fall, and the nibble of an index is the place
\* in it the index stands on, which every index below the top has.
Entries(t, n) == /\ \A m \in 0 .. 15 : t[m] = Turns(n, m)
                 /\ \A m \in 0 .. 16 : t[m] \in Nat
Rises(t) == \A x, y \in 0 .. 16 : x <= y => t[x] <= t[y]
Places(t, n) ==
  \A m \in 0 .. 15, next \in 1 .. 16, index \in Int :
    next = m + 1 /\ t[m] <= index /\ index < t[next] => Nibble(n, index) = m
Covers(t, n) ==
  \A index \in Nat : index < t[16] =>
    /\ Nibble(n, index) \in 0 .. 15
    /\ t[Nibble(n, index)] <= index
    /\ index < t[Nibble(n, index) + 1]
Rung(t, n) == Entries(t, n) /\ Rises(t) /\ Places(t, n) /\ Covers(t, n)

\* Every table has these.
LEMMA RungFrom ==
  ASSUME NEW n \in {2, 3, 4}, NEW u, Ladder(Table(n), u)
  PROVE  Rung(Table(n), n)
<1> DEFINE t == Table(n)
<1>1. Entries(t, n)
  <2>1. \A m \in 0 .. 15 : t[m] = Turns(n, m)
    BY DEF Table
  <2>2. \A m \in 0 .. 16 : t[m] \in Nat
    BY DEF Ladder
  <2> QED BY <2>1, <2>2 DEF Entries
<1>2. Rises(t)
  <2> SUFFICES ASSUME NEW x \in 0 .. 16, NEW y \in 0 .. 16, x <= y PROVE t[x] <= t[y]
    BY DEF Rises
  <2>1. t[x] \in Nat /\ t[y] \in Nat
    BY <1>1 DEF Entries
  <2>2. CASE x = y
    BY <2>1, <2>2
  <2>3. CASE x < y
    BY <2>1, <2>3 DEF Ladder
  <2> QED BY <2>2, <2>3
<1>3. Places(t, n)
  BY NibbleIs DEF Places
<1>4. Covers(t, n)
  BY NibbleExists DEF Covers
<1> HIDE DEF t
<1>5. Rung(t, n)
  BY <1>1, <1>2, <1>3, <1>4 DEF Rung
<1> QED BY <1>5 DEF t

\* The three tables and how they hang together.
Steps(t, u) ==
  \A m \in 0 .. 15, next \in 1 .. 16 : next = m + 1 => t[next] = t[m] + u[next]
Rungs(quads, triples, pairs) ==
  /\ Rung(quads, 4) /\ Rung(triples, 3) /\ Rung(pairs, 2)
  /\ quads[16] = 3876
  /\ Steps(quads, triples) /\ Steps(triples, pairs)
  /\ Steps(pairs, [m \in 0 .. 16 |-> m])

\* The tables of the constructor.
LEMMA TableFacts == Rungs(Table(4), Table(3), Table(2))
<1>1. \A n \in {2, 3, 4} : \A u : Ladder(Table(n), u) => Rung(Table(n), n)
  BY RungFrom
<1>2. Rung(Table(4), 4)
  BY <1>1, Ladders
<1>3. Rung(Table(3), 3)
  BY <1>1, Ladders
<1>4. Rung(Table(2), 2)
  BY <1>1, Ladders
<1>5. ASSUME NEW t, NEW u, Ladder(t, u) PROVE Steps(t, u)
  <2> SUFFICES ASSUME NEW m \in 0 .. 15, NEW next \in 1 .. 16, next = m + 1
               PROVE  t[next] = t[m] + u[next]
    BY DEF Steps
  <2>1. t[m + 1] = t[m] + u[m + 1]
    BY <1>5 DEF Ladder
  <2> QED BY <2>1
<1> DEFINE quads == Table(4)
           triples == Table(3)
           pairs == Table(2)
           singles == [m \in 0 .. 16 |-> m]
<1>6. /\ Ladder(quads, triples) /\ Ladder(triples, pairs) /\ Ladder(pairs, singles)
      /\ quads[16] = 3876
      /\ Rung(quads, 4) /\ Rung(triples, 3) /\ Rung(pairs, 2)
  BY <1>2, <1>3, <1>4, Ladders
<1> HIDE DEF quads, triples, pairs, singles
<1>7. Steps(quads, triples) /\ Steps(triples, pairs) /\ Steps(pairs, singles)
  BY <1>5, <1>6
<1>8. Steps(pairs, [m \in 0 .. 16 |-> m])
  BY <1>7 DEF singles
<1>9. Rungs(quads, triples, pairs)
  BY <1>6, <1>7, <1>8 DEF Rungs
<1> QED BY <1>9 DEF quads, triples, pairs

\* The index of sorted nibbles is where the loops stand at them.
LEMMA LoopsReach ==
  ASSUME NEW i, NEW j, NEW k, NEW l, Descends(i, j, k, l),
         NEW index, index = Turns(4, i) + Turns(3, j) + Turns(2, k) + l
  PROVE  index \in Codes /\ Loops(index, i, j, k, l)
<1>0. /\ i \in 0 .. 15 /\ j \in 0 .. 15 /\ k \in 0 .. 15 /\ l \in 0 .. 15
      /\ j <= i /\ k <= j /\ l <= k
  BY DEF Descends
<1>1. PICK quads, triples, pairs : Rungs(quads, triples, pairs)
  BY TableFacts
<1>2. /\ Entries(quads, 4) /\ Entries(triples, 3) /\ Entries(pairs, 2)
      /\ Rises(quads) /\ Rises(triples) /\ Rises(pairs)
      /\ Places(quads, 4) /\ Places(triples, 3) /\ Places(pairs, 2)
      /\ Steps(quads, triples) /\ Steps(triples, pairs)
      /\ Steps(pairs, [m \in 0 .. 16 |-> m]) /\ quads[16] = 3876
  BY <1>1 DEF Rungs, Rung
<1>3. PICK i1, j1, k1 \in 1 .. 16 : i1 = i + 1 /\ j1 = j + 1 /\ k1 = k + 1
  BY <1>0
<1>4. /\ i \in 0 .. 16 /\ j \in 0 .. 16 /\ k \in 0 .. 16
      /\ i1 \in 0 .. 16 /\ j1 \in 0 .. 16 /\ k1 \in 0 .. 16 /\ 16 \in 0 .. 16
      /\ k1 <= j1 /\ j1 <= i1 /\ i1 <= 16
  BY <1>0, <1>3
<1>5. quads[i] = Turns(4, i) /\ triples[j] = Turns(3, j) /\ pairs[k] = Turns(2, k)
  BY <1>0, <1>2 DEF Entries
<1>6. /\ quads[i] \in Nat /\ triples[j] \in Nat /\ pairs[k] \in Nat
      /\ quads[i1] \in Nat /\ triples[j1] \in Nat /\ pairs[k1] \in Nat
      /\ triples[i1] \in Nat /\ pairs[j1] \in Nat
  BY <1>0, <1>2, <1>4 DEF Entries
<1>7. quads[i1] = quads[i] + triples[i1]
  BY <1>0, <1>2, <1>3 DEF Steps
<1>8. triples[j1] = triples[j] + pairs[j1]
  BY <1>0, <1>2, <1>3 DEF Steps
<1>9. pairs[k1] = pairs[k] + k1
  BY <1>0, <1>2, <1>3, <1>4 DEF Steps
<1>10. pairs[k1] <= pairs[j1] /\ triples[j1] <= triples[i1] /\ quads[i1] <= 3876
  BY <1>0, <1>2, <1>4 DEF Rises
<1> DEFINE rest2 == pairs[k] + l
           rest3 == triples[j] + rest2
           rest4 == quads[i] + rest3
<1>11. rest2 \in Nat /\ pairs[k] <= rest2 /\ rest2 < pairs[k1]
  BY <1>0, <1>3, <1>6, <1>9
<1>12. rest3 \in Nat /\ triples[j] <= rest3 /\ rest3 < triples[j1]
  <2> HIDE DEF rest2
  <2> QED BY <1>0, <1>6, <1>8, <1>10, <1>11
<1>13. rest4 \in Nat /\ quads[i] <= rest4 /\ rest4 < quads[i1] /\ rest4 < 3876
  <2> HIDE DEF rest3
  <2> QED BY <1>0, <1>6, <1>7, <1>10, <1>12
<1>14. index = rest4
  BY <1>0, <1>5, <1>6
<1>15. /\ rest4 - quads[i] = rest3
       /\ rest3 - triples[j] = rest2
       /\ rest2 - pairs[k] = l
  BY <1>0, <1>6
<1> HIDE DEF rest2, rest3, rest4
<1>16. Nibble(4, rest4) = i
  BY <1>0, <1>2, <1>3, <1>13 DEF Places
<1>17. Nibble(3, rest3) = j
  BY <1>0, <1>2, <1>3, <1>12 DEF Places
<1>18. Nibble(2, rest2) = k
  BY <1>0, <1>2, <1>3, <1>11 DEF Places
<1>19. Loops(index, i, j, k, l)
  BY <1>5, <1>14, <1>15, <1>16, <1>17, <1>18 DEF Loops
<1> QED BY <1>13, <1>14, <1>19, CodeRange

\* At every index below 3876 the loops stand somewhere, at sorted nibbles.
LEMMA LoopsStand ==
  ASSUME NEW index \in Codes
  PROVE  \E i, j, k, l : Descends(i, j, k, l) /\ Loops(index, i, j, k, l)
<1>1. PICK quads, triples, pairs : Rungs(quads, triples, pairs)
  BY TableFacts
<1>2. /\ Entries(quads, 4) /\ Entries(triples, 3) /\ Entries(pairs, 2)
      /\ Rises(quads) /\ Rises(triples) /\ Rises(pairs)
      /\ Covers(quads, 4) /\ Covers(triples, 3) /\ Covers(pairs, 2)
      /\ Steps(quads, triples) /\ Steps(triples, pairs)
      /\ Steps(pairs, [m \in 0 .. 16 |-> m]) /\ quads[16] = 3876
  BY <1>1 DEF Rungs, Rung
<1> DEFINE i == Nibble(4, index)
           rest3 == index - quads[i]
           j == Nibble(3, rest3)
           rest2 == rest3 - triples[j]
           k == Nibble(2, rest2)
           l == rest2 - pairs[k]
<1>3. i \in 0 .. 15 /\ quads[i] <= index /\ index < quads[i + 1]
  <2>1. index \in Nat /\ index < quads[16]
    BY <1>2, CodeRange
  <2> QED BY <1>2, <2>1 DEF Covers
<1> HIDE DEF i
<1>4. PICK i1 \in 1 .. 16 : i1 = i + 1
  BY <1>3
<1>5. i \in 0 .. 16 /\ i1 \in 0 .. 16 /\ i1 <= 16 /\ 16 \in 0 .. 16
  BY <1>3, <1>4
<1>6. quads[i] \in Nat /\ triples[i1] \in Nat /\ triples[16] \in Nat
  BY <1>2, <1>5 DEF Entries
<1>7. quads[i1] = quads[i] + triples[i1]
  BY <1>2, <1>3, <1>4 DEF Steps
<1>8. triples[i1] <= triples[16]
  BY <1>2, <1>5 DEF Rises
<1>9. rest3 \in Nat /\ rest3 < triples[i1] /\ rest3 < triples[16]
  BY <1>3, <1>4, <1>6, <1>7, <1>8, CodeRange
<1> HIDE DEF rest3
<1>10. j \in 0 .. 15 /\ triples[j] <= rest3 /\ rest3 < triples[j + 1]
  BY <1>2, <1>9 DEF Covers
<1> HIDE DEF j
<1>11. PICK j1 \in 1 .. 16 : j1 = j + 1
  BY <1>10
<1>12. j \in 0 .. 16 /\ j1 \in 0 .. 16 /\ j1 <= 16
  BY <1>10, <1>11
<1>13. triples[j] \in Nat /\ pairs[j1] \in Nat /\ pairs[16] \in Nat
  BY <1>2, <1>5, <1>12 DEF Entries
<1>14. triples[j1] = triples[j] + pairs[j1]
  BY <1>2, <1>10, <1>11 DEF Steps
<1>15. pairs[j1] <= pairs[16]
  BY <1>2, <1>5, <1>12 DEF Rises
<1>16. rest2 \in Nat /\ rest2 < pairs[j1] /\ rest2 < pairs[16]
  BY <1>9, <1>10, <1>11, <1>13, <1>14, <1>15
<1> HIDE DEF rest2
<1>17. k \in 0 .. 15 /\ pairs[k] <= rest2 /\ rest2 < pairs[k + 1]
  BY <1>2, <1>16 DEF Covers
<1> HIDE DEF k
<1>18. PICK k1 \in 1 .. 16 : k1 = k + 1
  BY <1>17
<1>19. k \in 0 .. 16 /\ k1 \in 0 .. 16
  BY <1>17, <1>18
<1>20. pairs[k] \in Nat
  BY <1>2, <1>19 DEF Entries
<1>21. pairs[k1] = pairs[k] + k1
  BY <1>2, <1>17, <1>18, <1>19 DEF Steps
<1>22. l \in 0 .. k /\ l \in 0 .. 15
  BY <1>16, <1>17, <1>18, <1>20, <1>21
<1>23. j <= i
  <2>1. SUFFICES ASSUME i1 <= j PROVE FALSE
    BY <1>3, <1>4, <1>10
  <2>2. triples[i1] <= triples[j]
    BY <1>2, <1>5, <1>12, <2>1 DEF Rises
  <2> QED BY <1>6, <1>9, <1>10, <1>13, <2>2
<1>24. k <= j
  <2>1. SUFFICES ASSUME j1 <= k PROVE FALSE
    BY <1>10, <1>11, <1>17
  <2>2. pairs[j1] <= pairs[k]
    BY <1>2, <1>12, <1>19, <2>1 DEF Rises
  <2> QED BY <1>13, <1>16, <1>17, <1>20, <2>2
<1>25. quads[i] = Turns(4, i) /\ triples[j] = Turns(3, j) /\ pairs[k] = Turns(2, k)
  BY <1>2, <1>3, <1>10, <1>17 DEF Entries
<1>26. /\ index - quads[i] = rest3 /\ rest3 - triples[j] = rest2 /\ rest2 - pairs[k] = l
       /\ i = Nibble(4, index) /\ j = Nibble(3, rest3) /\ k = Nibble(2, rest2)
  BY DEF rest3, rest2, i, j, k
<1>27. index = quads[i] + triples[j] + pairs[k] + l
  BY <1>6, <1>13, <1>20, CodeRange DEF rest3, rest2
<1> HIDE DEF l
<1>28. Loops(index, i, j, k, l)
  BY <1>3, <1>10, <1>17, <1>22, <1>25, <1>26, <1>27 DEF Loops
<1>29. l <= k
  BY <1>17, <1>22
<1>30. Descends(i, j, k, l)
  BY <1>3, <1>10, <1>17, <1>22, <1>23, <1>24, <1>29 DEF Descends
<1> QED BY <1>28, <1>30

\* Four nibbles in the slots.
Four(i, j, k, l) == [s \in Slots |-> <<i, j, k, l>>[s + 1]]

\* They are nibbles, each in its slot.
LEMMA FourSlots ==
  ASSUME NEW i, NEW j, NEW k, NEW l, Descends(i, j, k, l)
  PROVE  /\ Four(i, j, k, l) \in [Slots -> 0 .. 15]
         /\ Four(i, j, k, l)[0] = i /\ Four(i, j, k, l)[1] = j
         /\ Four(i, j, k, l)[2] = k /\ Four(i, j, k, l)[3] = l
<1> DEFINE f == Four(i, j, k, l)
<1>1. /\ i \in 0 .. 15 /\ j \in 0 .. 15 /\ k \in 0 .. 15 /\ l \in 0 .. 15
  BY DEF Descends
<1>2. f[0] = i /\ f[1] = j /\ f[2] = k /\ f[3] = l
  BY SlotValues DEF Four
<1>3. f = [s \in Slots |-> f[s]]
  BY DEF Four
<1> HIDE DEF f
<1>4. \A s \in Slots : f[s] \in 0 .. 15
  BY <1>1, <1>2, SlotValues
<1>5. f \in [Slots -> 0 .. 15]
  BY <1>3, <1>4
<1> QED BY <1>2, <1>5 DEF f

\* Four slots are all there are.
LEMMA SameSlots ==
  ASSUME NEW f \in [Slots -> 0 .. 15], NEW g \in [Slots -> 0 .. 15],
         f[0] = g[0], f[1] = g[1], f[2] = g[2], f[3] = g[3]
  PROVE  f = g
<1>1. \A s \in Slots : f[s] = g[s]
  BY SlotValues
<1> QED BY <1>1

\* Decode gives what the loops stand at.
LEMMA LoopsDecode ==
  ASSUME NEW index \in Codes, NEW i, NEW j, NEW k, NEW l, Loops(index, i, j, k, l)
  PROVE  Decode(index) = Four(i, j, k, l)
<1>1. index \in Codes
  OBVIOUS
<1>2. /\ i = Nibble(4, index)
      /\ j = Nibble(3, index - Turns(4, i))
      /\ k = Nibble(2, index - Turns(4, i) - Turns(3, j))
      /\ l = index - Turns(4, i) - Turns(3, j) - Turns(2, k)
  BY DEF Loops
<1>3. Decode(index) = [s \in Slots |-> IF index \in Codes THEN <<i, j, k, l>>[s + 1] ELSE 0]
  BY <1>2 DEF Decode
<1> QED BY <1>1, <1>3 DEF Four

\* SortedNibbles nibbles are what the loops stand at, at their code.
LEMMA SortedStand ==
  ASSUME NEW nibbles \in SortedNibbles
  PROVE  /\ Encode(nibbles) \in Codes
         /\ Decode(Encode(nibbles)) = nibbles
<1> DEFINE i == nibbles[0]
           j == nibbles[1]
           k == nibbles[2]
           l == nibbles[3]
           index == Encode(nibbles)
<1>1. nibbles \in [Slots -> 0 .. 15] /\ NonIncreasing(nibbles)
  BY DEF SortedNibbles
<1>2. i \in 0 .. 15 /\ j \in 0 .. 15 /\ k \in 0 .. 15 /\ l \in 0 .. 15
  BY <1>1, SlotValues
<1>3. j <= i /\ k <= j /\ l <= k
  <2>1. nibbles[0] >= nibbles[0 + 1] /\ nibbles[1] >= nibbles[1 + 1]
        /\ nibbles[2] >= nibbles[2 + 1]
    BY <1>1, SlotValues DEF NonIncreasing
  <2> QED BY <1>2, <2>1
<1>4. index = Turns(4, i) + Turns(3, j) + Turns(2, k) + l
  <2>1. Turns(1, l) = l
    BY DEF Turns
  <2> QED BY <1>1, <2>1 DEF Encode
<1>5. Descends(i, j, k, l)
  BY <1>2, <1>3 DEF Descends
<1> HIDE DEF i, j, k, l, index
<1>6. index \in Codes /\ Loops(index, i, j, k, l)
  BY <1>4, <1>5, LoopsReach
<1>7. Decode(index) = Four(i, j, k, l)
  BY <1>6, LoopsDecode
<1>8. Four(i, j, k, l) = nibbles
  <2> DEFINE f == Four(i, j, k, l)
  <2>1. f \in [Slots -> 0 .. 15] /\ f[0] = i /\ f[1] = j /\ f[2] = k /\ f[3] = l
    BY <1>5, FourSlots
  <2>2. f[0] = nibbles[0] /\ f[1] = nibbles[1] /\ f[2] = nibbles[2] /\ f[3] = nibbles[3]
    BY <2>1 DEF i, j, k, l
  <2> HIDE DEF f
  <2>3. f = nibbles
    BY <1>1, <2>1, <2>2, SameSlots
  <2> QED BY <2>3 DEF f
<1> QED BY <1>6, <1>7, <1>8 DEF index

\* And at every index below 3876 they are.
LEMMA IndexesStand ==
  ASSUME NEW index \in Codes
  PROVE  Decode(index) \in SortedNibbles /\ Encode(Decode(index)) = index
<1>1. PICK i, j, k, l : Descends(i, j, k, l) /\ Loops(index, i, j, k, l)
  BY LoopsStand
<1> DEFINE f == Four(i, j, k, l)
<1>2. Decode(index) = f
  BY <1>1, LoopsDecode
<1>3. f \in [Slots -> 0 .. 15] /\ f[0] = i /\ f[1] = j /\ f[2] = k /\ f[3] = l
  BY <1>1, FourSlots
<1> HIDE DEF f
<1>4. NonIncreasing(f)
  <2> SUFFICES ASSUME NEW s \in 0 .. 2 PROVE f[s] >= f[s + 1]
    BY DEF NonIncreasing
  <2>1. f[0] >= f[1] /\ f[1] >= f[2] /\ f[2] >= f[3]
    BY <1>1, <1>3 DEF Descends
  <2>2. s = 0 \/ s = 1 \/ s = 2
    OBVIOUS
  <2> QED BY <2>1, <2>2
<1>5. f \in SortedNibbles
  BY <1>3, <1>4 DEF SortedNibbles
<1>6. Encode(f) = index
  <2>1. Turns(1, l) = l
    BY DEF Turns
  <2>2. Encode(f) = Turns(4, i) + Turns(3, j) + Turns(2, k) + Turns(1, l)
    BY <1>3, <1>4 DEF Encode
  <2>3. index = Turns(4, i) + Turns(3, j) + Turns(2, k) + l
    BY <1>1 DEF Loops
  <2> QED BY <2>1, <2>2, <2>3
<1> QED BY <1>2, <1>5, <1>6

\* The code of the nibbles loses nothing but their order: the constructor's
\* count is right, and the two tables it fills undo each other, for every four
\* sorted nibbles and every index handed out (SemiSortCodec).
THEOREM NibblesSurvive == CodecIsBijective
<1> DEFINE code == [index \in Codes |-> Decode(index)]
<1>1. /\ \A nibbles \in SortedNibbles : /\ Encode(nibbles) \in Codes
                                /\ Decode(Encode(nibbles)) = nibbles
      /\ \A index \in Codes : /\ Decode(index) \in SortedNibbles
                                  /\ Encode(Decode(index)) = index
  BY SortedStand, IndexesStand
<1>2. code \in Bijection(Codes, SortedNibbles)
  <2>1. code \in [Codes -> SortedNibbles]
    BY <1>1
  <2>2. \A x, y \in Codes : code[x] = code[y] => x = y
    BY <1>1
  <2>3. \A nibbles \in SortedNibbles : \E x \in Codes : code[x] = nibbles
    BY <1>1
  <2> HIDE DEF code
  <2> QED BY <2>1, <2>2, <2>3 DEF Bijection, Injection, Surjection, IsInjective
<1>3. Cardinality(SortedNibbles) = Cardinality(Codes)
  <2>1. ExistsBijection(Codes, SortedNibbles)
    BY <1>2 DEF ExistsBijection
  <2>2. IsFiniteSet(Codes)
    <3> DEFINE top == 3875
    <3>1. 0 \in Int /\ top \in Int
      OBVIOUS
    <3> HIDE DEF top
    <3>2. IsFiniteSet(0 .. top)
      BY <3>1, FS_Interval
    <3> QED BY <3>2 DEF top, Codes
  <2> QED BY <2>1, <2>2, FS_Bijection
<1> QED BY <1>1, <1>3, Zenon DEF CodecIsBijective

-----------------------------------------------------------------------------
(* Widths and records.                                                     *)

\* The widths of the fields, and the high nibble and low bits of a
\* fingerprint, as numbers.
LEMMA WidthFacts ==
  ASSUME fingerprint_bits \in Widths
  PROVE  /\ low_width \in 1 .. 60
         /\ EncodedBitsPerBucket = 4 * low_width + 12
         /\ 2 ^ low_width \in Nat \ {0}
         /\ 2 ^ fingerprint_bits = 16 * 2 ^ low_width
<1>1. /\ low_width \in 1 .. 60 /\ EncodedBitsPerBucket = 4 * low_width + 12
      /\ fingerprint_bits = low_width + 1 + 1 + 1 + 1
  BY WidthAssumption DEF low_width, EncodedBitsPerBucket
<1> HIDE DEF low_width
<1>2. /\ 2 ^ low_width \in Nat \ {0}
      /\ 2 ^ (low_width + 1) = 2 * 2 ^ low_width
  BY <1>1, PowerDoubles
<1>3. /\ 2 ^ (low_width + 1 + 1) = 2 * 2 ^ (low_width + 1)
      /\ 2 ^ (low_width + 1 + 1 + 1) = 2 * 2 ^ (low_width + 1 + 1)
      /\ 2 ^ (low_width + 1 + 1 + 1 + 1) = 2 * 2 ^ (low_width + 1 + 1 + 1)
  <2>1. low_width + 1 \in Nat /\ low_width + 1 + 1 \in Nat /\ low_width + 1 + 1 + 1 \in Nat
    BY <1>1
  <2> QED BY <2>1, PowerDoubles
<1> QED BY <1>1, <1>2, <1>3

\* Records and empty slots have a fingerprint of fingerprint_bits bits.
LEMMA StorableType ==
  ASSUME fingerprint_bits \in Widths, NEW r \in Storable
  PROVE  /\ r = [fingerprint |-> r.fingerprint, payload |-> r.payload]
         /\ r.fingerprint \in Nat
         /\ r.fingerprint < 16 * 2 ^ low_width
<1>1. CASE r \in Records(fingerprint_bits)
  <2>1. /\ r = [fingerprint |-> r.fingerprint, payload |-> r.payload]
        /\ r.fingerprint \in 1 .. 2 ^ fingerprint_bits - 1
    BY <1>1, RecordAssumption
  <2> QED BY <2>1, WidthFacts
<1>2. CASE r = Empty
  <2>1. 0 < 16 * 2 ^ low_width
    BY WidthFacts
  <2> QED BY <1>2, <2>1 DEF Empty
<1> QED BY <1>1, <1>2 DEF Storable

\* A number below k * m is a quotient below k and a remainder.
LEMMA Divided ==
  ASSUME NEW m \in Nat \ {0}, NEW k \in Nat, NEW x \in Nat, x < k * m
  PROVE  /\ x \div m \in 0 .. k - 1
         /\ x % m \in 0 .. m - 1
         /\ x = (x % m) + (x \div m) * m
<1> DEFINE q == x \div m
           r == x % m
<1>1. x = m * q + r /\ q \in Int /\ r \in 0 .. m - 1
  OBVIOUS
<1> HIDE DEF q, r
<1>2. q >= 0
  <2>1. ASSUME q <= -1 PROVE m * q <= -m
    BY <1>1, <2>1
  <2> QED BY <1>1, <2>1
<1>3. q <= k - 1
  <2>1. ASSUME q >= k PROVE m * q >= k * m
    BY <1>1, <2>1
  <2> QED BY <1>1, <2>1
<1> QED BY <1>1, <1>2, <1>3 DEF q, r

\* The quotient of a larger number is not smaller.
LEMMA DividedMonotone ==
  ASSUME NEW m \in Nat \ {0}, NEW x \in Nat, NEW y \in Nat, x <= y
  PROVE  x \div m <= y \div m
<1> DEFINE q == x \div m
           p == y \div m
<1>1. /\ x = m * q + (x % m) /\ q \in Int /\ x % m \in 0 .. m - 1
      /\ y = m * p + (y % m) /\ p \in Int /\ y % m \in 0 .. m - 1
  OBVIOUS
<1> HIDE DEF q, p
<1>2. m * q < m * p + m
  BY <1>1
<1>3. ASSUME q >= p + 1 PROVE m * q >= m * p + m
  BY <1>1, <1>3
<1> QED BY <1>1, <1>2, <1>3 DEF q, p

-----------------------------------------------------------------------------
(* Bit fields.                                                             *)

\* after is bits with v written to a field: the bits of the field are set, the
\* others are as they were.
FieldHolds(after, bits, p, w, v) ==
  /\ \A i \in 0 .. w - 1 : p + i \in after <=> i \in Ones(v, w)
  /\ \A x \in Int : x < p \/ x >= p + w => (x \in after <=> x \in bits)
  /\ after \subseteq bits \cup (p .. p + w - 1)

\* That is what WriteBits does.
LEMMA WriteHolds ==
  ASSUME NEW bits, NEW p \in Nat, NEW w \in Nat, NEW v
  PROVE  FieldHolds(WriteBits(bits, p, w, v), bits, p, w, v)
<1>1. Ones(v, w) \subseteq 0 .. w - 1
  BY DEF Ones
<1> QED BY <1>1 DEF WriteBits, FieldHolds

\* after is bits with a bucket's five adjacent fields written: the fields hold
\* what was written to each, and no bit outside them has changed.
FieldsHold(after, bits, b, w, v0, v1, v2, v3, h) ==
  /\ Field(after, b + 3 * w, w) = Ones(v0, w)
  /\ Field(after, b + 2 * w, w) = Ones(v1, w)
  /\ Field(after, b + w, w) = Ones(v2, w)
  /\ Field(after, b, w) = Ones(v3, w)
  /\ Field(after, b + 4 * w, 12) = Ones(h, 12)
  /\ \A x \in Int : x < b \/ x >= b + 4 * w + 12 => (x \in after <=> x \in bits)
  /\ after \subseteq bits \cup (b .. b + 4 * w + 11)

\* Five writes one after the other do not disturb one another.
LEMMA FieldsWritten ==
  ASSUME NEW bits, NEW b \in Nat, NEW w \in Nat,
         NEW v0, NEW v1, NEW v2, NEW v3, NEW h,
         NEW b0, b0 = WriteBits(bits, b + 3 * w, w, v0),
         NEW b1, b1 = WriteBits(b0, b + 2 * w, w, v1),
         NEW b2, b2 = WriteBits(b1, b + w, w, v2),
         NEW b3, b3 = WriteBits(b2, b, w, v3),
         NEW b4, b4 = WriteBits(b3, b + 4 * w, 12, h)
  PROVE  FieldsHold(b4, bits, b, w, v0, v1, v2, v3, h)
<1>1. /\ b + 3 * w \in Nat /\ b + 2 * w \in Nat
      /\ b + w \in Nat /\ b + 4 * w \in Nat
  OBVIOUS
<1>2. FieldHolds(b0, bits, b + 3 * w, w, v0)
  BY <1>1, WriteHolds
<1>3. FieldHolds(b1, b0, b + 2 * w, w, v1)
  BY <1>1, WriteHolds
<1>4. FieldHolds(b2, b1, b + w, w, v2)
  BY <1>1, WriteHolds
<1>5. FieldHolds(b3, b2, b, w, v3)
  BY <1>1, WriteHolds
<1>6. FieldHolds(b4, b3, b + 4 * w, 12, h)
  BY <1>1, WriteHolds
<1>7. /\ Ones(v0, w) \subseteq 0 .. w - 1 /\ Ones(v1, w) \subseteq 0 .. w - 1
      /\ Ones(v2, w) \subseteq 0 .. w - 1 /\ Ones(v3, w) \subseteq 0 .. w - 1
      /\ Ones(h, 12) \subseteq 0 .. 12 - 1
  BY DEF Ones
<1> HIDE DEF Ones
<1>8. Field(b4, b + 3 * w, w) = Ones(v0, w)
  <2>1. ASSUME NEW i \in 0 .. w - 1
        PROVE  (b + 3 * w) + i \in b4 <=> i \in Ones(v0, w)
    BY <1>2, <1>3, <1>4, <1>5, <1>6 DEF FieldHolds
  <2> QED BY <2>1, <1>7 DEF Field
<1>9. Field(b4, b + 2 * w, w) = Ones(v1, w)
  <2>1. ASSUME NEW i \in 0 .. w - 1
        PROVE  (b + 2 * w) + i \in b4 <=> i \in Ones(v1, w)
    BY <1>3, <1>4, <1>5, <1>6 DEF FieldHolds
  <2> QED BY <2>1, <1>7 DEF Field
<1>10. Field(b4, b + w, w) = Ones(v2, w)
  <2>1. ASSUME NEW i \in 0 .. w - 1
        PROVE  (b + w) + i \in b4 <=> i \in Ones(v2, w)
    BY <1>4, <1>5, <1>6 DEF FieldHolds
  <2> QED BY <2>1, <1>7 DEF Field
<1>11. Field(b4, b, w) = Ones(v3, w)
  <2>1. ASSUME NEW i \in 0 .. w - 1
        PROVE  b + i \in b4 <=> i \in Ones(v3, w)
    BY <1>5, <1>6 DEF FieldHolds
  <2> QED BY <2>1, <1>7 DEF Field
<1>12. Field(b4, b + 4 * w, 12) = Ones(h, 12)
  BY <1>6, <1>7 DEF Field, FieldHolds
<1>13. ASSUME NEW x \in Int, x < b \/ x >= b + 4 * w + 12
       PROVE  x \in b4 <=> x \in bits
  BY <1>2, <1>3, <1>4, <1>5, <1>6, <1>13 DEF FieldHolds
<1>14. b4 \subseteq bits \cup (b .. b + 4 * w + 11)
  <2> SUFFICES ASSUME NEW x \in b4, x \notin bits
               PROVE  x \in b .. b + 4 * w + 11
    OBVIOUS
  <2>1. \/ x \in b + 3 * w .. (b + 3 * w) + w - 1
        \/ x \in b + 2 * w .. (b + 2 * w) + w - 1
        \/ x \in b + w .. (b + w) + w - 1
        \/ x \in b .. b + w - 1
        \/ x \in b + 4 * w .. (b + 4 * w) + 12 - 1
    BY <1>2, <1>3, <1>4, <1>5, <1>6 DEF FieldHolds
  <2> QED BY <2>1
<1> QED BY <1>8, <1>9, <1>10, <1>11, <1>12, <1>13, <1>14 DEF FieldsHold

-----------------------------------------------------------------------------
(* Sorting.                                                                *)

\* order arranges the bucket's slots by descending fingerprint.
Arranges(order, bucket) ==
  /\ order \in [Slots -> Slots]
  /\ \A s, t \in Slots : order[s] = order[t] => s = t
  /\ \A t \in Slots : \E s \in Slots : order[s] = t
  /\ \A s \in 0 .. 2 :
       bucket[order[s]].fingerprint >= bucket[order[s + 1]].fingerprint

\* Four slots are finitely many.
LEMMA SlotsFinite == IsFiniteSet(Slots) /\ Cardinality(Slots) = 4
<1>1. PICK n \in Nat : n = 3
  OBVIOUS
<1>2. Slots = 0 .. n
  BY <1>1 DEF Slots
<1>3. IsFiniteSet(0 .. n) /\ Cardinality(0 .. n) = n + 1
  BY FS_Interval
<1> QED BY <1>1, <1>2, <1>3

\* The sort loses no record and doubles none: each slot's rank is another
\* one, and there are four.
LEMMA SortArranges ==
  ASSUME NEW bucket, \A s \in Slots : bucket[s].fingerprint \in Nat
  PROVE  \E order : /\ Arranges(order, bucket)
                    /\ StableSort(bucket) = [s \in Slots |-> bucket[order[s]]]
<1> DEFINE Before(s, t) ==
             \/ bucket[s].fingerprint > bucket[t].fingerprint
             \/ bucket[s].fingerprint = bucket[t].fingerprint /\ s < t
           Above(t) == {s \in Slots : Before(s, t)}
           Rank(t) == Cardinality(Above(t))
           rank == [t \in Slots |-> Rank(t)]
           order == [s \in Slots |-> CHOOSE t \in Slots : Rank(t) = s]
<1>1. /\ \A s, t \in Slots : s # t => Before(s, t) \/ Before(t, s)
      /\ \A s \in Slots : ~Before(s, s)
      /\ \A s, t, u \in Slots : Before(s, t) /\ Before(t, u) => Before(s, u)
  BY DEF Slots
<1>2. \A s, t \in Slots : Before(s, t) => bucket[s].fingerprint >= bucket[t].fingerprint
  OBVIOUS
<1> HIDE DEF Before
<1>3. ASSUME NEW t \in Slots
      PROVE  IsFiniteSet(Above(t)) /\ Rank(t) \in Slots
  <2>1. Above(t) \subseteq Slots \ {t}
    BY <1>1
  <2>2. IsFiniteSet(Slots \ {t}) /\ Cardinality(Slots \ {t}) = 3
    <3>1. /\ IsFiniteSet(Slots \ {t})
          /\ Cardinality(Slots \ {t})
               = IF t \in Slots THEN Cardinality(Slots) - 1 ELSE Cardinality(Slots)
      BY SlotsFinite, FS_RemoveElement
    <3> QED BY <3>1, SlotsFinite
  <2>3. /\ IsFiniteSet(Above(t))
        /\ Cardinality(Above(t)) <= Cardinality(Slots \ {t})
    BY <2>1, <2>2, FS_Subset
  <2>4. Cardinality(Above(t)) \in Nat
    BY <2>3, FS_CardinalityType
  <2> HIDE DEF Above
  <2> QED BY <2>2, <2>3, <2>4 DEF Slots
<1>4. ASSUME NEW s \in Slots, NEW t \in Slots, Before(s, t)
      PROVE  Rank(s) < Rank(t)
  <2>1. Above(s) \subseteq Above(t) /\ Above(s) # Above(t)
    BY <1>1, <1>4
  <2>2. /\ Cardinality(Above(s)) <= Cardinality(Above(t))
        /\ Cardinality(Above(t)) # Cardinality(Above(s))
    BY <1>3, <2>1, FS_Subset
  <2>3. Rank(s) \in Nat /\ Rank(t) \in Nat
    BY <1>3, FS_CardinalityType
  <2> QED BY <2>2, <2>3
<1> HIDE DEF Rank
<1>5. ASSUME NEW s \in Slots, NEW t \in Slots, Rank(s) = Rank(t)
      PROVE  s = t
  BY <1>1, <1>3, <1>4, <1>5 DEF Slots
<1>6. rank \in Surjection(Slots, Slots)
  <2>1. rank \in Injection(Slots, Slots)
    BY <1>3, <1>5 DEF Injection, IsInjective
  <2> QED BY <2>1, SlotsFinite, FS_Injection
<1>7. \A s \in Slots : \E t \in Slots : Rank(t) = s
  BY <1>6 DEF Surjection
<1>8. \A s \in Slots : order[s] \in Slots /\ Rank(order[s]) = s
  BY <1>7
<1>9. \A t \in Slots : order[Rank(t)] = t
  BY <1>3, <1>5, <1>8
<1>10. order \in [Slots -> Slots]
  BY <1>8
<1>11. ASSUME NEW s \in 0 .. 2
       PROVE  bucket[order[s]].fingerprint >= bucket[order[s + 1]].fingerprint
  <2>1. s \in Slots /\ s + 1 \in Slots /\ ~(s + 1 < s) /\ s # s + 1
    BY DEF Slots
  <2>2. order[s] \in Slots /\ order[s + 1] \in Slots
    BY <1>8, <2>1
  <2>3. Rank(order[s]) = s /\ Rank(order[s + 1]) = s + 1
    BY <1>8, <2>1
  <2> HIDE DEF order
  <2>4. ~Before(order[s + 1], order[s])
    BY <1>4, <2>1, <2>2, <2>3
  <2>5. order[s] # order[s + 1]
    BY <2>1, <2>3
  <2> QED BY <1>1, <1>2, <2>2, <2>4, <2>5
<1>12. StableSort(bucket) = [s \in Slots |-> bucket[order[s]]]
  BY DEF StableSort, Before, Rank, Above
<1>13. Arranges(order, bucket)
  <2> HIDE DEF order
  <2> QED BY <1>3, <1>8, <1>9, <1>10, <1>11 DEF Arranges
<1> QED BY <1>12, <1>13

\* What is counted in a bucket does not depend on its arrangement.
LEMMA SameTally ==
  ASSUME NEW bucket, NEW order, Arranges(order, bucket)
  PROVE  Tally([s \in Slots |-> bucket[order[s]]]) = Tally(bucket)
<1> DEFINE sorted == [s \in Slots |-> bucket[order[s]]]
<1>1. ASSUME NEW r
      PROVE  Cardinality({s \in Slots : sorted[s] = r})
               = Cardinality({s \in Slots : bucket[s] = r})
  <2> DEFINE S == {s \in Slots : sorted[s] = r}
             T == {s \in Slots : bucket[s] = r}
             g == [s \in S |-> order[s]]
  <2>1. g \in Bijection(S, T)
    <3>1. g \in [S -> T]
      BY DEF Arranges
    <3>2. \A s, t \in S : g[s] = g[t] => s = t
      BY DEF Arranges
    <3>3. \A t \in T : \E s \in S : g[s] = t
      BY DEF Arranges
    <3> HIDE DEF g, S, T
    <3> QED BY <3>1, <3>2, <3>3 DEF Bijection, Injection, Surjection, IsInjective
  <2>2. IsFiniteSet(S)
    BY SlotsFinite, FS_Subset
  <2> HIDE DEF g, S, T
  <2> QED BY <2>1, <2>2, FS_Bijection DEF ExistsBijection, S, T
<1> QED BY <1>1 DEF Tally

\* At most four slots hold a record.
LEMMA TallyType ==
  ASSUME NEW bucket
  PROVE  Tally(bucket) \in [Storable -> 0 .. 4]
<1>1. ASSUME NEW r
      PROVE  Cardinality({s \in Slots : bucket[s] = r}) \in 0 .. 4
  <2> DEFINE T == {s \in Slots : bucket[s] = r}
  <2>1. IsFiniteSet(T) /\ Cardinality(T) <= 4
    BY SlotsFinite, FS_Subset
  <2>2. Cardinality(T) \in Nat
    BY <2>1, FS_CardinalityType
  <2> HIDE DEF T
  <2> QED BY <2>1, <2>2 DEF T
<1> QED BY <1>1 DEF Tally

-----------------------------------------------------------------------------
(* What a write does to the bucket written and to the others.              *)

\* ReadBucket as a function of what it reads.
BucketAt(bits, pays, w, start, p) ==
  LET high == Decode(Value(Field(bits, start + 4 * w, 12), 12))
  IN [s \in Slots |->
        [fingerprint |-> Value(Field(bits, start + (3 - s) * w, w), w)
                           + high[s] * 2 ^ w,
         payload |-> pays[4 * p + s]]]

\* The two are the same.
LEMMA ReadIsBucketAt ==
  ASSUME NEW p
  PROVE  ReadBucket(p) = BucketAt(storage, payloads, low_width, Start(p), p)
BY DEF ReadBucket, ReadBits, BucketAt

\* Buckets follow one another without a gap and end with the storage.
LEMMA BucketsApart ==
  ASSUME fingerprint_bits \in Widths, NEW p \in Buckets
  PROVE  /\ Start(p) \in Nat
         /\ Start(p) + EncodedBitsPerBucket <= BucketCount * EncodedBitsPerBucket
         /\ \A q \in Buckets : q # p =>
              \/ Start(q) + EncodedBitsPerBucket <= Start(p)
              \/ Start(p) + EncodedBitsPerBucket <= Start(q)
<1> DEFINE E == EncodedBitsPerBucket
           N == BucketCount
<1>1. E \in Nat /\ N \in Nat /\ p \in 0 .. N - 1
  BY WidthFacts, WidthAssumption DEF Buckets
<1>2. \A x \in Nat, y \in Nat : x < y => x * E + E <= y * E
  <2> SUFFICES ASSUME NEW x \in Nat, NEW y \in Nat, x < y
               PROVE  x * E + E <= y * E
    OBVIOUS
  <2>1. PICK d \in Nat : y = x + 1 + d
    <3>1. y - x - 1 \in Nat
      OBVIOUS
    <3> QED BY <3>1
  <2> HIDE DEF E
  <2>2. y * E = x * E + E + d * E
    BY <1>1, <2>1
  <2>3. d * E \in Nat /\ x * E \in Nat
    BY <1>1, <2>1
  <2> QED BY <1>1, <2>2, <2>3
<1>3. \A x \in Buckets : x \in Nat /\ x < N /\ Start(x) = x * E
  BY <1>1 DEF Start, Buckets
<1> HIDE DEF E, N
<1>4. Start(p) \in Nat
  BY <1>1, <1>3
<1>5. Start(p) + E <= N * E
  BY <1>1, <1>2, <1>3
<1>6. ASSUME NEW q \in Buckets, q # p
      PROVE  Start(q) + E <= Start(p) \/ Start(p) + E <= Start(q)
  <2>1. p \in Nat /\ q \in Nat /\ Start(p) = p * E /\ Start(q) = q * E
    BY <1>3
  <2>2. p < q \/ q < p
    BY <1>6, <2>1
  <2>3. p < q => p * E + E <= q * E
    BY <1>2, <2>1
  <2>4. q < p => q * E + E <= p * E
    BY <1>2, <2>1
  <2> QED BY <2>1, <2>2, <2>3, <2>4
<1> QED BY <1>4, <1>5, <1>6 DEF E, N

\* Where WriteBucket writes, and what.
LEMMA StorageWritten ==
  ASSUME fingerprint_bits \in Widths, NEW p \in Buckets, NEW bucket,
         WriteBucket(p, bucket)
  PROVE  LET b == Start(p)
             w == low_width
             low(s) == StableSort(bucket)[s].fingerprint % 2 ^ w
             high == [s \in Slots |-> StableSort(bucket)[s].fingerprint \div 2 ^ w]
         IN FieldsHold(storage', storage, b, w, low(0), low(1), low(2), low(3),
                       Encode(high))
<1> DEFINE b == Start(p)
           w == low_width
           low(s) == StableSort(bucket)[s].fingerprint % 2 ^ w
           high == [s \in Slots |-> StableSort(bucket)[s].fingerprint \div 2 ^ w]
           b0 == WriteBits(storage, b + (3 - 0) * w, w, low(0))
           b1 == WriteBits(b0, b + (3 - 1) * w, w, low(1))
           b2 == WriteBits(b1, b + (3 - 2) * w, w, low(2))
           b3 == WriteBits(b2, b + (3 - 3) * w, w, low(3))
           b4 == WriteBits(b3, b + 4 * w, 12, Encode(high))
<1>1. b \in Nat /\ w \in Nat
  BY WidthFacts, BucketsApart
<1>2. storage' = b4
  BY DEF WriteBucket
<1> HIDE DEF b, w, low, high
<1>3. /\ b + (3 - 0) * w = b + 3 * w
      /\ b + (3 - 1) * w = b + 2 * w
      /\ b + (3 - 2) * w = b + w
      /\ b + (3 - 3) * w = b
  BY <1>1
<1>4. /\ b0 = WriteBits(storage, b + 3 * w, w, low(0))
      /\ b1 = WriteBits(b0, b + 2 * w, w, low(1))
      /\ b2 = WriteBits(b1, b + w, w, low(2))
      /\ b3 = WriteBits(b2, b, w, low(3))
      /\ b4 = WriteBits(b3, b + 4 * w, 12, Encode(high))
  BY <1>3
<1> HIDE DEF b0, b1, b2, b3, b4
<1>5. FieldsHold(b4, storage, b, w, low(0), low(1), low(2), low(3), Encode(high))
  BY <1>1, <1>4, FieldsWritten
<1> QED BY <1>2, <1>5 DEF b, w, low, high

\* A sorted bucket holds the records of the one it was made from.
LEMMA SortedBucket ==
  ASSUME fingerprint_bits \in Widths, NEW bucket,
         \A s \in Slots : bucket[s] \in Storable
  PROVE  LET sorted == StableSort(bucket)
         IN /\ sorted = [s \in Slots |-> sorted[s]]
            /\ \A s \in Slots : sorted[s] \in Storable
            /\ \A s \in 0 .. 2 : sorted[s].fingerprint >= sorted[s + 1].fingerprint
            /\ Tally(sorted) = Tally(bucket)
<1> DEFINE sorted == StableSort(bucket)
<1>1. \A s \in Slots : bucket[s].fingerprint \in Nat
  BY StorableType
<1>2. PICK order : /\ Arranges(order, bucket)
                   /\ sorted = [s \in Slots |-> bucket[order[s]]]
  BY <1>1, SortArranges
<1> HIDE DEF sorted
<1>3. \A s \in Slots : order[s] \in Slots /\ sorted[s] = bucket[order[s]]
  BY <1>2 DEF Arranges
<1>4. \A s \in 0 .. 2 : sorted[s].fingerprint >= sorted[s + 1].fingerprint
  <2> SUFFICES ASSUME NEW s \in 0 .. 2
               PROVE  sorted[s].fingerprint >= sorted[s + 1].fingerprint
    OBVIOUS
  <2>1. s \in Slots /\ s + 1 \in Slots
    BY DEF Slots
  <2>2. bucket[order[s]].fingerprint >= bucket[order[s + 1]].fingerprint
    BY <1>2 DEF Arranges
  <2> QED BY <1>3, <2>1, <2>2
<1>5. Tally(sorted) = Tally(bucket)
  BY <1>2, SameTally
<1>6. sorted = [s \in Slots |-> sorted[s]]
  BY <1>2
<1> QED BY <1>3, <1>4, <1>5, <1>6 DEF sorted

\* The high nibbles of a sorted bucket come back out of their code, and the
\* low bits out of their fields.
LEMMA NumbersReadBack ==
  ASSUME fingerprint_bits \in Widths
  PROVE  /\ \A v \in 0 .. 2 ^ low_width - 1 : Value(Ones(v, low_width), low_width) = v
         /\ \A nibbles \in [Slots -> 0 .. 15] : NonIncreasing(nibbles) =>
              Decode(Value(Ones(Encode(nibbles), 12), 12)) = nibbles
<1>1. \A v \in 0 .. 2 ^ low_width - 1 : Value(Ones(v, low_width), low_width) = v
  <2> SUFFICES ASSUME NEW v \in 0 .. 2 ^ low_width - 1
               PROVE  Value(Ones(v, low_width), low_width) = v
    OBVIOUS
  <2>1. low_width \in Nat /\ 2 ^ low_width \in Nat
    BY WidthFacts
  <2>2. v \in Nat /\ v < 2 ^ low_width
    BY <2>1
  <2> QED BY <2>1, <2>2, ValueOfOnes
<1>2. \A v \in Nat : v < 4096 => Value(Ones(v, 12), 12) = v
  <2> SUFFICES ASSUME NEW v \in Nat, v < 4096
               PROVE  Value(Ones(v, 12), 12) = v
    OBVIOUS
  <2> DEFINE w == 12
  <2>1. w \in Nat /\ v < 2 ^ w
    BY SmallPowers
  <2> HIDE DEF w
  <2>2. Value(Ones(v, w), w) = v
    BY <2>1, ValueOfOnes
  <2> QED BY <2>2 DEF w
<1>3. ASSUME NEW nibbles \in [Slots -> 0 .. 15], NonIncreasing(nibbles)
      PROVE  Decode(Value(Ones(Encode(nibbles), 12), 12)) = nibbles
  <2> DEFINE read(v) == Value(Ones(v, 12), 12)
  <2>0. nibbles \in SortedNibbles
    BY <1>3 DEF SortedNibbles
  <2>1. /\ Encode(nibbles) \in Nat /\ Encode(nibbles) < 3876
        /\ Decode(Encode(nibbles)) = nibbles
    BY <2>0, SortedStand, CodeRange
  <2>2. \A v \in Nat : v < 4096 => read(v) = v
    BY <1>2
  <2> HIDE DEF read
  <2>3. Encode(nibbles) < 4096
    BY <2>1
  <2>4. read(Encode(nibbles)) = Encode(nibbles)
    BY <2>1, <2>2, <2>3
  <2>5. Decode(read(Encode(nibbles))) = nibbles
    BY <2>1, <2>4
  <2> QED BY <2>5 DEF read
<1> QED BY <1>1, <1>3

\* The slots of a bucket's payloads, by number.
LEMMA PayloadSlots ==
  ASSUME NEW p \in Buckets, NEW s \in Slots
  PROVE  /\ 4 * p + s \in 0 .. 4 * BucketCount - 1
         /\ (4 * p + s) \div 4 = p
         /\ (4 * p + s) % 4 = s
BY WidthAssumption DEF Buckets, Slots

\* A bucket reads as the sorted records it has been written with.
LEMMA BucketWritten ==
  ASSUME fingerprint_bits \in Widths, UNCHANGED fingerprint_bits,
         DOMAIN payloads = 0 .. 4 * BucketCount - 1,
         NEW p \in Buckets, NEW bucket, \A s \in Slots : bucket[s] \in Storable,
         WriteBucket(p, bucket)
  PROVE  ReadBucket(p)' = StableSort(bucket)
<1> DEFINE b == Start(p)
           w == low_width
           m == 2 ^ w
           sorted == StableSort(bucket)
           f(s) == sorted[s].fingerprint
           high == [s \in Slots |-> f(s) \div m]
<1>1. /\ sorted = [s \in Slots |-> sorted[s]]
      /\ \A s \in Slots : sorted[s] \in Storable
      /\ \A s \in 0 .. 2 : f(s) >= f(s + 1)
  BY SortedBucket
<1>2. ReadBucket(p)' = BucketAt(storage', payloads', w, b, p)
  BY DEF ReadBucket, ReadBits, BucketAt, Start, EncodedBitsPerBucket, low_width
<1>3. FieldsHold(storage', storage, b, w, f(0) % m, f(1) % m, f(2) % m, f(3) % m,
                 Encode(high))
  BY StorageWritten
<1>4. \A s \in Slots : payloads'[4 * p + s] = sorted[s].payload
  BY PayloadSlots DEF WriteBucket
<1>5. /\ w \in 1 .. 60 /\ m \in Nat \ {0} /\ b \in Nat
  BY WidthFacts, BucketsApart
<1>6. \A s \in Slots : /\ sorted[s] = [fingerprint |-> f(s), payload |-> sorted[s].payload]
                       /\ f(s) \in Nat /\ f(s) < 16 * m
  BY <1>1, StorableType
<1>7. /\ \A v \in 0 .. m - 1 : Value(Ones(v, w), w) = v
      /\ \A nibbles \in [Slots -> 0 .. 15] : NonIncreasing(nibbles) =>
           Decode(Value(Ones(Encode(nibbles), 12), 12)) = nibbles
  BY NumbersReadBack
<1> HIDE DEF b, w, m, sorted, f
<1>8. \A s \in Slots : /\ f(s) \div m \in 0 .. 15
                       /\ f(s) % m \in 0 .. m - 1
                       /\ f(s) = (f(s) % m) + (f(s) \div m) * m
  <2> SUFFICES ASSUME NEW s \in Slots
               PROVE  /\ f(s) \div m \in 0 .. 16 - 1
                      /\ f(s) % m \in 0 .. m - 1
                      /\ f(s) = (f(s) % m) + (f(s) \div m) * m
    OBVIOUS
  <2>1. /\ f(s) \in Nat /\ f(s) < 16 * m
        /\ m \in Nat \ {0} /\ 16 \in Nat
    BY <1>5, <1>6
  <2> DEFINE x == f(s)
  <2> HIDE DEF x
  <2>2. /\ x \div m \in 0 .. 16 - 1
        /\ x % m \in 0 .. m - 1
        /\ x = (x % m) + (x \div m) * m
    BY <2>1, Divided DEF x
  <2> QED BY <2>2 DEF x
<1>9. high \in [Slots -> 0 .. 15] /\ NonIncreasing(high)
  <2>1. high \in [Slots -> 0 .. 15]
    BY <1>8
  <2>2. ASSUME NEW s \in 0 .. 2 PROVE high[s] >= high[s + 1]
    <3>1. s \in Slots /\ s + 1 \in Slots
      BY DEF Slots
    <3>2. f(s) \in Nat /\ f(s + 1) \in Nat /\ f(s + 1) <= f(s)
      BY <1>1, <1>6, <3>1
    <3>3. f(s + 1) \div m <= f(s) \div m
      BY <1>5, <3>2, DividedMonotone
    <3>4. f(s + 1) \div m \in Int /\ f(s) \div m \in Int
      BY <1>8, <3>1
    <3> QED BY <3>1, <3>3, <3>4
  <2> QED BY <2>1, <2>2 DEF NonIncreasing
<1>10. Decode(Value(Field(storage', b + 4 * w, 12), 12)) = high
  BY <1>3, <1>7, <1>9 DEF FieldsHold
<1>11. \A s \in Slots : Value(Field(storage', b + (3 - s) * w, w), w) = f(s) % m
  <2>1. /\ b + (3 - 0) * w = b + 3 * w
        /\ b + (3 - 1) * w = b + 2 * w
        /\ b + (3 - 2) * w = b + w
        /\ b + (3 - 3) * w = b
    BY <1>5
  <2>2. 0 \in Slots /\ 1 \in Slots /\ 2 \in Slots /\ 3 \in Slots
    BY DEF Slots
  <2>3. Value(Field(storage', b + (3 - 0) * w, w), w) = f(0) % m
    BY <1>3, <1>7, <1>8, <2>1, <2>2 DEF FieldsHold
  <2>4. Value(Field(storage', b + (3 - 1) * w, w), w) = f(1) % m
    BY <1>3, <1>7, <1>8, <2>1, <2>2 DEF FieldsHold
  <2>5. Value(Field(storage', b + (3 - 2) * w, w), w) = f(2) % m
    BY <1>3, <1>7, <1>8, <2>1, <2>2 DEF FieldsHold
  <2>6. Value(Field(storage', b + (3 - 3) * w, w), w) = f(3) % m
    BY <1>3, <1>7, <1>8, <2>1, <2>2 DEF FieldsHold
  <2>7. ASSUME NEW s \in Slots
        PROVE  s = 0 \/ s = 1 \/ s = 2 \/ s = 3
    BY DEF Slots
  <2> QED BY <2>3, <2>4, <2>5, <2>6, <2>7
<1>12. BucketAt(storage', payloads', w, b, p)
         = [s \in Slots |-> [fingerprint |-> (f(s) % m) + high[s] * m,
                             payload |-> sorted[s].payload]]
  BY <1>4, <1>10, <1>11 DEF BucketAt, m
<1>13. \A s \in Slots : [fingerprint |-> (f(s) % m) + high[s] * m,
                         payload |-> sorted[s].payload] = sorted[s]
  BY <1>6, <1>8
<1> HIDE DEF high
<1> QED BY <1>1, <1>2, <1>12, <1>13 DEF sorted

\* A write leaves what the other buckets read as it was, although they may
\* share bytes with the bucket written.
LEMMA OthersUntouched ==
  ASSUME fingerprint_bits \in Widths, UNCHANGED fingerprint_bits,
         DOMAIN payloads = 0 .. 4 * BucketCount - 1,
         NEW p \in Buckets, NEW bucket, WriteBucket(p, bucket),
         NEW q \in Buckets, q # p
  PROVE  ReadBucket(q)' = ReadBucket(q)
<1> DEFINE a == Start(q)
           b == Start(p)
           w == low_width
<1>1. ReadBucket(q)' = BucketAt(storage', payloads', w, a, q)
  BY DEF ReadBucket, ReadBits, BucketAt, Start, EncodedBitsPerBucket, low_width
<1>2. ReadBucket(q) = BucketAt(storage, payloads, w, a, q)
  BY ReadIsBucketAt
<1>3. \A s \in Slots : payloads'[4 * q + s] = payloads[4 * q + s]
  BY PayloadSlots DEF WriteBucket
<1>4. \A x \in Int : x < b \/ x >= b + 4 * w + 12 =>
        (x \in storage' <=> x \in storage)
  BY StorageWritten DEF FieldsHold
<1>5. /\ a \in Nat /\ b \in Nat /\ w \in 1 .. 60
      /\ a + (4 * w + 12) <= b \/ b + (4 * w + 12) <= a
  BY WidthFacts, BucketsApart
<1> HIDE DEF a, b, w
<1>6. ASSUME NEW k \in Nat, NEW n \in Nat, k + n <= 4 * w + 12
      PROVE  Field(storage', a + k, n) = Field(storage, a + k, n)
  <2>1. ASSUME NEW i \in 0 .. n - 1
        PROVE  (a + k) + i \in storage' <=> (a + k) + i \in storage
    <3>1. (a + k) + i \in Int /\ a <= (a + k) + i /\ (a + k) + i < a + (4 * w + 12)
      BY <1>5, <1>6
    <3>2. (a + k) + i < b \/ (a + k) + i >= b + 4 * w + 12
      BY <1>5, <3>1
    <3> QED BY <1>4, <3>1, <3>2
  <2> QED BY <2>1 DEF Field
<1>7. Field(storage', a + 4 * w, 12) = Field(storage, a + 4 * w, 12)
  <2>1. 4 * w \in Nat /\ 4 * w + 12 <= 4 * w + 12
    BY <1>5
  <2> QED BY <1>6, <2>1
<1>8. ASSUME NEW s \in Slots
      PROVE  Field(storage', a + (3 - s) * w, w) = Field(storage, a + (3 - s) * w, w)
  <2> DEFINE k == (3 - s) * w
  <2>1. k \in Nat /\ k + w <= 4 * w + 12 /\ w \in Nat
    BY <1>5 DEF Slots
  <2> HIDE DEF k
  <2>2. Field(storage', a + k, w) = Field(storage, a + k, w)
    BY <1>6, <2>1
  <2> QED BY <2>2 DEF k
<1> QED BY <1>1, <1>2, <1>3, <1>7, <1>8 DEF BucketAt

-----------------------------------------------------------------------------
(* Theorems.                                                               *)

\* No read or write of a field touches a byte behind the guard bytes.
LEMMA WindowsInside ==
  ASSUME fingerprint_bits \in Widths, NEW p \in Buckets, NEW position \in Fields(p)
  PROVE  /\ position \div 8 + 16 <= StorageBytes
         /\ (position % 8) + Max({low_width, 12}) <= 128
<1> DEFINE E == EncodedBitsPerBucket
           T == BucketCount * E
           w == low_width
<1>1. /\ w \in 1 .. 60 /\ E = 4 * w + 12
      /\ Start(p) \in Nat /\ Start(p) + E <= T
      /\ BucketCount \in Nat
  BY WidthFacts, BucketsApart, WidthAssumption
<1>2. T \in Nat
  BY <1>1
<1>3. Max({w, 12}) \in {w, 12}
  <2>1. \E x \in {w, 12} : \A y \in {w, 12} : x >= y
    BY <1>1
  <2> QED BY <2>1 DEF Max
<1>4. PICK k \in 0 .. 4 : position = Start(p) + k * w
  BY DEF Fields
<1>5. StorageBytes = (T + 7) \div 8 + 16
  BY DEF StorageBytes, logical_fingerprint_bytes
<1> HIDE DEF E, T, w
<1>6. k * w \in Nat /\ k * w <= 4 * w
  BY <1>1
<1>7. position \in Nat /\ position + 12 <= T
  BY <1>1, <1>2, <1>4, <1>6
<1>8. position \div 8 <= (T + 7) \div 8
  BY <1>2, <1>7
<1>9. Max({w, 12}) <= 60 /\ Max({w, 12}) \in Nat
  BY <1>1, <1>3
<1>10. position % 8 <= 7 /\ position % 8 \in Nat
  BY <1>7
<1>11. position \div 8 \in Int /\ (T + 7) \div 8 \in Int
  BY <1>2, <1>7
<1> QED BY <1>5, <1>8, <1>9, <1>10, <1>11 DEF w

\* A write stays inside the storage.
LEMMA StorageKept ==
  ASSUME TypeOK, UNCHANGED fingerprint_bits, NEW p \in Buckets, NEW bucket,
         WriteBucket(p, bucket)
  PROVE  (storage \subseteq 0 .. 8 * logical_fingerprint_bytes - 1)'
<1> DEFINE b == Start(p)
           w == low_width
           T == BucketCount * EncodedBitsPerBucket
           L == logical_fingerprint_bytes
<1>1. /\ b \in Nat /\ b + (4 * w + 12) <= T /\ w \in 1 .. 60 /\ T \in Nat
      /\ L = (T + 7) \div 8
  <2>1. fingerprint_bits \in Widths
    BY DEF TypeOK
  <2>2. w \in 1 .. 60 /\ EncodedBitsPerBucket = 4 * w + 12 /\ BucketCount \in Nat
    BY <2>1, WidthFacts, WidthAssumption
  <2>3. b \in Nat /\ b + EncodedBitsPerBucket <= T
    BY <2>1, BucketsApart
  <2>4. T \in Nat
    BY <2>2
  <2>5. L = (T + 7) \div 8
    BY DEF logical_fingerprint_bytes
  <2> HIDE DEF b, w, T, L
  <2> QED BY <2>2, <2>3, <2>4, <2>5
<1>2. storage' \subseteq storage \cup (b .. b + 4 * w + 11)
  BY StorageWritten DEF FieldsHold, TypeOK
<1>3. storage \subseteq 0 .. 8 * L - 1
  BY DEF TypeOK
<1>4. L' = L
  BY DEF logical_fingerprint_bytes, EncodedBitsPerBucket
<1> HIDE DEF b, w, T, L
<1>5. 8 * L >= T /\ L \in Int
  BY <1>1
<1>6. b .. b + 4 * w + 11 \subseteq 0 .. 8 * L - 1
  BY <1>1, <1>5
<1>7. storage' \subseteq 0 .. 8 * L' - 1
  BY <1>2, <1>3, <1>4, <1>6
<1> QED BY <1>7 DEF L

CodecInv == TypeOK /\ ReadsBack

\* The storage of the constructor, all zeros, reads as empty buckets.
LEMMA CodecInit == Init => CodecInv
<1> SUFFICES ASSUME Init PROVE CodecInv
  OBVIOUS
<1>1. /\ fingerprint_bits \in Widths
      /\ storage = {}
      /\ payloads = [i \in 0 .. 4 * BucketCount - 1 |-> Empty.payload]
      /\ written = [p \in Buckets |-> Tally([s \in Slots |-> Empty])]
  BY DEF Init
<1>2. TypeOK
  <2>1. written \in [Buckets -> [Storable -> 0 .. 4]]
    BY <1>1, TallyType
  <2> QED BY <1>1, <2>1, WindowsInside DEF TypeOK
<1>3. \A p \in Buckets : ReadBucket(p) = [s \in Slots |-> Empty]
  <2> SUFFICES ASSUME NEW p \in Buckets
               PROVE  ReadBucket(p) = [s \in Slots |-> Empty]
    OBVIOUS
  <2> DEFINE zeros == [s \in Slots |-> 0]
             high == Decode(ReadBits(Start(p) + 4 * low_width, 12))
  <2>1. \A x : \A n \in Nat : ReadBits(x, n) = 0
    <3>1. \A x, n : Field(storage, x, n) = {}
      BY <1>1 DEF Field
    <3> QED BY <3>1, ValueOfNone DEF ReadBits
  <2>2. Encode(zeros) = 0 /\ zeros \in [Slots -> 0 .. 15] /\ NonIncreasing(zeros)
    <3>1. zeros[0] = 0 /\ zeros[1] = 0 /\ zeros[2] = 0 /\ zeros[3] = 0
      BY DEF Slots
    <3>2. NonIncreasing(zeros)
      BY DEF NonIncreasing, Slots
    <3>3. zeros \in [Slots -> 0 .. 15]
      OBVIOUS
    <3> HIDE DEF zeros
    <3>4. Encode(zeros) = Turns(4, 0) + Turns(3, 0) + Turns(2, 0) + Turns(1, 0)
      BY <3>1, <3>2 DEF Encode
    <3>5. Turns(4, 0) = 0 /\ Turns(3, 0) = 0 /\ Turns(2, 0) = 0 /\ Turns(1, 0) = 0
      BY DEF Turns
    <3> QED BY <3>2, <3>3, <3>4, <3>5
  <2>3. Decode(0) = zeros
    BY <2>2, SortedStand DEF SortedNibbles
  <2>4. high = zeros
    BY <2>1, <2>3
  <2>5. \A s \in Slots : payloads[4 * p + s] = Empty.payload
    BY <1>1, PayloadSlots
  <2>6. ReadBucket(p) = [s \in Slots |->
           [fingerprint |-> ReadBits(Start(p) + (3 - s) * low_width, low_width)
                              + high[s] * 2 ^ low_width,
            payload |-> payloads[4 * p + s]]]
    BY DEF ReadBucket
  <2>7. 0 + 0 * 2 ^ low_width = 0 /\ low_width \in Nat
    <3>1. low_width \in 1 .. 60 /\ 2 ^ low_width \in Nat
      BY <1>1, WidthFacts
    <3> QED BY <3>1
  <2>8. \A x : ReadBits(x, low_width) = 0
    BY <2>1, <2>7
  <2> HIDE DEF high
  <2>9. \A s \in Slots : [fingerprint |-> 0, payload |-> Empty.payload] = Empty
    BY DEF Empty
  <2> QED BY <2>4, <2>5, <2>6, <2>7, <2>8, <2>9
<1>4. ReadsBack
  <2> SUFFICES ASSUME NEW p \in Buckets
               PROVE  LET bucket == ReadBucket(p)
                      IN /\ \A s \in Slots : bucket[s] \in Storable
                         /\ Tally(bucket) = written[p]
                         /\ \A s \in 0 .. 2 : bucket[s].fingerprint
                                                >= bucket[s + 1].fingerprint
    BY DEF ReadsBack
  <2>1. ReadBucket(p) = [s \in Slots |-> Empty]
    BY <1>3
  <2>2. \A s \in 0 .. 2 : s \in Slots /\ s + 1 \in Slots
    BY DEF Slots
  <2>3. Empty \in Storable /\ Empty.fingerprint = 0
    BY DEF Storable, Empty
  <2>4. written[p] = Tally([s \in Slots |-> Empty])
    BY <1>1
  <2> QED BY <2>1, <2>2, <2>3, <2>4
<1> QED BY <1>2, <1>4 DEF CodecInv

\* A write of a bucket that was read, with one slot replaced.
LEMMA CodecStep ==
  ASSUME CodecInv, NEW p \in Buckets, NEW s \in Slots, NEW r \in Storable,
         ReplaceSlot(p, s, r)
  PROVE  /\ CodecInv'
         /\ \A q \in Buckets : q # p => ReadBucket(q)' = ReadBucket(q)
<1> DEFINE bucket == [ReadBucket(p) EXCEPT ![s] = r]
           sorted == StableSort(bucket)
<1>1. /\ WriteBucket(p, bucket)
      /\ written' = [written EXCEPT ![p] = Tally(bucket)]
      /\ UNCHANGED fingerprint_bits
      /\ fingerprint_bits \in Widths
      /\ DOMAIN payloads = 0 .. 4 * BucketCount - 1
  BY DEF ReplaceSlot, CodecInv, TypeOK
<1>2. \A t \in Slots : bucket[t] \in Storable
  <2>1. \A t \in Slots : ReadBucket(p)[t] \in Storable
    BY DEF CodecInv, ReadsBack
  <2>2. DOMAIN ReadBucket(p) = Slots
    BY DEF ReadBucket
  <2>3. \A t \in Slots : bucket[t] = IF t = s THEN r ELSE ReadBucket(p)[t]
    BY <2>2
  <2> QED BY <2>1, <2>3
<1> HIDE DEF bucket
<1>3. ReadBucket(p)' = sorted
  BY <1>1, <1>2, BucketWritten
<1>4. \A q \in Buckets : q # p => ReadBucket(q)' = ReadBucket(q)
  BY <1>1, OthersUntouched
<1>5. Storable' = Storable
  BY <1>1 DEF Storable
<1>6. /\ \A t \in Slots : sorted[t] \in Storable
      /\ \A t \in 0 .. 2 : sorted[t].fingerprint >= sorted[t + 1].fingerprint
      /\ Tally(sorted) = Tally(bucket)
  BY <1>1, <1>2, SortedBucket
<1>7. \A b : Tally(b)' = Tally(b)
  BY <1>5 DEF Tally
<1> HIDE DEF sorted
<1>8. TypeOK'
  <2>1. (storage \subseteq 0 .. 8 * logical_fingerprint_bytes - 1)'
    BY <1>1, StorageKept DEF CodecInv
  <2>2. low_width' = low_width /\ StorageBytes' = StorageBytes
    BY <1>1 DEF low_width, StorageBytes, logical_fingerprint_bytes,
                EncodedBitsPerBucket
  <2>3. \A q \in Buckets : Fields(q)' = Fields(q)
    BY <1>1 DEF Fields, Start, EncodedBitsPerBucket, low_width
  <2>4. DOMAIN payloads' = 0 .. 4 * BucketCount - 1
    BY <1>1 DEF WriteBucket
  <2>5. written' \in [Buckets -> [Storable -> 0 .. 4]]
    BY <1>1, TallyType DEF CodecInv, TypeOK
  <2>6. \A q \in Buckets : \A position \in Fields(q) :
          /\ position \div 8 + 16 <= StorageBytes
          /\ (position % 8) + Max({low_width, 12}) <= 128
    BY <1>1, WindowsInside
  <2> QED BY <1>1, <1>5, <2>1, <2>2, <2>3, <2>4, <2>5, <2>6 DEF TypeOK
<1>9. ReadsBack'
  <2> SUFFICES ASSUME NEW q \in Buckets
               PROVE  LET read == ReadBucket(q)'
                      IN /\ \A t \in Slots : read[t] \in Storable
                         /\ Tally(read) = written'[q]
                         /\ \A t \in 0 .. 2 : read[t].fingerprint
                                                >= read[t + 1].fingerprint
    BY <1>5, <1>7 DEF ReadsBack, Tally
  <2>1. written \in [Buckets -> [Storable -> 0 .. 4]]
    BY DEF CodecInv, TypeOK
  <2>2. CASE q = p
    BY <1>1, <1>3, <1>6, <2>1, <2>2
  <2>3. CASE q # p
    <3>1. ReadBucket(q)' = ReadBucket(q) /\ written'[q] = written[q]
      BY <1>1, <1>4, <2>1, <2>3
    <3> QED BY <3>1 DEF CodecInv, ReadsBack
  <2> QED BY <2>2, <2>3
<1> QED BY <1>4, <1>8, <1>9 DEF CodecInv

\* Every reachable state satisfies the invariant.
THEOREM CodecInvariant == Spec => []CodecInv
<1>1. Init => CodecInv
  BY CodecInit
<1>2. CodecInv /\ [Next]_vars => CodecInv'
  <2> SUFFICES ASSUME CodecInv, [Next]_vars PROVE CodecInv'
    OBVIOUS
  <2>1. ASSUME NEW p \in Buckets, NEW s \in Slots, NEW r \in Storable,
               ReplaceSlot(p, s, r)
        PROVE  CodecInv'
    BY <2>1, CodecStep
  <2>2. CASE UNCHANGED vars
    <3>1. UNCHANGED <<fingerprint_bits, storage, payloads, written>>
      BY <2>2 DEF vars
    <3>2. UNCHANGED <<Storable, low_width, EncodedBitsPerBucket, StorageBytes,
                      logical_fingerprint_bytes>>
      BY <3>1 DEF Storable, low_width, EncodedBitsPerBucket, StorageBytes,
                  logical_fingerprint_bytes
    <3>3. TypeOK'
      <4>1. \A p : Fields(p)' = Fields(p)
        BY <3>2 DEF Fields, Start
      <4> QED BY <3>1, <3>2, <4>1 DEF CodecInv, TypeOK
    <3>4. ReadsBack'
      <4>1. \A p : ReadBucket(p)' = ReadBucket(p)
        BY <3>1, <3>2 DEF ReadBucket, ReadBits, Start
      <4>2. \A b : Tally(b)' = Tally(b)
        BY <3>2 DEF Tally
      <4> QED BY <3>1, <3>2, <4>1, <4>2 DEF CodecInv, ReadsBack
    <3> QED BY <3>3, <3>4 DEF CodecInv
  <2> QED BY <2>1, <2>2 DEF Next
<1> QED BY <1>1, <1>2, PTL DEF Spec

\* No access leaves the storage, at whatever bit of a byte a bucket begins,
\* also in the last bucket.
THEOREM AccessesStayInside == Spec => []TypeOK
<1>1. CodecInv => TypeOK
  BY DEF CodecInv
<1> QED BY <1>1, CodecInvariant, PTL

\* A bucket reads as the records it was last written with, in descending order
\* of their fingerprints, whatever was written to its neighbours since.
THEOREM BucketsReadBack == Spec => []ReadsBack
<1>1. CodecInv => ReadsBack
  BY DEF CodecInv
<1> QED BY <1>1, CodecInvariant, PTL

\* A write changes what one bucket reads and no other.
THEOREM OneBucketAtATime ==
  Spec => [][\E p \in Buckets : \A q \in Buckets \ {p} :
               ReadBucket(q)' = ReadBucket(q)]_vars
<1> DEFINE A == \E p \in Buckets : \A q \in Buckets \ {p} :
                  ReadBucket(q)' = ReadBucket(q)
<1>1. CodecInv /\ [Next]_vars => [A]_vars
  <2> SUFFICES ASSUME CodecInv, Next PROVE A
    OBVIOUS
  <2>1. PICK p \in Buckets, s \in Slots, r \in Storable : ReplaceSlot(p, s, r)
    BY DEF Next
  <2>2. \A q \in Buckets \ {p} : ReadBucket(q)' = ReadBucket(q)
    BY <2>1, CodecStep
  <2> QED BY <2>2
<1> HIDE DEF A
<1>2. Spec => [][A]_vars
  BY <1>1, CodecInvariant, PTL DEF Spec
<1> QED BY <1>2 DEF A
=============================================================================
