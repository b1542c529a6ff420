----------------------- MODULE ExperimentRunnerProofs ------------------------
(***************************************************************************)
(* Proofs about ExperimentRunner, for any sizes, rounds and settings of    *)
(* the quiescence check and any number of starts: wherever the script is   *)
(* killed, its files tell one experiment, the summarizer numbers its       *)
(* rounds as they were run, and nothing is measured on a busy host.        *)
(***************************************************************************)
EXTENDS ExperimentRunner, SequenceTheorems, FiniteSetTheorems, TLAPS

-----------------------------------------------------------------------------
(* The plan.                                                               *)

Schemes == {"LSE", "VLSE"}
Blocks == 0 .. Len(Sizes) - 1

\* Where the loops run this scheme in round r of the size of block b.
Place(b, r, s) ==
  b * PerSize + 2 * (r - 1) + (IF s = "LSE" <=> r % 2 = 1 THEN 1 ELSE 2)

Planned(b, r, s) == [scheme |-> s, n |-> Sizes[b + 1], round |-> r]

\* The settings are numbers.
LEMMA SettingsType ==
  /\ Sizes \in Seq(Nat \ {0}) /\ Len(Sizes) \in Nat \ {0}
  /\ Rounds \in Nat \ {0} /\ PerSize \in Nat \ {0}
  /\ QuiescenceSamples \in Nat
BY SettingsAssumption DEF PerSize

\* A number less than a * d is a quotient below a and a remainder.
LEMMA QuotientBounded ==
  ASSUME NEW a \in Nat, NEW d \in Nat \ {0}, NEW x \in 0 .. a * d - 1
  PROVE  /\ x \div d \in 0 .. a - 1
         /\ x % d \in 0 .. d - 1
         /\ x = (x \div d) * d + (x % d)
<1> DEFINE q == x \div d
           r == x % d
<1>1. a * d \in Nat
  OBVIOUS
<1>2. x \in Nat /\ x < a * d
  BY <1>1
<1>3. q \in Int /\ r \in 0 .. d - 1 /\ x = q * d + r
  BY <1>2
<1> HIDE DEF q, r
<1>4. q >= 0
  <2>1. CASE q <= -1
    <3>1. q * d <= (-1) * d
      BY <1>3, <2>1
    <3> QED BY <1>2, <1>3, <3>1
  <2> QED BY <1>3, <2>1
<1>5. q < a
  <2>1. CASE q >= a
    <3>1. q * d >= a * d
      BY <1>3, <2>1
    <3> QED BY <1>1, <1>2, <1>3, <3>1
  <2> QED BY <1>3, <2>1
<1> QED BY <1>3, <1>4, <1>5 DEF q, r

\* Quotient and remainder are what they were put together from.
LEMMA QuotientOf ==
  ASSUME NEW d \in Nat \ {0}, NEW b \in Nat, NEW m \in 0 .. d - 1
  PROVE  (b * d + m) \div d = b /\ (b * d + m) % d = m
<1> DEFINE x == b * d + m
           q == x \div d
           r == x % d
<1>1. x \in Nat
  OBVIOUS
<1>2. q \in Int /\ r \in 0 .. d - 1 /\ x = q * d + r
  BY <1>1
<1>3. x = b * d + m
  OBVIOUS
<1> HIDE DEF x, q, r
<1>4. b * d \in Int /\ q * d \in Int
  BY <1>2
<1>5. ~(q < b)
  <2> SUFFICES ASSUME q < b PROVE FALSE
    OBVIOUS
  <2>1. q * d + d <= b * d
    <3>1. (q + 1) * d <= b * d
      BY <1>2
    <3>2. (q + 1) * d = q * d + d
      BY <1>2
    <3> QED BY <3>1, <3>2
  <2> QED BY <1>2, <1>3, <1>4, <2>1
<1>6. ~(b < q)
  <2> SUFFICES ASSUME b < q PROVE FALSE
    OBVIOUS
  <2>1. b * d + d <= q * d
    <3>1. (b + 1) * d <= q * d
      BY <1>2
    <3>2. (b + 1) * d = b * d + d
      OBVIOUS
    <3> QED BY <3>1, <3>2
  <2> QED BY <1>2, <1>3, <1>4, <2>1
<1>7. q = b
  BY <1>2, <1>5, <1>6
<1>8. r = m
  BY <1>2, <1>3, <1>4, <1>7
<1> QED BY <1>7, <1>8 DEF q, r, x

N == Len(Sizes) * PerSize

\* The plan is a sequence of so many runs.
LEMMA PlanLength ==
  /\ N \in Nat \ {0}
  /\ Len(Plan) = N
  /\ DOMAIN Plan = 1 .. N
<1>1. N \in Nat \ {0}
  BY SettingsType DEF N
<1>2. DOMAIN Plan = 1 .. N
  BY DEF Plan, N
<1>3. Plan \in Seq({Plan[i] : i \in 1 .. N})
  <2>1. Plan = [i \in 1 .. N |-> Plan[i]]
    BY DEF Plan, N
  <2> QED BY <1>1, <2>1
<1> QED BY <1>1, <1>2, <1>3, LenProperties

\* The loops run every scheme in every round of every size, at its place.
LEMMA PlacePlanned ==
  ASSUME NEW b \in Blocks, NEW r \in 1 .. Rounds, NEW s \in Schemes
  PROVE  /\ Place(b, r, s) \in 1 .. N
         /\ Plan[Place(b, r, s)] = Planned(b, r, s)
<1> DEFINE o == IF s = "LSE" <=> r % 2 = 1 THEN 0 ELSE 1
           m == 2 * (r - 1) + o
           i == Place(b, r, s)
<1>1. /\ b \in Nat /\ b <= Len(Sizes) - 1 /\ r \in Nat
      /\ m \in 0 .. PerSize - 1 /\ o \in {0, 1}
  BY SettingsType DEF Blocks, PerSize
<1>2. i - 1 = b * PerSize + m /\ b * PerSize \in Nat
  <2>1. b * PerSize \in Nat
    BY <1>1, SettingsType
  <2> QED BY <1>1, <2>1 DEF Place
<1>3. (i - 1) \div PerSize = b /\ (i - 1) % PerSize = m
  <2> HIDE DEF m, i
  <2> QED BY <1>1, <1>2, QuotientOf, SettingsType
<1>4. m \div 2 + 1 = r
  BY <1>1
<1>5. (i - 1) % 2 = o
  <2>1. b * PerSize = 2 * (b * Rounds) /\ b * Rounds \in Nat
    BY <1>1, SettingsType DEF PerSize
  <2> DEFINE z == b * Rounds
  <2> HIDE DEF i, z
  <2>2. i - 1 = 2 * (z + r - 1) + o /\ z \in Nat
    <3>1. b * PerSize = 2 * z /\ z \in Nat
      BY <2>1 DEF z
    <3>2. m = 2 * (r - 1) + o
      OBVIOUS
    <3> DEFINE y == b * PerSize
    <3>3. i - 1 = y + m /\ y = 2 * z
      BY <1>2, <3>1
    <3> HIDE DEF y, m, o
    <3> QED BY <1>1, <3>1, <3>2, <3>3
  <2> HIDE DEF o
  <2> QED BY <1>1, <2>2
<1>6. i \in 1 .. N
  <2>1. (b + 1) * PerSize <= Len(Sizes) * PerSize
    <3> DEFINE c == b + 1
               l == Len(Sizes)
               d == PerSize
    <3>1. c \in Nat /\ l \in Nat /\ d \in Nat /\ c <= l
      BY <1>1, SettingsType
    <3> HIDE DEF c, l, d
    <3>2. c * d <= l * d
      BY <3>1
    <3> QED BY <3>2 DEF c, l, d
  <2>2. (b + 1) * PerSize = b * PerSize + PerSize
    BY <1>1, SettingsType
  <2> HIDE DEF m, i
  <2>3. i = b * PerSize + m + 1 /\ i \in Int
    <3>1. i \in Int
      BY <1>1, <1>2 DEF i, Place
    <3> QED BY <1>1, <1>2, <3>1
  <2>4. N \in Nat /\ N = Len(Sizes) * PerSize
    BY PlanLength DEF N
  <2> QED BY <1>1, <1>2, <2>1, <2>2, <2>3, <2>4, SettingsType
<1>7. Plan[i] = [scheme |-> IF o = 0 <=> r % 2 = 1 THEN "LSE" ELSE "VLSE",
                 n |-> Sizes[b + 1], round |-> r]
  <2> HIDE DEF i, o, m
  <2>1. i \in 1 .. Len(Sizes) * PerSize
    BY <1>6 DEF N
  <2> QED BY <1>3, <1>4, <1>5, <2>1 DEF Plan
<1>8. (IF o = 0 <=> r % 2 = 1 THEN "LSE" ELSE "VLSE") = s
  BY DEF Schemes
<1> QED BY <1>6, <1>7, <1>8 DEF Planned

\* And they run nothing else.
LEMMA EveryPlaced ==
  ASSUME NEW i \in 1 .. N
  PROVE  \E b \in Blocks, r \in 1 .. Rounds, s \in Schemes : i = Place(b, r, s)
<1> DEFINE x == i - 1
           b == x \div PerSize
           m == x % PerSize
           r == m \div 2 + 1
           o == m % 2
           s == IF o = 0 <=> r % 2 = 1 THEN "LSE" ELSE "VLSE"
<1>1. /\ b \in Blocks /\ m \in 0 .. PerSize - 1
      /\ x = b * PerSize + m
  <2>1. x \in 0 .. Len(Sizes) * PerSize - 1
    BY PlanLength DEF N
  <2> HIDE DEF x
  <2>2. /\ x \div PerSize \in 0 .. Len(Sizes) - 1
        /\ x % PerSize \in 0 .. PerSize - 1
        /\ x = (x \div PerSize) * PerSize + (x % PerSize)
    BY <2>1, SettingsType, QuotientBounded
  <2> QED BY <2>2 DEF Blocks
<1>2. i \in Nat /\ i = x + 1
  BY PlanLength
<1> HIDE DEF b, m, x
<1>3. m \in Nat /\ m = 2 * (r - 1) + o /\ o \in {0, 1} /\ r \in 1 .. Rounds
  BY <1>1, SettingsType DEF PerSize
<1> HIDE DEF o, r
<1>4. s \in Schemes /\ (o = 0 <=> (s = "LSE" <=> r % 2 = 1))
  BY DEF Schemes
<1> HIDE DEF s
<1>5. i = Place(b, r, s)
  <2>1. b * PerSize \in Nat
    BY <1>1, SettingsType DEF Blocks
  <2>2. (IF s = "LSE" <=> r % 2 = 1 THEN 1 ELSE 2) = o + 1
    BY <1>3, <1>4
  <2>3. i = b * PerSize + 2 * (r - 1) + (o + 1)
    BY <1>1, <1>2, <1>3, <2>1
  <2> QED BY <2>2, <2>3 DEF Place
<1> QED BY <1>1, <1>3, <1>4, <1>5

\* No two places of the plan are for the same run: the sizes differ.
LEMMA PlannedDiffer ==
  ASSUME NEW b \in Blocks, NEW c \in Blocks, Sizes[b + 1] = Sizes[c + 1]
  PROVE  b = c
<1>1. b + 1 \in DOMAIN Sizes /\ c + 1 \in DOMAIN Sizes
  BY SettingsType DEF Blocks
<1>2. b + 1 = c + 1
  BY <1>1, SettingsAssumption
<1> QED BY <1>2 DEF Blocks

\* No run is planned twice.
LEMMA PlanInjective ==
  ASSUME NEW i \in 1 .. N, NEW j \in 1 .. N, Plan[i] = Plan[j]
  PROVE  i = j
<1>1. PICK b \in Blocks, r \in 1 .. Rounds, s \in Schemes : i = Place(b, r, s)
  BY EveryPlaced
<1>2. PICK c \in Blocks, q \in 1 .. Rounds, t \in Schemes : j = Place(c, q, t)
  BY EveryPlaced
<1>3. Planned(b, r, s) = Planned(c, q, t)
  BY <1>1, <1>2, PlacePlanned
<1>4. s = t /\ r = q /\ Sizes[b + 1] = Sizes[c + 1]
  BY <1>3 DEF Planned
<1>5. b = c
  BY <1>4, PlannedDiffer
<1> QED BY <1>1, <1>2, <1>4, <1>5

\* The rounds of a size are run in their order, whichever scheme goes first.
LEMMA PlaceOrder ==
  ASSUME NEW b \in Blocks, NEW s \in Schemes,
         NEW q \in 1 .. Rounds, NEW r \in 1 .. Rounds
  PROVE  q <= r <=> Place(b, q, s) <= Place(b, r, s)
<1> DEFINE z == b * PerSize
           first(x) == IF s = "LSE" <=> x % 2 = 1 THEN 1 ELSE 2
<1>1. z \in Nat
  BY SettingsType DEF Blocks
<1>2. Place(b, q, s) = z + 2 * (q - 1) + first(q)
      /\ Place(b, r, s) = z + 2 * (r - 1) + first(r)
  BY DEF Place
<1>3. first(q) \in {1, 2} /\ first(r) \in {1, 2} /\ (q = r => first(q) = first(r))
  OBVIOUS
<1> HIDE DEF z, first
<1>4. q \in Nat /\ r \in Nat
  BY SettingsType
<1> QED BY <1>1, <1>2, <1>3, <1>4

\* The summarizer, which counts the rows of a scheme and a size, numbers
\* each with its round.
LEMMA CountedRounds ==
  ASSUME NEW i \in 1 .. N
  PROVE  Cardinality({j \in 1 .. i : SummaryKey(Plan[j]) = SummaryKey(Plan[i])})
           = Plan[i].round
<1> DEFINE J == {j \in 1 .. i : SummaryKey(Plan[j]) = SummaryKey(Plan[i])}
<1>1. PICK b \in Blocks, r \in 1 .. Rounds, s \in Schemes : i = Place(b, r, s)
  BY EveryPlaced
<1> DEFINE F == [q \in 1 .. r |-> Place(b, q, s)]
<1>2. Plan[i] = Planned(b, r, s)
  BY <1>1, PlacePlanned
<1>3. r \in Nat /\ 1 .. r \subseteq 1 .. Rounds
  BY SettingsType
<1>4. ASSUME NEW q \in 1 .. r
      PROVE  Place(b, q, s) \in J
  <2>1. q \in 1 .. Rounds /\ q <= r
    BY <1>3
  <2>2. Place(b, q, s) \in 1 .. N /\ Plan[Place(b, q, s)] = Planned(b, q, s)
    BY <2>1, PlacePlanned
  <2>3. Place(b, q, s) <= i
    BY <1>1, <2>1, PlaceOrder
  <2>4. SummaryKey(Planned(b, q, s)) = SummaryKey(Planned(b, r, s))
    BY DEF SummaryKey, Planned
  <2> QED BY <1>2, <2>2, <2>3, <2>4, PlanLength
<1>5. ASSUME NEW j \in J
      PROVE  \E q \in 1 .. r : Place(b, q, s) = j
  <2>1. j \in 1 .. N /\ j <= i
    BY PlanLength
  <2>2. PICK c \in Blocks, q \in 1 .. Rounds, t \in Schemes : j = Place(c, q, t)
    BY <2>1, EveryPlaced
  <2>3. Plan[j] = Planned(c, q, t)
    BY <2>2, PlacePlanned
  <2>4. t = s /\ Sizes[c + 1] = Sizes[b + 1]
    BY <1>2, <2>3 DEF SummaryKey, Planned
  <2>5. c = b
    BY <2>4, PlannedDiffer
  <2>6. q <= r
    BY <1>1, <2>1, <2>2, <2>4, <2>5, PlaceOrder
  <2> QED BY <1>3, <2>2, <2>4, <2>5, <2>6
<1>6. ASSUME NEW p \in 1 .. r, NEW q \in 1 .. r, Place(b, p, s) = Place(b, q, s)
      PROVE  p = q
  <2>1. p \in 1 .. Rounds /\ q \in 1 .. Rounds
    BY <1>3
  <2>2. Place(b, p, s) \in Nat
    BY <2>1, PlacePlanned, PlanLength
  <2>3. p <= q /\ q <= p
    BY <1>6, <2>1, <2>2, PlaceOrder
  <2> QED BY <2>1, <2>3
<1>7. F \in [1 .. r -> J] /\ \A j \in J : \E q \in 1 .. r : F[q] = j
  BY <1>4, <1>5
<1>8. \A p, q \in 1 .. r : F[p] = F[q] => p = q
  BY <1>6
<1> HIDE DEF F, J
<1>9. F \in Bijection(1 .. r, J)
  BY <1>7, <1>8 DEF Bijection, Injection, Surjection, IsInjective
<1>10. IsFiniteSet(1 .. r) /\ Cardinality(1 .. r) = r
  BY <1>3, FS_Interval
<1>11. Cardinality(J) = r
  BY <1>9, <1>10, FS_Bijection DEF ExistsBijection
<1>12. Plan[i].round = r
  BY <1>2 DEF Planned
<1> QED BY <1>11, <1>12 DEF J

\* Run to its end, the plan has every size in every round by both schemes.
LEMMA PlanComplete ==
  {Plan[i] : i \in 1 .. N} =
    [scheme : {"LSE", "VLSE"}, n : {Sizes[i] : i \in DOMAIN Sizes},
     round : 1 .. Rounds]
<1> DEFINE R == [scheme : {"LSE", "VLSE"}, n : {Sizes[i] : i \in DOMAIN Sizes},
                 round : 1 .. Rounds]
<1>1. ASSUME NEW i \in 1 .. N
      PROVE  Plan[i] \in R
  <2>1. PICK b \in Blocks, r \in 1 .. Rounds, s \in Schemes : i = Place(b, r, s)
    BY EveryPlaced
  <2>2. b + 1 \in DOMAIN Sizes
    BY SettingsType DEF Blocks
  <2>3. Plan[i] = Planned(b, r, s)
    BY <2>1, PlacePlanned
  <2> QED BY <2>2, <2>3 DEF Planned, Schemes
<1>2. ASSUME NEW x \in R
      PROVE  \E i \in 1 .. N : Plan[i] = x
  <2>1. PICK k \in DOMAIN Sizes : x.n = Sizes[k]
    OBVIOUS
  <2>2. k - 1 \in Blocks /\ (k - 1) + 1 = k
    BY SettingsType DEF Blocks
  <2>3. x.round \in 1 .. Rounds /\ x.scheme \in Schemes
    BY DEF Schemes
  <2>4. /\ Place(k - 1, x.round, x.scheme) \in 1 .. N
        /\ Plan[Place(k - 1, x.round, x.scheme)] = Planned(k - 1, x.round, x.scheme)
    BY <2>2, <2>3, PlacePlanned
  <2>5. x = [scheme |-> x.scheme, n |-> Sizes[k], round |-> x.round]
    BY <2>1
  <2> QED BY <2>2, <2>4, <2>5 DEF Planned
<1> HIDE DEF R
<1>3. {Plan[i] : i \in 1 .. N} \subseteq R
  BY <1>1
<1>4. R \subseteq {Plan[i] : i \in 1 .. N}
  BY <1>2
<1>5. {Plan[i] : i \in 1 .. N} = R
  BY <1>3, <1>4
<1> QED BY <1>5 DEF R

-----------------------------------------------------------------------------
(* The files.                                                              *)

Runs == {Plan[i] : i \in 1 .. N}

\* The logs of the first n runs, each with its RESULT line.
Logged(n) == {[run |-> Plan[i], results |-> 1] : i \in 1 .. n}

LogWith(results) == [run |-> Plan[current], results |-> results]

\* How many lines of progress.tsv say so.
Lines(lines, what) == Cardinality({i \in DOMAIN lines : lines[i][2] = what})

RunnerTypes ==
  /\ pc \in {"shell", "build", "wait", "manifest", "benchmark", "append", "done",
             "count", "summarize"}
  /\ current \in 1 .. N + 1
  /\ nonempty \in BOOLEAN
  /\ progress \in Seq(Runs \X {"START", "DONE"})
  /\ manifest \in Seq(Runs)
  /\ raw \in Seq(Runs)

\* The files hold the first runs of the plan, each at most one run ahead of
\* the one that is written after it.
FilesInv ==
  /\ \A i \in 1 .. Len(manifest) : manifest[i] = Plan[i]
  /\ \A i \in 1 .. Len(raw) : raw[i] = Plan[i]
  /\ Lines(progress, "DONE") = current - 1
  /\ Lines(progress, "START") \in {current - 1, current}
  /\ Len(manifest) \in {current - 1, Lines(progress, "START")}
  /\ Len(raw) \in {current - 1, Len(manifest)}
  /\ Len(manifest) <= N
  /\ \/ logs = Logged(Len(raw))
     \/ /\ Len(raw) < Len(manifest)
        /\ \E results \in 0 .. 2 : logs = Logged(Len(raw)) \cup {LogWith(results)}
  /\ rounds # <<>> => Len(raw) = N /\ rounds = [i \in 1 .. N |-> Plan[i].round]

Empty ==
  /\ current = 1
  /\ progress = <<>> /\ manifest = <<>> /\ raw = <<>> /\ rounds = <<>>
  /\ logs = {}

\* How far the script is with its run, by what it does next.
ProgressInv ==
  /\ ~nonempty => pc = "shell"
  /\ ~nonempty \/ pc = "build" => Empty
  /\ pc # "shell" => rounds = <<>>
  /\ pc \in {"wait", "manifest", "benchmark", "append", "done"} => current <= N
  /\ pc \in {"count", "summarize"} => current = N + 1
  /\ pc \in {"wait", "count", "summarize"} => Lines(progress, "START") = current - 1
  /\ pc \in {"manifest", "benchmark", "append", "done"} =>
       Lines(progress, "START") = current
  /\ pc = "manifest" => Len(manifest) = current - 1
  /\ pc \in {"benchmark", "append", "done"} => Len(manifest) = current
  /\ pc \in {"benchmark", "append"} => Len(raw) = current - 1
  /\ pc = "benchmark" => logs = Logged(Len(raw))
  /\ pc = "append" =>
       \E results \in 0 .. 2 : logs = Logged(Len(raw)) \cup {LogWith(results)}
  /\ pc = "done" => Len(raw) = current

RunnerInv == RunnerTypes /\ FilesInv /\ ProgressInv

\* The lines of a file are finitely many.
LEMMA LinesFinite ==
  ASSUME NEW S, NEW lines \in Seq(S), NEW what
  PROVE  /\ IsFiniteSet({i \in DOMAIN lines : lines[i][2] = what})
         /\ Lines(lines, what) \in Nat
<1>1. DOMAIN lines = 1 .. Len(lines) /\ Len(lines) \in Nat
  OBVIOUS
<1>2. IsFiniteSet(1 .. Len(lines))
  BY <1>1, FS_Interval
<1>3. IsFiniteSet({i \in DOMAIN lines : lines[i][2] = what})
  BY <1>1, <1>2, FS_Subset
<1> QED BY <1>3, FS_CardinalityType DEF Lines

\* A line more is counted if it says so.
LEMMA LineAppended ==
  ASSUME NEW S, NEW lines \in Seq(S \X {"START", "DONE"}),
         NEW x \in S, NEW what \in {"START", "DONE"}, NEW says \in {"START", "DONE"}
  PROVE  Lines(Append(lines, <<x, says>>), what)
           = Lines(lines, what) + (IF says = what THEN 1 ELSE 0)
<1> DEFINE n == Len(lines)
           more == Append(lines, <<x, says>>)
           I == {i \in DOMAIN lines : lines[i][2] = what}
           J == {i \in DOMAIN more : more[i][2] = what}
<1>1. /\ n \in Nat /\ DOMAIN lines = 1 .. n /\ DOMAIN more = 1 .. n + 1
      /\ \A i \in 1 .. n : more[i] = lines[i]
      /\ more[n + 1] = <<x, says>>
  OBVIOUS
<1>2. /\ Lines(lines, what) = Cardinality(I)
      /\ Lines(more, what) = Cardinality(J)
      /\ IsFiniteSet(I) /\ Cardinality(I) \in Nat
  BY LinesFinite DEF Lines
<1> HIDE DEF more, n
<1>3. CASE says = what
  <2>1. J = I \cup {n + 1} /\ n + 1 \notin I
    BY <1>1, <1>3
  <2>2. Cardinality(I \cup {n + 1}) = Cardinality(I) + 1
    BY <1>2, <2>1, FS_AddElement
  <2> HIDE DEF I, J
  <2> QED BY <1>2, <1>3, <2>1, <2>2 DEF more
<1>4. CASE says # what
  <2>1. J = I
    BY <1>1, <1>4
  <2> HIDE DEF I, J
  <2> QED BY <1>2, <1>4, <2>1 DEF more
<1> QED BY <1>3, <1>4

\* Every run has a log of its own.
LEMMA LogsCounted ==
  ASSUME NEW n \in 0 .. N
  PROVE  IsFiniteSet(Logged(n)) /\ Cardinality(Logged(n)) = n
<1> DEFINE log(i) == [run |-> Plan[i], results |-> 1]
           F == [i \in 1 .. n |-> log(i)]
<1>1. n \in Nat /\ \A i \in 1 .. n : i \in 1 .. N
  BY PlanLength
<1>2. F \in [1 .. n -> Logged(n)] /\ \A l \in Logged(n) : \E i \in 1 .. n : F[i] = l
  BY DEF Logged
<1>3. ASSUME NEW i \in 1 .. n, NEW j \in 1 .. n, F[i] = F[j]
      PROVE  i = j
  <2>1. log(i) = log(j)
    BY <1>3
  <2>2. Plan[i] = Plan[j]
    BY <2>1
  <2> QED BY <1>1, <2>2, PlanInjective
<1> HIDE DEF F
<1>4. F \in Bijection(1 .. n, Logged(n))
  BY <1>2, <1>3 DEF Bijection, Injection, Surjection, IsInjective
<1>5. IsFiniteSet(1 .. n) /\ Cardinality(1 .. n) = n
  BY <1>1, FS_Interval
<1> QED BY <1>4, <1>5, FS_Bijection DEF ExistsBijection

\* No log of the runs before is of this one.
LEMMA LogOfCurrent ==
  ASSUME NEW c \in 1 .. N
  PROVE  /\ \A l \in Logged(c - 1) : l.run # Plan[c]
         /\ Logged(c) = Logged(c - 1) \cup {[run |-> Plan[c], results |-> 1]}
<1>1. c \in Nat /\ 1 .. c = 1 .. c - 1 \cup {c}
      /\ \A i \in 1 .. c - 1 : i \in 1 .. N /\ i # c
  BY PlanLength
<1>2. ASSUME NEW l \in Logged(c - 1)
      PROVE  l.run # Plan[c]
  <2>1. PICK i \in 1 .. c - 1 : l = [run |-> Plan[i], results |-> 1]
    BY DEF Logged
  <2> QED BY <1>1, <2>1, PlanInjective
<1>3. Logged(c) = Logged(c - 1) \cup {[run |-> Plan[c], results |-> 1]}
  BY <1>1 DEF Logged
<1> QED BY <1>2, <1>3

-----------------------------------------------------------------------------
(* The steps of the script.                                                *)

\* A script is started on an empty directory.
LEMMA RunnerInit == Init => RunnerInv
<1> SUFFICES ASSUME Init PROVE RunnerInv
  OBVIOUS
<1>1. /\ pc = "shell" /\ nonempty = FALSE /\ current = 1
      /\ progress = <<>> /\ manifest = <<>> /\ raw = <<>> /\ rounds = <<>>
      /\ logs = {}
  BY DEF Init
<1>2. Lines(<<>>, "START") = 0 /\ Lines(<<>>, "DONE") = 0
  BY FS_EmptySet DEF Lines
<1>3. RunnerTypes
  <2>1. 1 \in 1 .. N + 1
    BY PlanLength
  <2>2. <<>> \in Seq(Runs) /\ <<>> \in Seq(Runs \X {"START", "DONE"})
    OBVIOUS
  <2> QED BY <1>1, <2>1, <2>2 DEF RunnerTypes
<1>4. logs = Logged(Len(raw))
  BY <1>1 DEF Logged
<1>5. FilesInv
  BY <1>1, <1>2, <1>4, PlanLength DEF FilesInv
<1>6. ProgressInv
  BY <1>1 DEF ProgressInv, Empty
<1> QED BY <1>3, <1>5, <1>6 DEF RunnerInv

\* Wherever the script stops, and whatever it stops with, the files are what
\* they were.
LEMMA Stops ==
  ASSUME RunnerInv, pc # "shell", pc' = "shell", UNCHANGED <<current, files>>
  PROVE  RunnerInv'
<1> USE DEF RunnerInv
<1>1. nonempty = TRUE /\ UNCHANGED <<nonempty, progress, manifest, logs, raw, rounds>>
  BY DEF ProgressInv, RunnerTypes, files
<1>2. RunnerTypes'
  BY <1>1 DEF RunnerTypes
<1>3. FilesInv'
  BY <1>1 DEF FilesInv, Logged, LogWith
<1>4. ProgressInv'
  BY <1>1 DEF ProgressInv
<1> QED BY <1>2, <1>3, <1>4

\* A start that finds something in the directory, or a step of the wait,
\* leaves the files alone.
LEMMA Stays ==
  ASSUME RunnerInv, UNCHANGED <<pc, current, files>>
  PROVE  RunnerInv'
BY DEF RunnerInv, RunnerTypes, FilesInv, ProgressInv, Empty, files, Logged, LogWith

\* The script enters an empty directory.
LEMMA BeginStep ==
  ASSUME RunnerInv, Begin
  PROVE  RunnerInv'
<1> USE DEF RunnerInv
<1>1. /\ ~nonempty /\ nonempty' = TRUE
      /\ pc' = "build"
      /\ UNCHANGED <<current, progress, manifest, logs, raw, rounds>>
  BY DEF Begin, wait
<1>2. Empty /\ Empty'
  BY <1>1 DEF ProgressInv, Empty
<1>3. RunnerTypes' /\ FilesInv'
  BY <1>1 DEF RunnerTypes, FilesInv, Logged, LogWith
<1>4. ProgressInv'
  BY <1>1, <1>2 DEF ProgressInv, Empty
<1> QED BY <1>3, <1>4

\* The files that the script truncates are empty as it is.
LEMMA BuiltStep ==
  ASSUME RunnerInv, Built
  PROVE  RunnerInv'
<1> USE DEF RunnerInv
<1>1. /\ pc = "build" /\ pc' = "wait"
      /\ current' = 1
      /\ progress' = <<>> /\ manifest' = <<>> /\ raw' = <<>>
      /\ UNCHANGED <<nonempty, logs, rounds>>
  BY DEF Built
<1>2. Empty /\ nonempty
  BY <1>1 DEF ProgressInv
<1>3. UNCHANGED <<current, nonempty, progress, manifest, logs, raw, rounds>>
  BY <1>1, <1>2 DEF Empty
<1>4. RunnerTypes' /\ FilesInv'
  BY <1>1, <1>3 DEF RunnerTypes, FilesInv, Logged, LogWith
<1>5. ProgressInv'
  <2>1. Lines(progress', "START") = current' - 1
    BY <1>1, <1>2, FS_EmptySet DEF Lines
  <2>2. 1 <= N /\ rounds = <<>> /\ current' = 1 /\ nonempty' = nonempty
    BY <1>1, <1>2, PlanLength DEF Empty
  <2> QED BY <1>1, <1>2, <2>1, <2>2 DEF ProgressInv
<1> QED BY <1>4, <1>5

\* progress.tsv is one line ahead of the manifest.
LEMMA StartStep ==
  ASSUME RunnerInv, Start
  PROVE  RunnerInv'
<1> USE DEF RunnerInv
<1>1. /\ pc = "wait" /\ pc' = "manifest"
      /\ progress' = Append(progress, <<Plan[current], "START">>)
      /\ UNCHANGED <<current, nonempty, manifest, logs, raw, rounds>>
  BY DEF Start
<1>2. /\ nonempty = TRUE /\ rounds = <<>>
      /\ current \in 1 .. N
      /\ Lines(progress, "START") = current - 1
      /\ Lines(progress, "DONE") = current - 1
      /\ Len(manifest) = current - 1
      /\ Len(raw) = current - 1
  BY <1>1 DEF ProgressInv, RunnerTypes, FilesInv
<1>3. Plan[current] \in Runs /\ progress \in Seq(Runs \X {"START", "DONE"})
  BY <1>2 DEF Runs, RunnerTypes
<1>4. Lines(progress', "START") = current /\ Lines(progress', "DONE") = current - 1
  <2>1. Lines(progress', "START") = Lines(progress, "START") + 1
    BY <1>1, <1>3, LineAppended
  <2>2. Lines(progress', "DONE") = Lines(progress, "DONE") + 0
    BY <1>1, <1>3, LineAppended
  <2> QED BY <1>2, <2>1, <2>2, PlanLength
<1>5. RunnerTypes'
  <2>1. progress' \in Seq(Runs \X {"START", "DONE"})
    BY <1>1, <1>3
  <2> QED BY <1>1, <2>1 DEF RunnerTypes
<1>6. FilesInv'
  <2>1. logs' = Logged(Len(raw')) /\ rounds' = <<>>
    BY <1>1, <1>2, PlanLength DEF FilesInv, Logged
  <2> QED BY <1>1, <1>2, <1>4, <2>1 DEF FilesInv
<1>7. ProgressInv'
  BY <1>1, <1>2, <1>4 DEF ProgressInv
<1> QED BY <1>5, <1>6, <1>7

\* The manifest is one run ahead of the rows.
LEMMA WriteManifestStep ==
  ASSUME RunnerInv, WriteManifest
  PROVE  RunnerInv'
<1> USE DEF RunnerInv
<1>1. /\ pc = "manifest" /\ pc' = "benchmark"
      /\ manifest' = Append(manifest, Plan[current])
      /\ UNCHANGED <<current, nonempty, progress, logs, raw, rounds>>
  BY DEF WriteManifest
<1>2. /\ nonempty = TRUE /\ rounds = <<>>
      /\ current \in 1 .. N /\ current \in Nat /\ current <= N
      /\ Lines(progress, "START") = current
      /\ Lines(progress, "DONE") = current - 1
      /\ Len(manifest) = current - 1
      /\ Len(raw) = current - 1
  BY <1>1, PlanLength DEF ProgressInv, RunnerTypes, FilesInv
<1>3. Plan[current] \in Runs /\ manifest \in Seq(Runs)
  BY <1>2 DEF Runs, RunnerTypes
<1>4. /\ manifest' \in Seq(Runs)
      /\ Len(manifest') = current
      /\ \A i \in 1 .. Len(manifest') : manifest'[i] = Plan[i]
  <2>1. \A i \in 1 .. Len(manifest) : manifest[i] = Plan[i]
    BY DEF FilesInv
  <2> QED BY <1>1, <1>2, <1>3, <2>1
<1>5. RunnerTypes'
  BY <1>1, <1>4 DEF RunnerTypes
<1>6. logs' = Logged(Len(raw'))
  BY <1>1, <1>2, PlanLength DEF FilesInv, Logged
<1>7. FilesInv'
  BY <1>1, <1>2, <1>4, <1>6 DEF FilesInv
<1>8. ProgressInv'
  BY <1>1, <1>2, <1>4, <1>6 DEF ProgressInv
<1> QED BY <1>5, <1>7, <1>8

\* A benchmark leaves its log beside those of the runs before.
LEMMA BenchmarkLogs ==
  ASSUME RunnerInv, pc = "benchmark", NEW results \in 0 .. 2, Log(results),
         UNCHANGED <<current, nonempty, progress, manifest, raw, rounds>>
  PROVE  /\ nonempty' = TRUE /\ rounds' = <<>>
         /\ current' \in 1 .. N
         /\ Lines(progress', "START") = current'
         /\ Len(manifest') = current'
         /\ Len(raw') = current' - 1
         /\ logs' = Logged(Len(raw')) \cup {LogWith(results)'}
         /\ FilesInv'
<1> USE DEF RunnerInv
<1>1. /\ nonempty = TRUE /\ rounds = <<>>
      /\ current \in 1 .. N
      /\ Lines(progress, "START") = current
      /\ Len(manifest) = current
      /\ Len(raw) = current - 1
      /\ logs = Logged(Len(raw))
  BY PlanLength DEF ProgressInv, RunnerTypes
<1>2. \A l \in logs : l.run # Plan[current]
  BY <1>1, LogOfCurrent
<1>3. logs' = Logged(Len(raw)) \cup {LogWith(results)}
  BY <1>1, <1>2 DEF Log, LogWith
<1>4. LogWith(results)' = LogWith(results) /\ Logged(Len(raw')) = Logged(Len(raw))
  BY DEF LogWith
<1>5. Len(raw') < Len(manifest')
  BY <1>1, PlanLength
<1>6. FilesInv'
  <2>1. \E x \in 0 .. 2 : logs' = Logged(Len(raw')) \cup {LogWith(x)'}
    BY <1>3, <1>4
  <2>2. /\ \A i \in 1 .. Len(manifest) : manifest[i] = Plan[i]
        /\ \A i \in 1 .. Len(raw) : raw[i] = Plan[i]
        /\ Lines(progress, "DONE") = current - 1
        /\ Len(manifest) <= N
    BY DEF FilesInv
  <2> QED BY <1>1, <1>5, <2>1, <2>2 DEF FilesInv
<1> QED BY <1>1, <1>3, <1>4, <1>6

\* Whether it succeeds or not, a benchmark leaves one log.
LEMMA BenchmarkStep ==
  ASSUME RunnerInv, NEW results \in 0 .. 2,
         Benchmark(results) \/ BenchmarkFails(results)
  PROVE  RunnerInv'
<1>1. /\ pc = "benchmark" /\ pc' \in {"append", "shell"}
      /\ Log(results)
      /\ UNCHANGED <<current, nonempty, progress, manifest, raw, rounds>>
  BY DEF Benchmark, BenchmarkFails, Exit
<1>2. /\ nonempty' = TRUE /\ rounds' = <<>>
      /\ current' \in 1 .. N
      /\ Lines(progress', "START") = current'
      /\ Len(manifest') = current'
      /\ Len(raw') = current' - 1
      /\ logs' = Logged(Len(raw')) \cup {LogWith(results)'}
      /\ FilesInv'
  BY <1>1, BenchmarkLogs
<1>3. RunnerTypes'
  BY <1>1 DEF RunnerInv, RunnerTypes
<1>4. ProgressInv'
  <2>1. current' <= N
    BY <1>2, PlanLength
  <2> QED BY <1>1, <1>2, <2>1 DEF ProgressInv
<1> QED BY <1>2, <1>3, <1>4 DEF RunnerInv

\* A row is written only of a log with one RESULT line.
LEMMA AppendRowStep ==
  ASSUME RunnerInv, AppendRow
  PROVE  RunnerInv'
<1> USE DEF RunnerInv
<1>1. /\ pc = "append" /\ pc' = "done"
      /\ Results = 1
      /\ raw' = Append(raw, Plan[current])
      /\ UNCHANGED <<current, nonempty, progress, manifest, logs, rounds>>
  BY DEF AppendRow
<1>2. /\ nonempty = TRUE /\ rounds = <<>>
      /\ current \in 1 .. N /\ current \in Nat /\ current <= N
      /\ Lines(progress, "START") = current
      /\ Lines(progress, "DONE") = current - 1
      /\ Len(manifest) = current
      /\ Len(raw) = current - 1
  BY <1>1, PlanLength DEF ProgressInv, RunnerTypes, FilesInv
<1>3. Plan[current] \in Runs /\ raw \in Seq(Runs)
  BY <1>2 DEF Runs, RunnerTypes
<1>4. /\ raw' \in Seq(Runs)
      /\ Len(raw') = current
      /\ \A i \in 1 .. Len(raw') : raw'[i] = Plan[i]
  <2>1. \A i \in 1 .. Len(raw) : raw[i] = Plan[i]
    BY DEF FilesInv
  <2> QED BY <1>1, <1>2, <1>3, <2>1
<1>5. logs = Logged(current)
  <2>1. PICK results \in 0 .. 2 :
          logs = Logged(current - 1) \cup {LogWith(results)}
    BY <1>1, <1>2 DEF ProgressInv
  <2> DEFINE found == CHOOSE x \in logs : x.run = Plan[current]
  <2>2. \A x \in logs : x.run = Plan[current] <=> x = LogWith(results)
    BY <1>2, <2>1, LogOfCurrent DEF LogWith
  <2>3. found = LogWith(results)
    BY <2>1, <2>2
  <2>4. results = 1
    <3>1. Results = found.results
      BY DEF Results
    <3>2. LogWith(results).results = results
      BY DEF LogWith
    <3> QED BY ONLY <1>1, <2>3, <3>1, <3>2
  <2> QED BY <1>2, <2>1, <2>4, LogOfCurrent DEF LogWith
<1>6. RunnerTypes'
  BY <1>1, <1>4 DEF RunnerTypes
<1>7. logs' = Logged(Len(raw'))
  BY <1>1, <1>4, <1>5
<1>8. FilesInv'
  BY <1>1, <1>2, <1>4, <1>7 DEF FilesInv
<1>9. ProgressInv'
  BY <1>1, <1>2, <1>4 DEF ProgressInv
<1> QED BY <1>6, <1>8, <1>9

\* The run is done, and the next one of the plan comes.
LEMMA DoneStep ==
  ASSUME RunnerInv, Done
  PROVE  RunnerInv'
<1> USE DEF RunnerInv
<1>1. /\ pc = "done"
      /\ progress' = Append(progress, <<Plan[current], "DONE">>)
      /\ current' = current + 1
      /\ pc' = IF current < Len(Plan) THEN "wait" ELSE "count"
      /\ UNCHANGED <<nonempty, manifest, logs, raw, rounds>>
  BY DEF Done
<1>2. /\ nonempty = TRUE /\ rounds = <<>>
      /\ current \in 1 .. N /\ current \in Nat /\ current <= N
      /\ Lines(progress, "START") = current
      /\ Lines(progress, "DONE") = current - 1
      /\ Len(manifest) = current
      /\ Len(raw) = current
  BY <1>1, PlanLength DEF ProgressInv, RunnerTypes, FilesInv
<1>3. Plan[current] \in Runs /\ progress \in Seq(Runs \X {"START", "DONE"})
  BY <1>2 DEF Runs, RunnerTypes
<1>4. Lines(progress', "START") = current' - 1 /\ Lines(progress', "DONE") = current' - 1
  <2>1. Lines(progress', "START") = Lines(progress, "START") + 0
    BY <1>1, <1>3, LineAppended
  <2>2. Lines(progress', "DONE") = Lines(progress, "DONE") + 1
    BY <1>1, <1>3, LineAppended
  <2> QED BY <1>1, <1>2, <2>1, <2>2
<1>5. /\ current' \in 1 .. N + 1 /\ current' - 1 = current
      /\ pc' = IF current < N THEN "wait" ELSE "count"
  BY <1>1, <1>2, PlanLength
<1>6. RunnerTypes'
  <2>1. progress' \in Seq(Runs \X {"START", "DONE"})
    BY <1>1, <1>3
  <2> QED BY <1>1, <1>5, <2>1 DEF RunnerTypes
<1>7. logs' = Logged(Len(raw')) /\ rounds' = <<>>
  BY <1>1, <1>2 DEF FilesInv
<1>8. FilesInv'
  <2>1. /\ \A i \in 1 .. Len(manifest) : manifest[i] = Plan[i]
        /\ \A i \in 1 .. Len(raw) : raw[i] = Plan[i]
    BY DEF FilesInv
  <2>2. Len(manifest') = current' - 1 /\ Len(raw') = current' - 1 /\ current' - 1 <= N
    BY <1>1, <1>2, <1>5
  <2> QED BY <1>1, <1>4, <1>7, <2>1, <2>2 DEF FilesInv
<1>9. ProgressInv'
  <2>1. pc' = "wait" => current' <= N
    BY <1>1, <1>2, <1>5, PlanLength
  <2>2. pc' = "count" => current' = N + 1
    BY <1>1, <1>2, <1>5, PlanLength
  <2> QED BY <1>1, <1>2, <1>4, <1>5, <1>7, <2>1, <2>2 DEF ProgressInv
<1> QED BY <1>6, <1>8, <1>9

\* The rows are counted, and the script goes on or stops.
LEMMA CountStep ==
  ASSUME RunnerInv, Count
  PROVE  RunnerInv'
<1> USE DEF RunnerInv
<1>1. /\ pc = "count" /\ pc' \in {"summarize", "shell"}
      /\ UNCHANGED <<current, files>>
  BY DEF Count, Exit
<1>2. nonempty = TRUE /\ UNCHANGED <<nonempty, progress, manifest, logs, raw, rounds>>
  BY <1>1 DEF ProgressInv, RunnerTypes, files
<1>3. RunnerTypes'
  BY <1>1, <1>2 DEF RunnerTypes
<1>4. FilesInv'
  BY <1>1, <1>2 DEF FilesInv, Logged, LogWith
<1>5. ProgressInv'
  BY <1>1, <1>2 DEF ProgressInv
<1> QED BY <1>3, <1>4, <1>5

\* The rows are all of the plan, in its order, when they are numbered.
LEMMA SummarizeStep ==
  ASSUME RunnerInv, Summarize
  PROVE  RunnerInv'
<1> USE DEF RunnerInv
<1>1. /\ pc = "summarize" /\ pc' = "shell"
      /\ rounds' = [i \in DOMAIN raw |->
           Cardinality({j \in 1 .. i : SummaryKey(raw[j]) = SummaryKey(raw[i])})]
      /\ UNCHANGED <<current, nonempty, progress, manifest, logs, raw>>
  BY DEF Summarize, Exit
<1>2. /\ nonempty = TRUE /\ N \in Nat
      /\ current = N + 1
      /\ Len(raw) = N /\ DOMAIN raw = 1 .. N
      /\ \A i \in 1 .. N : raw[i] = Plan[i]
  BY <1>1, PlanLength DEF ProgressInv, RunnerTypes, FilesInv
<1>3. rounds' = [i \in 1 .. N |-> Plan[i].round]
  <2>1. ASSUME NEW i \in 1 .. N
        PROVE  Cardinality({j \in 1 .. i : SummaryKey(raw[j]) = SummaryKey(raw[i])})
                 = Plan[i].round
    <3>1. raw[i] = Plan[i] /\ \A j \in 1 .. i : raw[j] = Plan[j]
      BY <1>2
    <3>2. {j \in 1 .. i : SummaryKey(raw[j]) = SummaryKey(raw[i])}
            = {j \in 1 .. i : SummaryKey(Plan[j]) = SummaryKey(Plan[i])}
      BY <3>1
    <3> QED BY <3>2, CountedRounds
  <2> QED BY <1>1, <1>2, <2>1
<1>4. RunnerTypes'
  BY <1>1 DEF RunnerTypes
<1>5. FilesInv'
  BY <1>1, <1>2, <1>3 DEF FilesInv, Logged, LogWith
<1>6. ProgressInv'
  BY <1>1, <1>2 DEF ProgressInv
<1> QED BY <1>4, <1>5, <1>6

\* Every step of the script, and its being killed, keeps the invariant.
LEMMA RunnerStep == RunnerInv /\ [Next]_vars => RunnerInv'
<1> SUFFICES ASSUME RunnerInv, [Next]_vars PROVE RunnerInv'
  OBVIOUS
<1>1. CASE Refuse
  BY <1>1, Stays DEF Refuse
<1>2. CASE Begin
  BY <1>2, BeginStep
<1>3. CASE Built
  BY <1>3, BuiltStep
<1>4. CASE BuildFails
  BY <1>4, Stops DEF BuildFails, Exit
<1>5. CASE \E quiet \in BOOLEAN : Sample(quiet)
  BY <1>5, Stays DEF Sample
<1>6. CASE \E quiet \in BOOLEAN : GiveUp(quiet)
  BY <1>6, Stops DEF GiveUp, Waiting, Exit
<1>7. CASE Start
  BY <1>7, StartStep
<1>8. CASE WriteManifest
  BY <1>8, WriteManifestStep
<1>9. CASE \E results \in 0 .. 2 : Benchmark(results) \/ BenchmarkFails(results)
  BY <1>9, BenchmarkStep
<1>10. CASE BadLog
  BY <1>10, Stops DEF BadLog, Exit
<1>11. CASE AppendRow
  BY <1>11, AppendRowStep
<1>12. CASE Done
  BY <1>12, DoneStep
<1>13. CASE Count
  BY <1>13, CountStep
<1>14. CASE Summarize
  BY <1>14, SummarizeStep
<1>15. CASE SummarizeFails
  BY <1>15, Stops DEF SummarizeFails, Exit
<1>16. CASE Killed
  BY <1>16, Stops DEF Killed, Exit
<1>17. CASE UNCHANGED vars
  BY <1>17, Stays DEF vars
<1> QED BY <1>1, <1>2, <1>3, <1>4, <1>5, <1>6, <1>7, <1>8, <1>9, <1>10, <1>11,
           <1>12, <1>13, <1>14, <1>15, <1>16, <1>17 DEF Next, Step

\* The invariant holds in every experiment.
THEOREM RunnerInvariant == Spec => []RunnerInv
BY RunnerInit, RunnerStep, PTL DEF Spec

\* Wherever the script is killed and however often it is started, its files
\* tell one experiment; and the summarizer numbers the rounds as they were.
THEOREM FilesTellOneExperiment == Spec => []FilesAgree
<1>1. RunnerInv => FilesAgree
  <2> SUFFICES ASSUME RunnerInv PROVE FilesAgree
    OBVIOUS
  <2> USE DEF RunnerInv
  <2> DEFINE m == Len(manifest)
             n == Len(raw)
  <2>1. /\ manifest \in Seq(Runs) /\ raw \in Seq(Runs)
        /\ progress \in Seq(Runs \X {"START", "DONE"})
        /\ m \in Nat /\ n \in Nat /\ current \in Nat
        /\ DOMAIN manifest = 1 .. m /\ DOMAIN raw = 1 .. n
    BY PlanLength DEF RunnerTypes
  <2>2. /\ \A i \in 1 .. m : manifest[i] = Plan[i]
        /\ \A i \in 1 .. n : raw[i] = Plan[i]
        /\ n \in {current - 1, m}
        /\ m \in {current - 1, Lines(progress, "START")}
        /\ Lines(progress, "START") \in {current - 1, current}
        /\ Lines(progress, "DONE") = current - 1
        /\ m <= N
    BY DEF FilesInv
  <2> DEFINE starts == Lines(progress, "START")
             dones == Lines(progress, "DONE")
             c == current
  <2>3. /\ m - n \in {0, 1}
        /\ starts - m \in {0, 1}
        /\ n - dones \in {0, 1}
        /\ n <= m /\ n <= N /\ n \in 0 .. N
        /\ n < m => m = c /\ n = c - 1 /\ c \in 1 .. N
    <3>1. m \in Nat /\ n \in Nat /\ c \in Nat
      BY <2>1
    <3>2. /\ n \in {c - 1, m} /\ m \in {c - 1, starts}
          /\ starts \in {c - 1, c} /\ dones = c - 1 /\ m <= N
      BY <2>2
    <3>3. N \in Nat
      BY PlanLength
    <3> HIDE DEF m, n, c, starts, dones
    <3> QED BY ONLY <3>1, <3>2, <3>3
  <2>4. \A i \in 1 .. n : i \in 1 .. m /\ manifest[i] = Plan[i] /\ manifest[i] \in Runs
    <3>1. \A i \in 1 .. n : i \in 1 .. m /\ i \in 1 .. N
      <4>1. /\ n <= m /\ n <= N
            /\ m \in Nat /\ n \in Nat /\ N \in Nat
        <5>1. n <= m /\ n <= N
          BY <2>3
        <5>2. m \in Nat /\ n \in Nat
          BY <2>1
        <5>3. N \in Nat
          BY PlanLength
        <5> QED BY ONLY <5>1, <5>2, <5>3
      <4> HIDE DEF m, n
      <4> QED BY ONLY <4>1
    <3> QED BY <2>2, <3>1 DEF Runs
  <2>5. raw = SubSeq(manifest, 1, n)
    <3> DEFINE s == SubSeq(manifest, 1, n)
    <3>1. \A i \in 1 .. n : manifest[i] \in Runs
      BY <2>4
    <3>2. /\ s \in Seq(Runs)
          /\ Len(s) = n
          /\ \A i \in 1 .. n : s[i] = manifest[i]
      BY <2>1, <3>1, SubSeqProperties
    <3> HIDE DEF s
    <3>3. \A i \in 1 .. n : raw[i] = s[i]
      BY <2>2, <2>4, <3>2
    <3> QED BY <2>1, <3>2, <3>3, SeqEqual DEF s
  <2>6. /\ \A i \in DOMAIN raw : [run |-> raw[i], results |-> 1] \in logs
        /\ \A l \in logs : \E i \in DOMAIN manifest : manifest[i] = l.run
        /\ Cardinality(logs) - n \in {0, 1}
    <3>1. \A i \in 1 .. n : [run |-> raw[i], results |-> 1] \in Logged(n)
      BY <2>2 DEF Logged
    <3>2. \A l \in Logged(n) : \E i \in 1 .. m : manifest[i] = l.run
      BY <2>4 DEF Logged
    <3>3. IsFiniteSet(Logged(n)) /\ Cardinality(Logged(n)) = n
      BY <2>3, LogsCounted
    <3>4. CASE logs = Logged(n)
      BY <2>1, <3>1, <3>2, <3>3, <3>4
    <3>5. CASE n < m /\ \E results \in 0 .. 2 : logs = Logged(n) \cup {LogWith(results)}
      <4>1. PICK results \in 0 .. 2 : logs = Logged(n) \cup {LogWith(results)}
        BY <3>5
      <4>2. m = current /\ n = current - 1 /\ current \in 1 .. N
        BY <2>3, <3>5
      <4>3. LogWith(results).run = manifest[m] /\ m \in DOMAIN manifest
        BY <2>1, <2>2, <4>2 DEF LogWith
      <4>4. LogWith(results) \notin Logged(n)
        BY <4>2, LogOfCurrent DEF LogWith
      <4>5. Cardinality(logs) = n + 1
        BY <3>3, <4>1, <4>4, FS_AddElement
      <4>6. Cardinality(logs) - n = 1
        BY <2>1, <4>5
      <4> QED BY <2>1, <3>1, <3>2, <4>1, <4>3, <4>6
    <3> QED BY <3>4, <3>5 DEF FilesInv
  <2>7. rounds # <<>> =>
          /\ \A i \in DOMAIN raw : rounds[i] = raw[i].round
          /\ {raw[i] : i \in DOMAIN raw} =
               [scheme : {"LSE", "VLSE"}, n : {Sizes[i] : i \in DOMAIN Sizes},
                round : 1 .. Rounds]
    <3> SUFFICES ASSUME rounds # <<>>
                 PROVE  /\ \A i \in DOMAIN raw : rounds[i] = raw[i].round
                        /\ {raw[i] : i \in DOMAIN raw} = {Plan[i] : i \in 1 .. N}
      BY PlanComplete
    <3>1. n = N /\ rounds = [i \in 1 .. N |-> Plan[i].round]
      BY DEF FilesInv
    <3> QED BY <2>1, <2>2, <3>1
  <2> QED BY <2>3, <2>5, <2>6, <2>7 DEF FilesAgree, Lines
<1> QED BY <1>1, RunnerInvariant, PTL

-----------------------------------------------------------------------------
(* The wait.                                                               *)

\* The last g samples were quiet, and the one before them, if it is still
\* remembered, was not.
Trailing(samples, g) ==
  /\ g <= Len(samples)
  /\ \A i \in Len(samples) - g + 1 .. Len(samples) : samples[i] = TRUE
  /\ g < Len(samples) => samples[Len(samples) - g] = FALSE

\* good is the number of quiet samples at the end of those remembered, from
\* the first sample of a wait until the next wait begins, and a run is not
\* begun before they are as many as the settings ask for.
WaitInv ==
  /\ observed \in Seq(BOOLEAN) /\ Len(observed) <= QuiescenceSamples
  /\ good \in 0 .. QuiescenceSamples
  /\ pc \notin {"shell", "build"} => Trailing(observed, good)
  /\ QuiescenceEnabled /\ pc \in {"manifest", "benchmark", "append", "done"} =>
       good = QuiescenceSamples
  /\ status = 5 => pc = "shell" /\ nonempty /\ (QuiescenceEnabled => ~LastQuiet)

\* Before the first sample there is none to count.
LEMMA NoneTrailing == Trailing(<<>>, 0)
BY DEF Trailing

\* The count is kept by a sample, whatever it finds and whether or not the
\* oldest one has to be forgotten for it.
LEMMA SampleCounted ==
  ASSUME observed \in Seq(BOOLEAN), Len(observed) <= QuiescenceSamples,
         good \in Nat, good < QuiescenceSamples, Trailing(observed, good),
         NEW quiet \in BOOLEAN, Observe(quiet)
  PROVE  /\ observed' \in Seq(BOOLEAN)
         /\ Len(observed') <= QuiescenceSamples
         /\ Counted(quiet) \in 0 .. QuiescenceSamples
         /\ Trailing(observed', Counted(quiet))
<1> DEFINE l == Len(observed)
           all == Append(observed, quiet)
           g == Counted(quiet)
           S == QuiescenceSamples
<1>1. /\ S \in Nat /\ l \in Nat /\ l <= S
      /\ good \in Nat /\ good < S /\ good <= l
  BY SettingsType DEF Trailing
<1>2. /\ all \in Seq(BOOLEAN) /\ Len(all) = l + 1
      /\ \A i \in 1 .. l : all[i] = observed[i]
      /\ all[l + 1] = quiet
  OBVIOUS
<1>3. /\ \A i \in l - good + 1 .. l : observed[i] = TRUE
      /\ good < l => observed[l - good] = FALSE
  BY DEF Trailing
<1>4. /\ quiet = TRUE => g = good + 1
      /\ quiet = FALSE => g = 0
  BY DEF Counted
<1>5. g \in 0 .. S
  <2> HIDE DEF g, S
  <2> QED BY <1>1, <1>4
<1>6. observed' = IF Len(all) <= S THEN all ELSE Tail(all)
  BY DEF Observe
<1> HIDE DEF l, all, g, S
<1>7. Trailing(all, g)
  <2>1. CASE quiet = TRUE
    <3>1. g = good + 1
      BY <1>4, <2>1
    <3>2. \A i \in (l + 1) - g + 1 .. l + 1 : all[i] = TRUE
      <4> SUFFICES ASSUME NEW i \in (l + 1) - g + 1 .. l + 1 PROVE all[i] = TRUE
        OBVIOUS
      <4>1. i = l + 1 \/ (i \in l - good + 1 .. l /\ i \in 1 .. l)
        BY <1>1, <3>1
      <4> QED BY <1>2, <1>3, <2>1, <4>1
    <3>3. g < l + 1 => all[(l + 1) - g] = FALSE
      <4> SUFFICES ASSUME g < l + 1 PROVE all[(l + 1) - g] = FALSE
        OBVIOUS
      <4>1. (l + 1) - g = l - good /\ l - good \in 1 .. l /\ good < l
        BY <1>1, <3>1
      <4> QED BY <1>2, <1>3, <4>1
    <3>4. g <= l + 1
      BY <1>1, <3>1
    <3> QED BY <1>2, <3>2, <3>3, <3>4 DEF Trailing
  <2>2. CASE quiet = FALSE
    <3>1. g = 0
      BY <1>4, <2>2
    <3>2. Len(all) - g = l + 1 /\ (Len(all) - g + 1 .. Len(all)) = {}
      BY <1>1, <1>2, <3>1
    <3>3. g <= Len(all)
      BY <1>1, <1>2, <3>1
    <3> QED BY <1>2, <2>2, <3>2, <3>3 DEF Trailing
  <2> QED BY <2>1, <2>2
<1>8. CASE Len(all) <= S
  BY <1>2, <1>5, <1>6, <1>7, <1>8 DEF S, g
<1>9. CASE ~(Len(all) <= S)
  <2> DEFINE rest == Tail(all)
  <2>1. all # <<>>
    BY <1>1, <1>2
  <2>2. /\ rest \in Seq(BOOLEAN)
        /\ Len(rest) = l
        /\ \A i \in 1 .. l : rest[i] = all[i + 1]
    <3>1. /\ rest \in Seq(BOOLEAN)
          /\ Len(rest) = Len(all) - 1
          /\ \A i \in 1 .. Len(rest) : rest[i] = all[i + 1]
      BY <1>2, <2>1, HeadTailProperties
    <3> HIDE DEF rest
    <3> QED BY <1>1, <1>2, <3>1
  <2> HIDE DEF rest
  <2>3. l = S /\ g <= l /\ g \in Nat
    BY <1>1, <1>2, <1>5, <1>9
  <2>4. /\ \A i \in (l + 1) - g + 1 .. l + 1 : all[i] = TRUE
        /\ g < l + 1 => all[(l + 1) - g] = FALSE
    BY <1>2, <1>7 DEF Trailing
  <2>5. \A i \in l - g + 1 .. l : rest[i] = TRUE
    <3> SUFFICES ASSUME NEW i \in l - g + 1 .. l PROVE rest[i] = TRUE
      OBVIOUS
    <3>1. i \in 1 .. l /\ i + 1 \in (l + 1) - g + 1 .. l + 1
      BY <1>1, <2>3
    <3> QED BY <2>2, <2>4, <3>1
  <2>6. g < l => rest[l - g] = FALSE
    <3> SUFFICES ASSUME g < l PROVE rest[l - g] = FALSE
      OBVIOUS
    <3>1. l - g \in 1 .. l /\ (l - g) + 1 = (l + 1) - g /\ g < l + 1
      BY <1>1, <2>3
    <3> QED BY <2>2, <2>4, <3>1
  <2>7. Trailing(rest, g)
    BY <2>2, <2>3, <2>5, <2>6 DEF Trailing
  <2>8. observed' = rest
    BY <1>6, <1>9 DEF rest
  <2> QED BY <1>5, <2>2, <2>3, <2>7, <2>8 DEF S, g
<1> QED BY <1>8, <1>9

\* Only as many quiet samples as are remembered make the last ones quiet.
LEMMA QuietIffCounted ==
  ASSUME NEW g \in 0 .. QuiescenceSamples, Trailing(observed, g),
         observed \in Seq(BOOLEAN), Len(observed) <= QuiescenceSamples
  PROVE  LastQuiet <=> g = QuiescenceSamples
<1> DEFINE l == Len(observed)
           S == QuiescenceSamples
<1>1. l \in Nat /\ S \in Nat /\ l <= S /\ g \in Nat /\ g <= l /\ DOMAIN observed = 1 .. l
  BY SettingsType DEF Trailing
<1>2. /\ \A i \in l - g + 1 .. l : observed[i] = TRUE
      /\ g < l => observed[l - g] = FALSE
  BY DEF Trailing
<1>3. LastQuiet <=> l = S /\ \A i \in 1 .. l : observed[i]
  BY <1>1 DEF LastQuiet
<1> HIDE DEF l, S
<1>4. CASE g = S
  <2>1. l = S /\ (l - g + 1 .. l) = (1 .. l)
    BY <1>1, <1>4
  <2> QED BY <1>2, <1>3, <1>4, <2>1 DEF S
<1>5. CASE g # S /\ l = S
  <2>1. g < l /\ l - g \in 1 .. l
    BY <1>1, <1>5
  <2>2. observed[l - g] = FALSE
    BY <1>2, <2>1
  <2> QED BY <1>3, <1>5, <2>1, <2>2 DEF S
<1>6. CASE g # S /\ l # S
  BY <1>3, <1>6 DEF S
<1> QED BY <1>4, <1>5, <1>6

\* No sample has been taken, and no script has given up.
LEMMA WaitInit == Init => WaitInv
<1> SUFFICES ASSUME Init PROVE WaitInv
  OBVIOUS
<1>1. /\ pc = "shell" /\ observed = <<>> /\ good = 0 /\ status = -1
  BY DEF Init
<1>2. observed \in Seq(BOOLEAN) /\ Len(observed) = 0 /\ status # 5
  BY <1>1
<1> QED BY <1>1, <1>2, SettingsType DEF WaitInv

\* A sample that completes the count or leaves time to sleep.
LEMMA SampleStep ==
  ASSUME WaitInv, NEW quiet \in BOOLEAN, Sample(quiet)
  PROVE  WaitInv'
<1>1. /\ pc = "wait" /\ pc' = "wait"
      /\ good < QuiescenceSamples
      /\ good' = Counted(quiet)
      /\ Observe(quiet)
      /\ UNCHANGED status
  BY DEF Sample, Waiting
<1>2. /\ observed \in Seq(BOOLEAN) /\ Len(observed) <= QuiescenceSamples
      /\ good \in Nat
      /\ Trailing(observed, good)
      /\ status # 5
  BY <1>1, SettingsType DEF WaitInv
<1>3. /\ observed' \in Seq(BOOLEAN)
      /\ Len(observed') <= QuiescenceSamples
      /\ good' \in 0 .. QuiescenceSamples
      /\ Trailing(observed', good')
  BY <1>1, <1>2, SampleCounted
<1> QED BY <1>1, <1>2, <1>3 DEF WaitInv

\* The script gives up only on a host that was not quiet to the end.
LEMMA GiveUpStep ==
  ASSUME RunnerInv, WaitInv, NEW quiet \in BOOLEAN, GiveUp(quiet)
  PROVE  WaitInv'
<1>1. /\ pc = "wait" /\ pc' = "shell"
      /\ good < QuiescenceSamples
      /\ Counted(quiet) < QuiescenceSamples
      /\ Observe(quiet)
      /\ UNCHANGED <<good, nonempty>>
  BY DEF GiveUp, Waiting, Exit, files
<1>2. /\ observed \in Seq(BOOLEAN) /\ Len(observed) <= QuiescenceSamples
      /\ good \in Nat /\ good \in 0 .. QuiescenceSamples
      /\ Trailing(observed, good)
  BY <1>1, SettingsType DEF WaitInv
<1>3. /\ observed' \in Seq(BOOLEAN)
      /\ Len(observed') <= QuiescenceSamples
      /\ Counted(quiet) \in 0 .. QuiescenceSamples
      /\ Trailing(observed', Counted(quiet))
  BY <1>1, <1>2, SampleCounted
<1>4. ~LastQuiet'
  <2> DEFINE g == Counted(quiet)
  <2>1. g # QuiescenceSamples
    BY <1>1, <1>3, SettingsType
  <2>2. ASSUME LastQuiet' PROVE g = QuiescenceSamples
    <3> DEFINE l == Len(observed')
               S == QuiescenceSamples
    <3>1. /\ l = S /\ l \in Nat /\ g \in Nat /\ g <= l
          /\ \A i \in 1 .. l : observed'[i]
      BY <1>3, <2>2, SettingsType DEF LastQuiet, Trailing
    <3>2. g < l => observed'[l - g] = FALSE
      BY <1>3 DEF Trailing
    <3> HIDE DEF l, g
    <3>3. g < l => l - g \in 1 .. l
      BY <3>1
    <3> QED BY <3>1, <3>2, <3>3 DEF g
  <2> QED BY <2>1, <2>2
<1>5. nonempty' = TRUE
  BY <1>1 DEF RunnerInv, ProgressInv, RunnerTypes
<1> QED BY <1>1, <1>2, <1>3, <1>4, <1>5 DEF WaitInv

\* Nothing is begun before the wait has ended with enough quiet samples.
LEMMA StartWaited ==
  ASSUME WaitInv, Start
  PROVE  WaitInv'
<1>1. /\ pc = "wait" /\ pc' = "manifest"
      /\ QuiescenceEnabled => ~(good < QuiescenceSamples)
      /\ UNCHANGED <<good, observed, nonempty, status>>
  BY DEF Start, Waiting, wait
<1>2. good \in 0 .. QuiescenceSamples /\ Trailing(observed, good) /\ status # 5
  BY <1>1 DEF WaitInv
<1>3. QuiescenceEnabled => good = QuiescenceSamples
  BY <1>1, <1>2, SettingsType
<1> QED BY <1>1, <1>2, <1>3 DEF WaitInv, LastQuiet

\* A new wait counts from none.
LEMMA WaitBegins ==
  ASSUME WaitInv, StartWait, pc' \in {"wait", "count"}, status' # 5
  PROVE  WaitInv'
<1>1. observed' = <<>> /\ good' = 0
  BY DEF StartWait
<1>2. observed' \in Seq(BOOLEAN) /\ Len(observed') = 0
  BY <1>1
<1> QED BY <1>1, <1>2, NoneTrailing, SettingsType DEF WaitInv

\* No other step touches the samples; it goes on in the run that was begun,
\* or stops with another status.
LEMMA WaitOver ==
  ASSUME WaitInv, UNCHANGED wait, status' # 5,
         \/ pc' \in {"shell", "build"}
         \/ /\ pc \notin {"shell", "build"}
            /\ pc' \in {"manifest", "benchmark", "append", "done"} =>
                 pc \in {"manifest", "benchmark", "append", "done"}
  PROVE  WaitInv'
BY DEF WaitInv, wait

\* Every step keeps the count of the samples.
LEMMA WaitStep == RunnerInv /\ WaitInv /\ [Next]_vars => WaitInv'
<1> SUFFICES ASSUME RunnerInv, WaitInv, [Next]_vars PROVE WaitInv'
  OBVIOUS
<1>0. pc # "shell" => status # 5
  BY DEF WaitInv
<1>1. CASE Refuse
  BY <1>1 DEF Refuse, Invoke, WaitInv, wait
<1>2. CASE Begin
  <2>1. ~nonempty /\ pc' = "build" /\ UNCHANGED <<wait, status>>
    BY <1>2 DEF Begin
  <2>2. status' # 5
    BY <2>1 DEF WaitInv
  <2> QED BY <2>1, <2>2, WaitOver
<1>3. CASE Built
  BY <1>0, <1>3, WaitBegins DEF Built
<1>4. CASE BuildFails
  BY <1>4, WaitOver DEF BuildFails, Exit
<1>5. CASE \E quiet \in BOOLEAN : Sample(quiet)
  BY <1>5, SampleStep
<1>6. CASE \E quiet \in BOOLEAN : GiveUp(quiet)
  BY <1>6, GiveUpStep
<1>7. CASE Start
  BY <1>7, StartWaited
<1>8. CASE WriteManifest
  BY <1>0, <1>8, WaitOver DEF WriteManifest
<1>9. CASE \E results \in 0 .. 2 : Benchmark(results) \/ BenchmarkFails(results)
  BY <1>0, <1>9, WaitOver DEF Benchmark, BenchmarkFails, Exit
<1>10. CASE BadLog
  BY <1>10, WaitOver DEF BadLog, Exit
<1>11. CASE AppendRow
  BY <1>0, <1>11, WaitOver DEF AppendRow
<1>12. CASE Done
  BY <1>0, <1>12, WaitBegins DEF Done
<1>13. CASE Count
  BY <1>0, <1>13, WaitOver DEF Count, Exit
<1>14. CASE Summarize
  BY <1>14, WaitOver DEF Summarize, Exit
<1>15. CASE SummarizeFails
  BY <1>15, WaitOver DEF SummarizeFails, Exit
<1>16. CASE Killed
  BY <1>16, WaitOver DEF Killed, Exit
<1>17. CASE UNCHANGED vars
  BY <1>17 DEF vars, wait, files, WaitInv, LastQuiet
<1> QED BY <1>1, <1>2, <1>3, <1>4, <1>5, <1>6, <1>7, <1>8, <1>9, <1>10, <1>11,
           <1>12, <1>13, <1>14, <1>15, <1>16, <1>17 DEF Next, Step

\* Nothing is measured on a host that was not quiet in each of the last
\* samples, and the script gives up only on such a host.
THEOREM QuietWheneverMeasured == Spec => []QuietWhenMeasured
<1>1. Spec => []WaitInv
  BY WaitInit, WaitStep, RunnerInvariant, PTL DEF Spec
<1>2. WaitInv => QuietWhenMeasured
  <2> SUFFICES ASSUME WaitInv, QuiescenceEnabled
               PROVE  /\ pc \in {"manifest", "benchmark", "append", "done"} => LastQuiet
                      /\ status = 5 => ~LastQuiet
    BY DEF QuietWhenMeasured
  <2>1. ASSUME pc \in {"manifest", "benchmark", "append", "done"}
        PROVE  LastQuiet
    BY <2>1, QuietIffCounted DEF WaitInv
  <2> QED BY <2>1 DEF WaitInv
<1> QED BY <1>1, <1>2, PTL
=============================================================================
