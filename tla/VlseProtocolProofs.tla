------------------------- MODULE VlseProtocolProofs -------------------------
(***************************************************************************)
(* Proofs about VlseProtocol, for every number of keywords, of queries and *)
(* of attempts, and every capacity the layouts may have: no label is       *)
(* encrypted twice, the index that is queried is complete, every answer is *)
(* exact, and the row that is written adds up.                             *)
(***************************************************************************)
EXTENDS VlseProtocol, FiniteSetTheorems, TLAPS

\* The slots of the candidate index of this attempt.
Slots == Capacity(ScheduledItems(attempt - 1))

\* A run that has no candidate: before an attempt, or after the last one, or
\* ended before the first.
BetweenAttempts ==
  stage \in {"encrypt", "attempt"} \/ result = "exhausted" \/ attempt = 0

\* Each keyword's record is encrypted once, each dummy's as it is generated.
EncryptionInv ==
  /\ \A k \in Keywords : encryptions[k] \in {0, 1}
  /\ stage = "encrypt" => \A k \in Keywords : encryptions[k] = 0
  /\ stage \in {"attempt", "insert", "pad", "query"} =>
       \A k \in Keywords : encryptions[k] = 1
  /\ \A n \in DummyNumbers : encryptions[Dummy(n)] = IF n <= dummies THEN 1 ELSE 0
  /\ stage \in {"encrypt", "attempt", "insert"} => dummies = 0

\* What the candidate index holds at each stage.
CandidateInv ==
  /\ stage = "encrypt" => attempt = 0
  /\ stage \in {"insert", "pad", "query"} \/ result = "row" => attempt > 0
  /\ stage = "insert" => /\ ~sealed
                         /\ labels \cup remaining = Keywords
                         /\ labels \cap remaining = {}
  /\ stage = "pad" => ~sealed /\ remaining = {} /\ labels = Keywords
  /\ stage = "query" \/ result = "row" =>
       /\ sealed
       /\ remaining = {}
       /\ labels = Keywords \cup {Dummy(n) : n \in 1 .. dummies}
       /\ Cardinality(labels) = Slots
       /\ KeywordCount + dummies = Slots
  /\ stage # "end" => result = "none"

\* The blinds of the queries so far are used, and no answer was wrong.
QueryInv ==
  /\ consumed = 0 .. query - 1
  /\ totals.query_successes = query
  /\ totals.decrypt_component_attempts = totals.candidate_records_total * DMax
  /\ result = "row" => query = Queries
  /\ result \notin {"mismatch", "incomplete", "blind reused"}

Failed == IF BetweenAttempts THEN attempt ELSE attempt - 1
Inserted ==
  IF BetweenAttempts THEN 0 ELSE KeywordCount - Cardinality(remaining)

\* The sums over the attempts: each failed one has inserted all but one of
\* the keywords at most.
SumsInv ==
  /\ statistics.failed_setup_attempts = Failed
  /\ statistics.failed_inserts = Failed
  /\ statistics.successful_inserts >= Inserted
  /\ statistics.successful_inserts <= Failed * (KeywordCount - 1) + Inserted

VlseInv == TypeOK /\ EncryptionInv /\ CandidateInv /\ QueryInv /\ SumsInv

-----------------------------------------------------------------------------
(* Owners.                                                                 *)

\* The options are numbers.
LEMMA OptionsType ==
  /\ KeywordCount \in Nat \ {0}
  /\ Queries \in Nat /\ Queries <= KeywordCount
  /\ DMax \in Nat \ {0}
  /\ MaxAttempts \in Nat \ {0}
BY OptionAssumption

\* There are as many keywords as the options say.
LEMMA KeywordsCounted ==
  /\ IsFiniteSet(Keywords)
  /\ Cardinality(Keywords) = KeywordCount
<1> DEFINE I == 0 .. KeywordCount - 1
           F == [i \in I |-> Keyword(i)]
<1>1. IsFiniteSet(I) /\ Cardinality(I) = KeywordCount
  BY OptionsType, FS_Interval
<1>2. F \in [I -> Keywords] /\ \A k \in Keywords : \E i \in I : F[i] = k
  BY DEF Keywords
<1>3. \A i, h \in I : F[i] = F[h] => i = h
  BY DEF Keyword
<1> HIDE DEF F, I
<1>4. F \in Bijection(I, Keywords)
  BY <1>2, <1>3 DEF Bijection, Injection, Surjection, IsInjective
<1> QED BY <1>1, <1>4, FS_Bijection DEF ExistsBijection

\* The dummies generated so far are as many as their numbers, and none of
\* them is a keyword.
LEMMA DummiesCounted ==
  ASSUME NEW d \in Nat
  PROVE  LET D == {Dummy(n) : n \in 1 .. d}
         IN /\ IsFiniteSet(D)
            /\ Cardinality(D) = d
            /\ D \cap Keywords = {}
<1> DEFINE D == {Dummy(n) : n \in 1 .. d}
           F == [n \in 1 .. d |-> Dummy(n)]
<1>1. IsFiniteSet(1 .. d) /\ Cardinality(1 .. d) = d
  BY FS_Interval
<1>2. F \in [1 .. d -> D] /\ \A o \in D : \E n \in 1 .. d : F[n] = o
  OBVIOUS
<1>3. \A m, n \in 1 .. d : F[m] = F[n] => m = n
  BY DEF Dummy
<1>4. D \cap Keywords = {}
  BY DEF Keywords, Keyword, Dummy
<1> HIDE DEF F, D
<1>5. F \in Bijection(1 .. d, D)
  BY <1>2, <1>3 DEF Bijection, Injection, Surjection, IsInjective
<1> QED BY <1>1, <1>4, <1>5, FS_Bijection DEF ExistsBijection, D

\* The number of a dummy is one of its own, and no keyword's.
LEMMA OwnersDiffer ==
  /\ \A m, n : Dummy(m) = Dummy(n) => m = n
  /\ \A n : Dummy(n) \notin Keywords
BY DEF Keywords, Keyword, Dummy

\* Encrypting for some owners.
LEMMA EncryptedType ==
  ASSUME encryptions \in [Keywords \cup Dummies -> Nat], NEW S
  PROVE  /\ Encrypted(S) \in [Keywords \cup Dummies -> Nat]
         /\ \A o \in Keywords \cup Dummies :
              Encrypted(S)[o] = IF o \in S THEN encryptions[o] + 1 ELSE encryptions[o]
BY DEF Encrypted

\* LabelIndex counts as this module does: the instance has a Cardinality of
\* its own.
LEMMA SameCardinality ==
  ASSUME NEW S
  PROVE  Index!Cardinality(S) = Cardinality(S)
BY DEF Index!Cardinality, Cardinality

\* The slots of an attempt.
LEMMA SlotsType ==
  ASSUME TypeOK, attempt > 0
  PROVE  /\ Slots \in Nat
         /\ \A n \in 1 .. Slots : n \in DummyNumbers
<1>1. attempt - 1 \in 0 .. MaxAttempts - 1
  BY OptionsType DEF TypeOK
<1> QED BY <1>1, CapacityAssumption DEF Slots, DummyNumbers

-----------------------------------------------------------------------------
(* The steps of setup.                                                     *)

\* A run begins with nothing encrypted, inserted or queried.
LEMMA VlseInit == Init => VlseInv
<1> SUFFICES ASSUME Init PROVE VlseInv
  OBVIOUS
<1>1. TypeOK
  <2>1. statistics \in Sums
    <3>1. MaxAttempts * KeywordCount \in Nat
      BY OptionsType
    <3> QED BY <3>1, OptionsType DEF Init, Sums
  <2>2. totals \in QueryTotals
    BY OptionsType DEF Init, QueryTotals
  <2>3. encryptions \in [Keywords \cup Dummies -> Nat]
    BY DEF Init
  <2>4. attempt \in 0 .. MaxAttempts /\ query \in 0 .. Queries /\ ~(attempt > 0)
    BY OptionsType DEF Init
  <2> QED BY <2>1, <2>2, <2>3, <2>4 DEF Init, TypeOK, Results
<1>2. EncryptionInv
  BY DEF Init, EncryptionInv, Dummies, DummyNumbers
<1>3. CandidateInv /\ QueryInv
  BY OptionsType DEF Init, CandidateInv, QueryInv, BetweenAttempts
<1>4. SumsInv
  BY OptionsType DEF Init, SumsInv, Failed, Inserted, BetweenAttempts
<1> QED BY <1>1, <1>2, <1>3, <1>4 DEF VlseInv

\* Each keyword's record is encrypted, for the one time.
LEMMA EncryptGenuineStep ==
  ASSUME VlseInv, EncryptGenuine
  PROVE  VlseInv'
<1> USE DEF VlseInv
<1>1. /\ stage = "encrypt" /\ stage' = "attempt"
      /\ encryptions' = Encrypted(Keywords)
      /\ UNCHANGED <<attempt, remaining, labels, sealed, inserted, statistics,
                     dummies, consumed, query, totals, result>>
  BY DEF EncryptGenuine
<1>2. /\ encryptions' \in [Keywords \cup Dummies -> Nat]
      /\ \A o \in Keywords \cup Dummies : encryptions'[o]
           = IF o \in Keywords THEN encryptions[o] + 1 ELSE encryptions[o]
  BY <1>1, EncryptedType DEF TypeOK
<1>3. TypeOK'
  BY <1>1, <1>2 DEF TypeOK
<1>4. EncryptionInv'
  BY <1>1, <1>2, OwnersDiffer DEF EncryptionInv, Dummies
<1>5. CandidateInv' /\ QueryInv'
  BY <1>1 DEF CandidateInv, QueryInv, Slots, BetweenAttempts
<1>6. SumsInv'
  BY <1>1 DEF SumsInv, Failed, Inserted, BetweenAttempts
<1> QED BY <1>3, <1>4, <1>5, <1>6

\* An encryption throws, and the run ends without a candidate.
LEMMA EncryptThrowsStep ==
  ASSUME VlseInv, EncryptThrows
  PROVE  VlseInv'
<1> USE DEF VlseInv
<1>1. /\ stage = "encrypt" /\ stage' = "end" /\ result' = "threw"
      /\ UNCHANGED <<attempt, remaining, labels, sealed, inserted, statistics,
                     dummies, consumed, query, totals>>
  BY DEF EncryptThrows, End
<1>2. PICK n \in 0 .. KeywordCount - 1 :
        encryptions' = Encrypted({Keyword(i) : i \in 0 .. n - 1})
  BY DEF EncryptThrows
<1> DEFINE done == {Keyword(i) : i \in 0 .. n - 1}
<1>3. /\ encryptions' \in [Keywords \cup Dummies -> Nat]
      /\ \A o \in Keywords \cup Dummies : encryptions'[o]
           = IF o \in done THEN encryptions[o] + 1 ELSE encryptions[o]
  BY <1>2, EncryptedType DEF TypeOK
<1>4. done \subseteq Keywords
  BY <1>2, OptionsType DEF Keywords
<1>5. TypeOK'
  BY <1>1, <1>3 DEF TypeOK, Results
<1>6. EncryptionInv'
  <2> HIDE DEF done
  <2>1. \A k \in Keywords : encryptions'[k] \in {0, 1}
    BY <1>1, <1>3 DEF EncryptionInv
  <2>2. \A m \in DummyNumbers : encryptions'[Dummy(m)] = encryptions[Dummy(m)]
    BY <1>3, <1>4, OwnersDiffer DEF Dummies
  <2> QED BY <1>1, <2>1, <2>2 DEF EncryptionInv
<1>7. CandidateInv' /\ QueryInv'
  BY <1>1 DEF CandidateInv, QueryInv, BetweenAttempts
<1>8. SumsInv'
  BY <1>1 DEF CandidateInv, SumsInv, Failed, Inserted, BetweenAttempts
<1> QED BY <1>5, <1>6, <1>7, <1>8

\* An attempt begins with an empty candidate and all keywords to insert.
LEMMA BeginAttemptStep ==
  ASSUME VlseInv, BeginAttempt
  PROVE  VlseInv'
<1> USE DEF VlseInv
<1>1. /\ stage = "attempt" /\ stage' = "insert"
      /\ attempt \in 0 .. MaxAttempts /\ attempt < MaxAttempts
      /\ attempt' = attempt + 1
      /\ remaining' = Keywords /\ labels' = {}
      /\ sealed' = FALSE /\ inserted' = "none"
      /\ dummies = 0
      /\ result = "none"
      /\ UNCHANGED <<encryptions, statistics, dummies, consumed, query, totals,
                     result>>
  BY DEF BeginAttempt, TypeOK, EncryptionInv, CandidateInv
<1>2. attempt' \in 1 .. MaxAttempts /\ attempt' - 1 = attempt
  BY <1>1, OptionsType
<1>3. TypeOK'
  <2>1. Cardinality(labels') = 0
    BY <1>1, FS_EmptySet
  <2>2. Capacity(ScheduledItems(attempt' - 1)) \in Nat
    BY <1>1, <1>2, CapacityAssumption, OptionsType
  <2>3. Cardinality(labels') + dummies' * (IF sealed' THEN 0 ELSE 1)
          <= Capacity(ScheduledItems(attempt' - 1))
    BY <1>1, <2>1, <2>2
  <2>4. attempt' \in 0 .. MaxAttempts /\ stage' = "insert"
    BY <1>1, <1>2
  <2> QED BY <1>1, <2>3, <2>4 DEF TypeOK
<1>4. EncryptionInv' /\ QueryInv'
  BY <1>1 DEF EncryptionInv, QueryInv
<1>5. CandidateInv'
  BY <1>1, <1>2 DEF CandidateInv, BetweenAttempts
<1>6. SumsInv'
  <2>1. /\ Failed' = attempt /\ Failed = attempt
        /\ Inserted' = 0 /\ Inserted = 0
    BY <1>1, <1>2, KeywordsCounted, OptionsType DEF Failed, Inserted, BetweenAttempts
  <2> QED BY <1>1, <2>1 DEF SumsInv
<1> QED BY <1>3, <1>4, <1>5, <1>6

\* While an attempt inserts, what is left to insert is not in the index.
LEMMA Inserting ==
  ASSUME VlseInv, stage = "insert"
  PROVE  /\ IsFiniteSet(remaining)
         /\ Cardinality(remaining) \in 0 .. KeywordCount
         /\ IsFiniteSet(labels)
         /\ labels \subseteq Keywords
         /\ Cardinality(labels) \in Nat
         /\ Cardinality(labels) + Cardinality(remaining) = KeywordCount
         /\ attempt \in 1 .. MaxAttempts
         /\ Failed = attempt - 1
         /\ Inserted = KeywordCount - Cardinality(remaining)
         /\ result = "none"
<1>1. /\ labels \cup remaining = Keywords
      /\ labels \cap remaining = {}
      /\ result = "none"
      /\ attempt > 0
      /\ attempt \in 0 .. MaxAttempts
  BY DEF VlseInv, TypeOK, CandidateInv, BetweenAttempts
<1>2. /\ IsFiniteSet(remaining) /\ IsFiniteSet(labels)
      /\ Cardinality(remaining) \in Nat /\ Cardinality(labels) \in Nat
  BY <1>1, KeywordsCounted, FS_Subset, FS_CardinalityType
<1>3. Cardinality(labels \cup remaining)
        = Cardinality(labels) + Cardinality(remaining)
            - Cardinality(labels \cap remaining)
  BY <1>2, FS_Union
<1>4. Cardinality(labels \cap remaining) = 0
  BY <1>1, FS_EmptySet
<1>5. Cardinality(labels) + Cardinality(remaining) = KeywordCount
  <2>1. Cardinality(labels \cup remaining) = KeywordCount
    BY <1>1, KeywordsCounted
  <2> QED BY <1>2, <1>3, <1>4, <2>1
<1>6. attempt \in 1 .. MaxAttempts
  BY <1>1, OptionsType
<1>7. Failed = attempt - 1 /\ Inserted = KeywordCount - Cardinality(remaining)
  BY <1>1 DEF Failed, Inserted, BetweenAttempts
<1>8. Cardinality(remaining) \in 0 .. KeywordCount
  BY <1>2, <1>5, OptionsType
<1>9. labels \subseteq Keywords
  BY <1>1
<1> QED BY <1>1, <1>2, <1>5, <1>6, <1>7, <1>8, <1>9

\* What F attempts that failed and this one may have inserted is in range.
LEMMA SumsBounded ==
  ASSUME NEW F \in 0 .. MaxAttempts - 1, NEW i \in 0 .. KeywordCount,
         NEW n \in Nat, n <= F * (KeywordCount - 1) + i
  PROVE  n \in 0 .. MaxAttempts * KeywordCount
<1> DEFINE K == KeywordCount
           A == MaxAttempts
<1>1. K \in Nat \ {0} /\ A \in Nat \ {0} /\ F \in Nat /\ F <= A - 1
  BY OptionsType
<1> HIDE DEF K, A
<1>2. F * (K - 1) <= (A - 1) * K
  <2>1. F * (K - 1) <= F * K
    BY <1>1
  <2>2. F * K <= (A - 1) * K
    BY <1>1
  <2>3. F * (K - 1) \in Nat /\ F * K \in Nat /\ (A - 1) * K \in Nat
    BY <1>1
  <2> QED BY <2>1, <2>2, <2>3
<1>3. (A - 1) * K + K = A * K /\ A * K \in Nat
  BY <1>1
<1>4. F * (K - 1) \in Nat /\ (A - 1) * K \in Nat
  BY <1>1
<1>5. i \in Nat /\ i <= K /\ n <= F * (K - 1) + i
  BY OptionsType DEF K
<1>6. n <= A * K
  BY <1>1, <1>2, <1>3, <1>4, <1>5
<1> QED BY <1>3, <1>6 DEF A, K

\* A record that is stored.
LEMMA InsertRecordStep ==
  ASSUME VlseInv, NEW k \in Keywords, InsertRecord(k)
  PROVE  VlseInv'
<1> USE DEF VlseInv
<1> DEFINE s == statistics
<1>1. /\ stage = "insert" /\ stage' = "insert"
      /\ k \in remaining
      /\ remaining' = remaining \ {k}
      /\ labels' = labels \cup {k}
      /\ k \notin labels
      /\ Cardinality(labels) < Slots
      /\ inserted' = "stored"
      /\ statistics' = [statistics EXCEPT !.successful_inserts = @ + 1]
      /\ UNCHANGED <<encryptions, attempt, sealed, dummies, consumed, query,
                     totals, result>>
  BY SameCardinality DEF InsertRecord, Index!Store, Slots
<1>2. /\ IsFiniteSet(remaining)
      /\ Cardinality(remaining) \in 0 .. KeywordCount
      /\ IsFiniteSet(labels)
      /\ Cardinality(labels) \in Nat
      /\ labels \subseteq Keywords
      /\ attempt \in 1 .. MaxAttempts
      /\ Failed = attempt - 1
      /\ Inserted = KeywordCount - Cardinality(remaining)
      /\ result = "none"
  BY <1>1, Inserting
<1>3. /\ Cardinality(remaining') = Cardinality(remaining) - 1
      /\ Cardinality(remaining') \in Nat
      /\ Cardinality(labels') = Cardinality(labels) + 1
  <2>1. IsFiniteSet(remaining') /\ Cardinality(remaining') = Cardinality(remaining) - 1
    BY <1>1, <1>2, FS_RemoveElement
  <2> QED BY <1>1, <1>2, <2>1, FS_AddElement, FS_CardinalityType
<1>4. Failed' = Failed /\ Inserted' = Inserted + 1
  <2>1. ~BetweenAttempts'
    BY <1>1, <1>2 DEF BetweenAttempts
  <2> QED BY <1>1, <1>2, <1>3, <2>1, OptionsType DEF Failed, Inserted
<1>5. /\ s.successful_inserts \in Nat
      /\ s'.successful_inserts = s.successful_inserts + 1
      /\ s'.failed_inserts = s.failed_inserts
      /\ s'.failed_setup_attempts = s.failed_setup_attempts
      /\ s' = [successful_inserts |-> s.successful_inserts + 1,
               failed_inserts |-> s.failed_inserts,
               failed_setup_attempts |-> s.failed_setup_attempts]
  BY <1>1, OptionsType DEF TypeOK, Sums
<1>6. /\ s'.successful_inserts >= Inserted'
      /\ s'.successful_inserts <= Failed' * (KeywordCount - 1) + Inserted'
  <2>1. Failed * (KeywordCount - 1) \in Int
    BY <1>2, OptionsType
  <2>2. /\ s.successful_inserts >= Inserted
        /\ s.successful_inserts <= Failed * (KeywordCount - 1) + Inserted
    BY DEF SumsInv
  <2> DEFINE f == Failed * (KeywordCount - 1)
  <2> HIDE DEF f
  <2>3. s.successful_inserts + 1 <= f + (Inserted + 1) /\ Inserted \in Int
    BY <1>2, <1>5, <2>1, <2>2, OptionsType DEF f
  <2> QED BY <1>4, <1>5, <2>2, <2>3 DEF f
<1>7. SumsInv'
  BY <1>4, <1>5, <1>6 DEF SumsInv
<1>8. TypeOK'
  <2>1. s'.successful_inserts \in 0 .. MaxAttempts * KeywordCount
    <3>1. Failed' \in 0 .. MaxAttempts - 1
      BY <1>2, <1>4, OptionsType
    <3>2. Inserted' \in 0 .. KeywordCount
      BY <1>2, <1>3, <1>4, OptionsType
    <3>3. s'.successful_inserts \in Nat
      BY <1>5
    <3> QED BY <1>6, <3>1, <3>2, <3>3, SumsBounded
  <2>2. statistics' \in Sums
    BY <1>5, <2>1 DEF TypeOK, Sums
  <2>3. Cardinality(labels') + dummies' * (IF sealed' THEN 0 ELSE 1)
          <= Capacity(ScheduledItems(attempt' - 1))
    <3>1. dummies = 0 /\ attempt > 0
      BY <1>1, <1>2, OptionsType DEF EncryptionInv
    <3>2. Slots \in Nat
      BY <3>1, SlotsType
    <3> QED BY <1>1, <1>2, <1>3, <3>1, <3>2 DEF Slots
  <2> QED BY <1>1, <1>2, <2>2, <2>3 DEF TypeOK
<1>9. EncryptionInv' /\ QueryInv'
  BY <1>1 DEF EncryptionInv, QueryInv
<1>10. CandidateInv'
  BY <1>1, <1>2 DEF CandidateInv, BetweenAttempts
<1> QED BY <1>7, <1>8, <1>9, <1>10

\* A record that is refused: the attempt is given up.
LEMMA RefuseRecordStep ==
  ASSUME VlseInv, NEW k \in Keywords, RefuseRecord(k)
  PROVE  VlseInv'
<1> USE DEF VlseInv
<1> DEFINE s == statistics
<1>1. /\ stage = "insert" /\ stage' = "attempt"
      /\ k \in remaining
      /\ remaining' = {}
      /\ inserted' = "refused"
      /\ statistics' = [statistics EXCEPT !.failed_inserts = @ + 1,
                                          !.failed_setup_attempts = @ + 1]
      /\ UNCHANGED <<encryptions, attempt, labels, sealed, dummies, consumed,
                     query, totals, result>>
  BY DEF RefuseRecord, Index!Refuse
<1>2. /\ IsFiniteSet(remaining)
      /\ Cardinality(remaining) \in 0 .. KeywordCount
      /\ attempt \in 1 .. MaxAttempts
      /\ Failed = attempt - 1
      /\ Inserted = KeywordCount - Cardinality(remaining)
      /\ result = "none"
      /\ dummies = 0
  BY <1>1, Inserting DEF EncryptionInv
<1>3. Cardinality(remaining) > 0
  BY <1>1, <1>2, FS_EmptySet
<1>4. Failed' = attempt /\ Inserted' = 0
  BY <1>1 DEF Failed, Inserted, BetweenAttempts
<1>5. /\ s.successful_inserts \in 0 .. MaxAttempts * KeywordCount
      /\ s.successful_inserts \in Nat
      /\ s.failed_inserts = attempt - 1
      /\ s.failed_setup_attempts = attempt - 1
      /\ s' = [successful_inserts |-> s.successful_inserts,
               failed_inserts |-> attempt,
               failed_setup_attempts |-> attempt]
  <2>1. s.failed_inserts = attempt - 1 /\ s.failed_setup_attempts = attempt - 1
    BY <1>2 DEF SumsInv
  <2>2. attempt - 1 + 1 = attempt
    BY <1>2, OptionsType
  <2>3. s \in Sums /\ MaxAttempts * KeywordCount \in Nat
    BY OptionsType DEF TypeOK
  <2>4. s' = [successful_inserts |-> s.successful_inserts,
              failed_inserts |-> s.failed_inserts + 1,
              failed_setup_attempts |-> s.failed_setup_attempts + 1]
    BY <1>1, <2>3 DEF Sums
  <2>5. s.successful_inserts \in 0 .. MaxAttempts * KeywordCount
    BY <2>3 DEF Sums
  <2> QED BY <2>1, <2>2, <2>3, <2>4, <2>5
<1>6. s.successful_inserts <= attempt * (KeywordCount - 1)
  <2> DEFINE f == (attempt - 1) * (KeywordCount - 1)
  <2>1. s.successful_inserts <= f + (KeywordCount - Cardinality(remaining))
    BY <1>2 DEF SumsInv
  <2>2. f + (KeywordCount - 1) = attempt * (KeywordCount - 1) /\ f \in Nat
    BY <1>2, OptionsType
  <2> HIDE DEF f
  <2>3. s.successful_inserts <= f + (KeywordCount - 1)
    BY <1>2, <1>3, <1>5, <2>1, <2>2, OptionsType
  <2> QED BY <2>2, <2>3
<1>7. SumsInv'
  <2>1. /\ s'.successful_inserts >= 0
        /\ s'.successful_inserts <= attempt * (KeywordCount - 1) + 0
    <3>1. attempt * (KeywordCount - 1) \in Int
      BY <1>2, OptionsType
    <3> QED BY <1>5, <1>6, <3>1
  <2> QED BY <1>4, <1>5, <2>1 DEF SumsInv
<1>8. TypeOK'
  <2>1. statistics' \in Sums
    BY <1>2, <1>5, OptionsType DEF Sums
  <2> QED BY <1>1, <2>1 DEF TypeOK
<1>9. EncryptionInv' /\ QueryInv'
  BY <1>1 DEF EncryptionInv, QueryInv
<1>10. CandidateInv'
  BY <1>1, <1>2 DEF CandidateInv, BetweenAttempts
<1> QED BY <1>7, <1>8, <1>9, <1>10

\* Every keyword is in: the candidate is padded next.
LEMMA AcceptCandidateStep ==
  ASSUME VlseInv, AcceptCandidate
  PROVE  VlseInv'
<1> USE DEF VlseInv
<1>1. /\ stage = "insert" /\ stage' = "pad"
      /\ remaining = {}
      /\ UNCHANGED <<encryptions, attempt, remaining, labels, sealed, inserted,
                     statistics, dummies, consumed, query, totals, result>>
  BY DEF AcceptCandidate
<1>2. TypeOK' /\ EncryptionInv' /\ QueryInv'
  BY <1>1 DEF TypeOK, EncryptionInv, QueryInv
<1>3. CandidateInv'
  BY <1>1 DEF CandidateInv, BetweenAttempts
<1>4. SumsInv'
  BY <1>1 DEF SumsInv, Failed, Inserted, BetweenAttempts
<1> QED BY <1>2, <1>3, <1>4

\* The four attempts have failed.
LEMMA SetupExhaustedStep ==
  ASSUME VlseInv, SetupExhausted
  PROVE  VlseInv'
<1> USE DEF VlseInv
<1>1. /\ stage = "attempt" /\ stage' = "end"
      /\ result' = "exhausted"
      /\ UNCHANGED <<encryptions, attempt, remaining, labels, sealed, inserted,
                     statistics, dummies, consumed, query, totals>>
  BY DEF SetupExhausted, End
<1>2. TypeOK' /\ EncryptionInv' /\ QueryInv'
  BY <1>1 DEF TypeOK, Results, EncryptionInv, QueryInv
<1>3. CandidateInv'
  BY <1>1 DEF CandidateInv, BetweenAttempts
<1>4. SumsInv'
  BY <1>1 DEF SumsInv, Failed, Inserted, BetweenAttempts
<1> QED BY <1>2, <1>3, <1>4

-----------------------------------------------------------------------------
(* The steps of padding.                                                   *)

\* While an index is padded it holds the keywords.
LEMMA Padding ==
  ASSUME VlseInv, stage = "pad"
  PROVE  /\ ~sealed
         /\ remaining = {}
         /\ labels = Keywords
         /\ attempt > 0
         /\ dummies \in Nat
         /\ Slots \in Nat
         /\ KeywordCount + dummies <= Slots
         /\ EmptySlots = Slots - KeywordCount
         /\ result = "none"
<1>1. ~sealed /\ remaining = {} /\ labels = Keywords /\ result = "none"
  BY DEF VlseInv, CandidateInv
<1>2. attempt > 0
  BY <1>1 DEF VlseInv, CandidateInv, BetweenAttempts
<1>3. Slots \in Nat
  BY <1>2, SlotsType DEF VlseInv
<1>4. dummies \in Nat
  <2>1. \A a \in 0 .. MaxAttempts - 1 :
          1 .. Capacity(ScheduledItems(a)) \subseteq Nat
    BY CapacityAssumption
  <2>2. DummyNumbers \subseteq Nat
    BY <2>1 DEF DummyNumbers
  <2> QED BY <2>2 DEF VlseInv, TypeOK
<1>5. KeywordCount + dummies <= Slots
  <2>1. Cardinality(labels) + dummies * (IF sealed THEN 0 ELSE 1) <= Slots
    BY <1>2 DEF VlseInv, TypeOK, Slots
  <2> QED BY <1>1, <1>4, <2>1, KeywordsCounted, OptionsType
<1>6. EmptySlots = Slots - KeywordCount
  BY <1>1, KeywordsCounted DEF EmptySlots, Slots
<1> QED BY <1>1, <1>2, <1>3, <1>4, <1>5, <1>6

\* One more dummy, with a number of its own and a slot to go to.
LEMMA GenerateDummyStep ==
  ASSUME VlseInv, GenerateDummy
  PROVE  VlseInv'
<1> USE DEF VlseInv
<1> DEFINE d == Dummy(dummies + 1)
<1>1. /\ stage = "pad" /\ stage' = "pad"
      /\ dummies < EmptySlots
      /\ dummies' = dummies + 1
      /\ encryptions' = Encrypted({d})
      /\ UNCHANGED <<attempt, remaining, labels, sealed, inserted, statistics,
                     consumed, query, totals, result>>
  BY DEF GenerateDummy
<1>2. /\ ~sealed
      /\ labels = Keywords
      /\ attempt > 0
      /\ dummies \in Nat
      /\ Slots \in Nat
      /\ EmptySlots = Slots - KeywordCount
  BY <1>1, Padding
<1>3. dummies + 1 \in DummyNumbers /\ KeywordCount + (dummies + 1) <= Slots
  <2>1. dummies + 1 \in 1 .. Slots /\ KeywordCount + (dummies + 1) <= Slots
    BY <1>1, <1>2, OptionsType
  <2> QED BY <1>2, <2>1, SlotsType
<1>4. /\ encryptions' \in [Keywords \cup Dummies -> Nat]
      /\ \A o \in Keywords \cup Dummies :
           encryptions'[o] = IF o \in {d} THEN encryptions[o] + 1 ELSE encryptions[o]
  BY <1>1, EncryptedType DEF TypeOK
<1>5. TypeOK'
  <2>1. Cardinality(labels') + dummies' * (IF sealed' THEN 0 ELSE 1)
          <= Capacity(ScheduledItems(attempt' - 1))
    BY <1>1, <1>2, <1>3, KeywordsCounted, OptionsType DEF Slots
  <2> QED BY <1>1, <1>3, <1>4, <2>1 DEF TypeOK
<1>6. EncryptionInv'
  <2>1. \A k \in Keywords : encryptions'[k] = encryptions[k]
    <3>1. \A k \in Keywords : k # d
      BY OwnersDiffer
    <3> QED BY <1>1, <1>4, <3>1 DEF EncryptionInv
  <2>2. ASSUME NEW n \in DummyNumbers
        PROVE  encryptions'[Dummy(n)] = IF n <= dummies' THEN 1 ELSE 0
    <3>1. n \in Nat
      BY CapacityAssumption DEF DummyNumbers
    <3>2. Dummy(n) \in Dummies /\ (Dummy(n) = d <=> n = dummies + 1)
      BY OwnersDiffer DEF Dummies
    <3>3. encryptions[Dummy(n)] = IF n <= dummies THEN 1 ELSE 0
      BY DEF EncryptionInv
    <3> QED BY <1>1, <1>2, <1>4, <3>1, <3>2, <3>3
  <2> QED BY <1>1, <2>1, <2>2 DEF EncryptionInv
<1>7. CandidateInv' /\ QueryInv'
  BY <1>1, <1>2, Padding DEF CandidateInv, QueryInv, BetweenAttempts
<1>8. SumsInv'
  BY <1>1 DEF SumsInv, Failed, Inserted, BetweenAttempts
<1> QED BY <1>5, <1>6, <1>7, <1>8

\* The dummies fill the index to the capacity of its layout.
LEMMA PaddedStep ==
  ASSUME VlseInv, Padded
  PROVE  VlseInv'
<1> USE DEF VlseInv
<1> DEFINE D == {Dummy(n) : n \in 1 .. dummies}
<1>1. /\ stage = "pad" /\ stage' = "query"
      /\ dummies = EmptySlots
      /\ labels' = labels \cup D
      /\ sealed' = TRUE
      /\ inserted' = "padded"
      /\ Cardinality(labels') = Slots
      /\ UNCHANGED <<encryptions, attempt, remaining, statistics, dummies,
                     consumed, query, totals, result>>
  BY SameCardinality DEF Padded, Index!Seal, Slots
<1>2. /\ remaining = {}
      /\ labels = Keywords
      /\ attempt > 0
      /\ dummies \in Nat
      /\ Slots \in Nat
      /\ EmptySlots = Slots - KeywordCount
      /\ result = "none"
  BY <1>1, Padding
<1>3. KeywordCount + dummies = Slots
  BY <1>1, <1>2, OptionsType
<1>4. TypeOK'
  <2>1. D \subseteq Dummies
    <3>1. \A n \in 1 .. dummies : n \in 1 .. Slots
      BY <1>2, <1>3, OptionsType
    <3> QED BY <1>2, <3>1, SlotsType DEF Dummies
  <2>2. Cardinality(labels') + dummies' * (IF sealed' THEN 0 ELSE 1)
          <= Capacity(ScheduledItems(attempt' - 1))
    BY <1>1, <1>2 DEF Slots
  <2> QED BY <1>1, <1>2, <2>1, <2>2 DEF TypeOK
<1>5. EncryptionInv' /\ QueryInv'
  BY <1>1 DEF EncryptionInv, QueryInv
<1>6. CandidateInv'
  BY <1>1, <1>2, <1>3 DEF CandidateInv, Slots, BetweenAttempts
<1>7. SumsInv'
  BY <1>1 DEF SumsInv, Failed, Inserted, BetweenAttempts
<1> QED BY <1>4, <1>5, <1>6, <1>7

\* The padding throws, and the run ends without a row.
LEMMA PadThrowsStep ==
  ASSUME VlseInv, PadThrows
  PROVE  VlseInv'
<1> USE DEF VlseInv
<1>1. /\ stage = "pad" /\ stage' = "end"
      /\ result' = "threw"
      /\ inserted' = "threw"
      /\ UNCHANGED <<encryptions, attempt, remaining, labels, sealed, statistics,
                     dummies, consumed, query, totals>>
  BY DEF PadThrows, End, Index!Abort
<1>2. attempt > 0 /\ result = "none"
  BY <1>1, Padding
<1>3. TypeOK' /\ EncryptionInv' /\ QueryInv'
  BY <1>1 DEF TypeOK, Results, EncryptionInv, QueryInv
<1>4. CandidateInv'
  BY <1>1, <1>2 DEF CandidateInv, BetweenAttempts
<1>5. SumsInv'
  BY <1>1, <1>2 DEF SumsInv, Failed, Inserted, BetweenAttempts
<1> QED BY <1>3, <1>4, <1>5

-----------------------------------------------------------------------------
(* The queries.                                                            *)

\* A record opens under the token and key of its owner and of nobody else,
\* and a keyword's components are valid.
LEMMA OnlyItsOwner ==
  ASSUME NEW o, NEW p, NEW j \in Components
  PROVE  LET label == MakeRecord(o)[j]
         IN /\ DecryptLabel(DeriveTokenAndKey(p), j, label) <=> o = p
            /\ label.valid = (o \in Keywords)
            /\ o \in Keywords => label.document = Document(o, j)
<1> DEFINE valid == o \in Keywords
           document == IF valid THEN Document(o, j) ELSE 0
           label == EncryptLabel(DeriveTokenAndKey(o), j, valid, document)
<1>1. MakeRecord(o)[j] = label
  BY DEF MakeRecord
<1>2. /\ label.key = <<"H2-key", o>>
      /\ label.aad = <<Epoch, <<"H1-token", o>>, j>>
      /\ label.valid = valid
      /\ label.document = document
  BY DEF EncryptLabel, DeriveTokenAndKey, DomainHash, MakeAssociatedData
<1>3. DecryptLabel(DeriveTokenAndKey(p), j, label)
        <=> label.key = <<"H2-key", p>> /\ label.aad = <<Epoch, <<"H1-token", p>>, j>>
  BY DEF DecryptLabel, DeriveTokenAndKey, DomainHash, MakeAssociatedData
<1>4. <<"H2-key", o>> = <<"H2-key", p>> <=> o = p
  OBVIOUS
<1> QED BY <1>1, <1>2, <1>3, <1>4

\* Whatever other records a query meets, it collects the documents of its
\* keyword.
LEMMA AnswerExact ==
  ASSUME NEW i \in 0 .. KeywordCount - 1, NEW c, Keyword(i) \in c
  PROVE  Correct(i, AuthenticatedResults(DeriveTokenAndKey(Keyword(i)),
                                         {MakeRecord(o) : o \in c}))
<1> DEFINE owner == Keyword(i)
           derived == DeriveTokenAndKey(owner)
           opened(record) ==
             {j \in Components :
                DecryptLabel(derived, j, record[j]) /\ record[j].valid}
           found(record) == {record[j].document : j \in opened(record)}
           documents == {Document(owner, j) : j \in Components}
<1>1. owner \in Keywords
  BY DEF Keywords
<1>2. found(MakeRecord(owner)) = documents
  <2>1. opened(MakeRecord(owner)) = Components
    BY <1>1, OnlyItsOwner
  <2>2. \A j \in Components : MakeRecord(owner)[j].document = Document(owner, j)
    BY <1>1, OnlyItsOwner
  <2> QED BY <2>1, <2>2
<1>3. ASSUME NEW o, o # owner
      PROVE  found(MakeRecord(o)) = {}
  <2> HIDE DEF owner
  <2>1. \A j \in Components : ~DecryptLabel(derived, j, MakeRecord(o)[j])
    BY <1>3, OnlyItsOwner
  <2>2. opened(MakeRecord(o)) = {}
    BY <2>1
  <2> QED BY <2>2
<1>4. AuthenticatedResults(derived, {MakeRecord(o) : o \in c})
        = UNION {found(r) : r \in {MakeRecord(o) : o \in c}}
  BY DEF AuthenticatedResults
<1>5. UNION {found(r) : r \in {MakeRecord(o) : o \in c}} = documents
  <2> HIDE DEF owner, found, documents
  <2>1. \A r \in {MakeRecord(o) : o \in c} : found(r) \subseteq documents
    BY <1>2, <1>3
  <2>2. MakeRecord(owner) \in {MakeRecord(o) : o \in c}
    BY DEF owner
  <2> QED BY <1>2, <2>1, <2>2
<1> QED BY <1>4, <1>5 DEF Correct

\* Each of the candidates is attempted at each of its components.
LEMMA AttemptsCounted ==
  ASSUME NEW c, IsFiniteSet(c)
  PROVE  /\ Cardinality(c) \in Nat
         /\ Cardinality(c \X Components) = Cardinality(c) * DMax
<1>1. IsFiniteSet(Components) /\ Cardinality(Components) = DMax
  BY OptionsType, FS_Interval DEF Components
<1> QED BY <1>1, FS_Product, FS_CardinalityType

\* A query is answered exactly, and counted.
LEMMA QueryStep ==
  ASSUME VlseInv, Query
  PROVE  VlseInv'
<1> USE DEF VlseInv
<1> DEFINE t == totals
           owner == Keyword(query)
<1>1. /\ stage = "query"
      /\ query < Queries
      /\ Answer(query)
      /\ consumed' = consumed \cup {query}
      /\ UNCHANGED <<encryptions, attempt, remaining, labels, sealed, inserted,
                     statistics, dummies>>
  <2>1. query \in Nat
    BY OptionsType DEF TypeOK
  <2>2. consumed = 0 .. query - 1
    BY DEF QueryInv
  <2>3. Blind(query) = query
    BY DEF Blind
  <2>4. Blind(query) \notin consumed
    BY <2>1, <2>2, <2>3
  <2>5. stage = "query" /\ query < Queries /\ Answer(query)
    BY <2>4 DEF Query
  <2>6. consumed' = consumed \cup {query}
    BY <2>3, <2>5 DEF Answer
  <2> QED BY <2>5, <2>6 DEF Query
<1>2. PICK c \in Candidates(owner) :
        LET derived == DeriveTokenAndKey(owner)
            records == {MakeRecord(o) : o \in c}
            correct == Correct(query, AuthenticatedResults(derived, records))
        IN /\ totals' = [totals EXCEPT
                !.query_successes = @ + (IF correct THEN 1 ELSE 0),
                !.candidate_records_total = @ + Cardinality(c),
                !.decrypt_component_attempts = @ + Cardinality(c \X Components)]
           /\ IF correct
              THEN query' = query + 1 /\ UNCHANGED <<stage, result>>
              ELSE End("mismatch") /\ UNCHANGED query
  BY <1>1 DEF Answer
<1>3. query \in Nat /\ query \in 0 .. KeywordCount - 1 /\ owner \in Keywords
  BY <1>1, OptionsType DEF TypeOK, Keywords
<1>4. /\ Keywords \subseteq labels
      /\ IsFiniteSet(labels)
      /\ attempt > 0
      /\ result = "none"
  <2>1. labels = Keywords \cup {Dummy(n) : n \in 1 .. dummies}
    BY <1>1 DEF CandidateInv
  <2>2. dummies \in Nat
    BY CapacityAssumption DEF TypeOK, DummyNumbers
  <2>3. IsFiniteSet({Dummy(n) : n \in 1 .. dummies})
    BY <2>2, DummiesCounted
  <2>4. attempt > 0 /\ result = "none"
    BY <1>1 DEF CandidateInv, BetweenAttempts
  <2> QED BY <2>1, <2>3, <2>4, KeywordsCounted, FS_Union
<1>5. owner \in c /\ IsFiniteSet(c)
  <2>1. c \subseteq labels /\ labels \cap {owner} \subseteq c
    BY DEF Candidates
  <2> QED BY <1>3, <1>4, <2>1, FS_Subset
<1>6. /\ Cardinality(c) \in Nat
      /\ Cardinality(c \X Components) = Cardinality(c) * DMax
  BY <1>5, AttemptsCounted
<1>7. Correct(query, AuthenticatedResults(DeriveTokenAndKey(owner),
                                          {MakeRecord(o) : o \in c}))
  BY <1>3, <1>5, AnswerExact
<1>8. /\ totals' = [totals EXCEPT
           !.query_successes = @ + 1,
           !.candidate_records_total = @ + Cardinality(c),
           !.decrypt_component_attempts = @ + Cardinality(c \X Components)]
      /\ query' = query + 1
      /\ UNCHANGED <<stage, result>>
  BY <1>2, <1>7
<1>9. query' \in 0 .. Queries
  BY <1>1, <1>3, <1>8, OptionsType
<1>10. /\ t.query_successes = query
       /\ t.candidate_records_total \in Nat
       /\ t.decrypt_component_attempts \in Nat
       /\ t.decrypt_component_attempts = t.candidate_records_total * DMax
  BY DEF TypeOK, QueryTotals, QueryInv
<1>11. t' = [query_successes |-> query + 1,
             candidate_records_total |->
               t.candidate_records_total + Cardinality(c),
             decrypt_component_attempts |->
               t.decrypt_component_attempts + Cardinality(c \X Components)]
  BY <1>8, <1>10 DEF TypeOK, QueryTotals
<1>12. QueryInv'
  <2>1. consumed' = 0 .. query' - 1
    <3>1. consumed = 0 .. query - 1
      BY DEF QueryInv
    <3>2. (0 .. query - 1) \cup {query} = 0 .. query
      BY ONLY <1>3
    <3>3. query' - 1 = query
      BY ONLY <1>3, <1>8
    <3> QED BY ONLY <1>1, <3>1, <3>2, <3>3
  <2>2. (t.candidate_records_total + Cardinality(c)) * DMax
          = t.candidate_records_total * DMax + Cardinality(c) * DMax
    BY <1>6, <1>10, OptionsType
  <2>3. t'.decrypt_component_attempts = t'.candidate_records_total * DMax
    BY <1>6, <1>10, <1>11, <2>2
  <2>4. t'.query_successes = query'
    <3>1. query' = query + 1
      BY <1>8
    <3> QED BY ONLY <1>11, <3>1
  <2> QED BY <1>4, <1>8, <2>1, <2>3, <2>4 DEF QueryInv
<1>13. TypeOK'
  <2>1. totals' \in QueryTotals
    <3>1. Cardinality(c) * DMax \in Nat
      BY <1>6, OptionsType
    <3> QED BY <1>6, <1>8, <1>9, <1>10, <1>11, <3>1 DEF QueryTotals
  <2>2. consumed' \subseteq 0 .. Queries - 1
    BY <1>1, <1>3, OptionsType DEF TypeOK
  <2> QED BY <1>1, <1>8, <1>9, <2>1, <2>2 DEF TypeOK
<1>14. EncryptionInv'
  BY <1>1, <1>8 DEF EncryptionInv
<1>15. CandidateInv'
  BY <1>1, <1>8 DEF CandidateInv, Slots, BetweenAttempts
<1>16. SumsInv'
  BY <1>1, <1>8 DEF SumsInv, Failed, Inserted, BetweenAttempts
<1> QED BY <1>12, <1>13, <1>14, <1>15, <1>16

\* The row is written: the traversal was complete.
LEMMA FinishStep ==
  ASSUME VlseInv, Finish
  PROVE  VlseInv'
<1> USE DEF VlseInv
<1>1. /\ stage = "query" /\ stage' = "end"
      /\ query = Queries
      /\ result' = IF totals.decrypt_component_attempts
                        = totals.candidate_records_total * DMax
                   THEN "row" ELSE "incomplete"
      /\ UNCHANGED <<encryptions, attempt, remaining, labels, sealed, inserted,
                     statistics, dummies, consumed, query, totals>>
  BY DEF Finish, End
<1>2. result' = "row" /\ attempt > 0 /\ ~BetweenAttempts /\ ~BetweenAttempts'
  BY <1>1 DEF QueryInv, CandidateInv, BetweenAttempts
<1>3. TypeOK'
  BY <1>1, <1>2 DEF TypeOK, Results
<1>4. EncryptionInv' /\ QueryInv'
  BY <1>1, <1>2 DEF EncryptionInv, QueryInv
<1>5. CandidateInv'
  BY <1>1, <1>2 DEF CandidateInv, Slots
<1>6. SumsInv'
  BY <1>1, <1>2 DEF SumsInv, Failed, Inserted
<1> QED BY <1>3, <1>4, <1>5, <1>6

-----------------------------------------------------------------------------
(* The theorems.                                                           *)

\* Every step of the run keeps the invariant.
LEMMA VlseStep == VlseInv /\ [Next]_vars => VlseInv'
<1> SUFFICES ASSUME VlseInv, [Next]_vars PROVE VlseInv'
  OBVIOUS
<1>1. CASE EncryptGenuine
  BY <1>1, EncryptGenuineStep
<1>2. CASE BeginAttempt
  BY <1>2, BeginAttemptStep
<1>3. CASE \E k \in Keywords : InsertRecord(k)
  BY <1>3, InsertRecordStep
<1>4. CASE \E k \in Keywords : RefuseRecord(k)
  BY <1>4, RefuseRecordStep
<1>5. CASE AcceptCandidate
  BY <1>5, AcceptCandidateStep
<1>6. CASE SetupExhausted
  BY <1>6, SetupExhaustedStep
<1>7. CASE GenerateDummy
  BY <1>7, GenerateDummyStep
<1>8. CASE Padded
  BY <1>8, PaddedStep
<1>9. CASE PadThrows
  BY <1>9, PadThrowsStep
<1>10. CASE Query
  BY <1>10, QueryStep
<1>11. CASE Finish
  BY <1>11, FinishStep
<1>12. CASE EncryptThrows
  BY <1>12, EncryptThrowsStep
<1>13. CASE UNCHANGED vars \/ Terminated
  <2>1. UNCHANGED vars
    BY <1>13 DEF Terminated
  <2>2. TypeOK' /\ EncryptionInv'
    BY <2>1 DEF vars, VlseInv, TypeOK, EncryptionInv
  <2>3. CandidateInv' /\ QueryInv'
    BY <2>1 DEF vars, VlseInv, CandidateInv, QueryInv, Slots
  <2>4. SumsInv'
    BY <2>1 DEF vars, VlseInv, SumsInv, BetweenAttempts, Failed, Inserted
  <2> QED BY <2>2, <2>3, <2>4 DEF VlseInv
<1> QED BY <1>1, <1>2, <1>3, <1>4, <1>5, <1>6, <1>7, <1>8, <1>9, <1>10, <1>11,
           <1>12, <1>13 DEF Next

\* The invariant holds throughout every run.
THEOREM VlseInvariant == Spec => []VlseInv
BY VlseInit, VlseStep, PTL DEF Spec

\* Every variable has its type, and the candidate index, with the dummies
\* made for it, never exceeds the slots of its layout.
THEOREM VlseTypes == Spec => []TypeOK
<1>1. VlseInv => TypeOK
  BY DEF VlseInv
<1> QED BY <1>1, VlseInvariant, PTL

\* No two encryptions of a run have key and nonce in common, in however many
\* attempts setup lays the index out.
THEOREM LabelsEncryptedOnce == Spec => []EncryptedOnce
<1>1. VlseInv => EncryptedOnce
  <2> SUFFICES ASSUME VlseInv PROVE EncryptedOnce
    OBVIOUS
  <2> DEFINE owners == {o \in DOMAIN encryptions : encryptions[o] > 0}
             labelled(o, j) == <<DeriveTokenAndKey(o).key, MakeComponentNonce(j)>>
             used == {<<l.key, l.nonce>> :
                        l \in {MakeRecord(o)[j] : o \in owners, j \in Components}}
             F == [x \in owners \X Components |-> labelled(x[1], x[2])]
  <2>1. /\ DOMAIN encryptions = Keywords \cup Dummies
        /\ \A o \in DOMAIN encryptions : encryptions[o] \in {0, 1}
    BY DEF VlseInv, TypeOK, EncryptionInv, Dummies
  <2>2. \A o \in owners : encryptions[o] = 1
    BY <2>1
  <2>3. IsFiniteSet(owners)
    <3>1. DummyNumbers \subseteq Nat /\ dummies \in Nat
      BY CapacityAssumption DEF VlseInv, TypeOK, DummyNumbers
    <3>2. owners \subseteq Keywords \cup {Dummy(n) : n \in 1 .. dummies}
      <4> SUFFICES ASSUME NEW o \in owners, o \notin Keywords
                   PROVE  \E n \in 1 .. dummies : o = Dummy(n)
        OBVIOUS
      <4>1. PICK n \in DummyNumbers : o = Dummy(n)
        BY <2>1 DEF Dummies
      <4>2. n <= dummies
        BY <4>1 DEF VlseInv, EncryptionInv
      <4>3. n >= 1
        BY CapacityAssumption DEF DummyNumbers
      <4> QED BY <3>1, <4>1, <4>2, <4>3
    <3> QED BY <3>1, <3>2, KeywordsCounted, DummiesCounted, FS_Union, FS_Subset
  <2>4. \A o \in owners, j \in Components :
          <<MakeRecord(o)[j].key, MakeRecord(o)[j].nonce>> = labelled(o, j)
    BY DEF MakeRecord, EncryptLabel
  <2>5. used = {labelled(o, j) : o \in owners, j \in Components}
    BY <2>4
  <2>6. \A o, p \in owners, j, h \in Components :
          labelled(o, j) = labelled(p, h) => o = p /\ j = h
    BY OptionsType DEF DeriveTokenAndKey, DomainHash, MakeComponentNonce, Components
  <2> HIDE DEF owners, used, labelled
  <2>7. F \in [owners \X Components -> used]
        /\ \A u \in used : \E x \in owners \X Components : F[x] = u
    <3>1. \A x \in owners \X Components : labelled(x[1], x[2]) \in used
      BY <2>5
    <3>2. ASSUME NEW u \in used
          PROVE  \E x \in owners \X Components : F[x] = u
      <4>1. PICK o \in owners, j \in Components : u = labelled(o, j)
        BY <2>5
      <4>2. <<o, j>> \in owners \X Components /\ F[<<o, j>>] = u
        BY <4>1
      <4> QED BY <4>2
    <3> QED BY <3>1, <3>2
  <2>8. \A x, y \in owners \X Components : F[x] = F[y] => x = y
    BY <2>6
  <2> HIDE DEF F
  <2>9. F \in Bijection(owners \X Components, used)
    BY <2>7, <2>8 DEF Bijection, Injection, Surjection, IsInjective
  <2>10. IsFiniteSet(owners \X Components)
         /\ Cardinality(owners \X Components) = Cardinality(owners) * DMax
    <3>1. IsFiniteSet(Components)
      BY OptionsType, FS_Interval DEF Components
    <3> QED BY <2>3, <3>1, FS_Product, AttemptsCounted
  <2>11. Cardinality(used) = Cardinality(owners) * DMax
    BY <2>9, <2>10, FS_Bijection DEF ExistsBijection
  <2> QED BY <2>2, <2>11 DEF EncryptedOnce, owners, used
<1> QED BY <1>1, VlseInvariant, PTL

\* The index that is queried holds the record of every keyword and the
\* dummies that padded this attempt to its capacity, nothing of the attempts
\* before.
THEOREM QueriedIndexComplete == Spec => []IndexComplete
<1>1. VlseInv => IndexComplete
  <2> SUFFICES ASSUME VlseInv, stage = "query" \/ result = "row"
               PROVE  /\ sealed
                      /\ Keywords \subseteq labels
                      /\ labels \ Keywords = {Dummy(n) : n \in 1 .. dummies}
                      /\ Cardinality(labels) = Capacity(ScheduledItems(attempt - 1))
    BY DEF IndexComplete
  <2>1. /\ sealed
        /\ labels = Keywords \cup {Dummy(n) : n \in 1 .. dummies}
        /\ Cardinality(labels) = Slots
    BY DEF VlseInv, CandidateInv
  <2> QED BY <2>1, OwnersDiffer DEF Slots
<1> QED BY <1>1, VlseInvariant, PTL

\* No query is answered with anything but its keyword's documents.
THEOREM QueriesAnsweredExactly == Spec => []AnswersExact
<1>1. VlseInv => AnswersExact
  BY DEF VlseInv, QueryInv, AnswersExact
<1> QED BY <1>1, VlseInvariant, PTL

\* The row adds up: its dummies to the capacity, its successes to the
\* queries, its failed inserts to the attempts before the last.
THEOREM RowAddsUp == Spec => []RowAccepted
<1>1. VlseInv => RowAccepted
  <2> SUFFICES ASSUME VlseInv, result = "row"
               PROVE  RowAccepted
    BY DEF RowAccepted
  <2>1. /\ KeywordCount + dummies = Slots
        /\ remaining = {}
        /\ stage = "end"
        /\ totals.query_successes = Queries
    BY DEF VlseInv, CandidateInv, QueryInv
  <2>2. Failed = attempt - 1 /\ Inserted = KeywordCount
    <3>1. attempt > 0 /\ attempt \in 0 .. MaxAttempts
      BY DEF VlseInv, TypeOK, CandidateInv
    <3>2. ~BetweenAttempts
      BY <2>1, <3>1, OptionsType DEF BetweenAttempts
    <3> QED BY <2>1, <3>2, OptionsType, FS_EmptySet DEF Failed, Inserted
  <2>3. /\ statistics.failed_setup_attempts = attempt - 1
        /\ statistics.failed_inserts = attempt - 1
        /\ statistics.successful_inserts >= KeywordCount
        /\ statistics.successful_inserts
             <= (attempt - 1) * (KeywordCount - 1) + KeywordCount
    BY <2>2 DEF VlseInv, SumsInv
  <2>4. (attempt - 1) * (KeywordCount - 1) \in Int
    BY OptionsType DEF VlseInv, TypeOK
  <2>5. (attempt - 1) * (KeywordCount - 1) + KeywordCount
          = KeywordCount + (attempt - 1) * (KeywordCount - 1)
    BY <2>4, OptionsType
  <2> QED BY <2>1, <2>3, <2>5 DEF RowAccepted, Slots
<1> QED BY <1>1, VlseInvariant, PTL
=============================================================================
