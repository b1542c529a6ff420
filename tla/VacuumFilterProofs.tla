------------------------- MODULE VacuumFilterProofs -------------------------
(***************************************************************************)
(* Proofs about VacuumFilter, for every table size, every set of keys and  *)
(* every chain limit that its assumptions allow: a rollback restores the   *)
(* table, chains, rollbacks and padding leave each genuine record in one   *)
(* of its two candidate buckets, and only full buckets refuse; no record   *)
(* is lost, doubled or counted wrongly; and VacuumFilter implements        *)
(* LabelIndex.                                                             *)
(***************************************************************************)
EXTENDS VacuumFilter, FiniteSetTheorems, SequenceTheorems, TLAPS

-----------------------------------------------------------------------------
(* Bucket contents: finite, and closed under what the steps do to them.    *)

\* There are finitely many records.
LEMMA RecordFinite == IsFiniteSet(Record)
<1> DEFINE P == Keys \cup DummyPayloads
           Pairs == Fingerprints \X P
           F == [p \in Pairs |-> [fingerprint |-> p[1], payload |-> p[2]]]
<1>1. IsFiniteSet(Buckets) /\ IsFiniteSet(1 .. SlotsPerBucket)
  BY FS_Interval, SizeAssumption DEF Buckets
<1>2. IsFiniteSet(DummyPayloads)
  BY <1>1, FS_Product DEF DummyPayloads
<1>3. IsFiniteSet(P)
  BY <1>2, KeyAssumption, FS_Union
<1>4. IsFiniteSet(Pairs)
  BY <1>3, FingerprintAssumption, FS_Product
<1>5. F \in Surjection(Pairs, Record)
  <2>1. F \in [Pairs -> Record]
    BY DEF Record
  <2>2. ASSUME NEW r \in Record
        PROVE  \E p \in Pairs : F[p] = r
    <3>1. <<r.fingerprint, r.payload>> \in Pairs
      BY DEF Record
    <3>2. F[<<r.fingerprint, r.payload>>] = r
      BY <3>1 DEF Record
    <3> QED BY <3>1, <3>2
  <2> QED BY <2>1, <2>2 DEF Surjection
<1> QED BY <1>4, <1>5, FS_Surjection

\* A bucket's contents are a finite set of records.
LEMMA ContentsFinite ==
  ASSUME NEW s \in Contents
  PROVE  /\ IsFiniteSet(s)
         /\ Cardinality(s) \in Nat
         /\ s \subseteq Record
         /\ Cardinality(s) <= SlotsPerBucket
BY RecordFinite, FS_Subset, FS_CardinalityType DEF Contents

\* The empty bucket.
LEMMA ContentsEmpty == {} \in Contents
BY FS_EmptySet, SizeAssumption DEF Contents

\* A record put into a bucket with a free slot.
LEMMA ContentsAdd ==
  ASSUME NEW s \in Contents, NEW r \in Record, Cardinality(s) < SlotsPerBucket
  PROVE  s \cup {r} \in Contents
<1> DEFINE n == Cardinality(s)
<1>0. IsFiniteSet(s) /\ n \in Nat
  BY ContentsFinite
<1>1. /\ IsFiniteSet(s \cup {r})
      /\ Cardinality(s \cup {r}) <= n + 1
  <2>1. /\ IsFiniteSet(s \cup {r})
        /\ Cardinality(s \cup {r}) = IF r \in s THEN n ELSE n + 1
    BY <1>0, FS_AddElement
  <2> HIDE DEF n
  <2> QED BY <1>0, <2>1
<1>2. Cardinality(s \cup {r}) \in Nat
  BY <1>1, FS_CardinalityType
<1>3. Cardinality(s \cup {r}) <= SlotsPerBucket
  BY <1>1, <1>2, ContentsFinite, SizeAssumption
<1> QED BY <1>3, ContentsFinite DEF Contents

\* A record that takes another's slot.
LEMMA ContentsSwap ==
  ASSUME NEW s \in Contents, NEW r \in Record, NEW v \in s
  PROVE  (s \ {v}) \cup {r} \in Contents
<1>1. /\ IsFiniteSet(s \ {v})
      /\ Cardinality(s \ {v}) = Cardinality(s) - 1
      /\ Cardinality(s \ {v}) \in Nat
  BY ContentsFinite, FS_RemoveElement, FS_CardinalityType
<1>2. Cardinality((s \ {v}) \cup {r}) <= Cardinality(s)
  <2>1. Cardinality((s \ {v}) \cup {r}) <= Cardinality(s \ {v}) + 1
    BY <1>1, FS_AddElement
  <2> QED BY <1>1, <2>1, ContentsFinite
<1>3. Cardinality((s \ {v}) \cup {r}) \in Nat
  BY <1>1, FS_AddElement, FS_CardinalityType
<1> QED BY <1>2, <1>3, ContentsFinite, SizeAssumption DEF Contents

\* The dummies made for n free slots of a bucket are at most n records.
LEMMA DummiesBounded ==
  ASSUME NEW b \in Buckets, NEW n \in 0 .. SlotsPerBucket,
         NEW D \in DummiesFor(b, n)
  PROVE  /\ D \subseteq DummyRecords
         /\ D \subseteq Record
         /\ IsFiniteSet(D)
         /\ Cardinality(D) <= n
         /\ \A r \in D : r.payload \in DummyPayloads /\ r.payload[1] = b
<1>1. PICK f \in [1 .. n -> DummyFingerprints] :
         D = {[fingerprint |-> f[i], payload |-> <<b, i>>] : i \in 1 .. n}
  BY DEF DummiesFor
<1>2. \A i \in 1 .. n : <<b, i>> \in DummyPayloads
  BY SizeAssumption DEF DummyPayloads
<1>3. D \subseteq DummyRecords
  BY <1>1, <1>2 DEF DummyRecords
<1>4. DummyRecords \subseteq Record
  BY FingerprintAssumption DEF DummyRecords, Record
<1>5. [i \in 1 .. n |-> [fingerprint |-> f[i], payload |-> <<b, i>>]]
        \in Surjection(1 .. n, D)
  BY <1>1 DEF Surjection
<1>6. IsFiniteSet(1 .. n) /\ Cardinality(1 .. n) = n
  BY FS_Interval
<1>7. IsFiniteSet(D) /\ Cardinality(D) <= n
  BY <1>5, <1>6, FS_Surjection
<1>8. \A r \in D : r.payload \in DummyPayloads /\ r.payload[1] = b
  BY <1>1, <1>2
<1> QED BY <1>3, <1>4, <1>7, <1>8

\* A bucket padded to its last slot.
LEMMA ContentsPad ==
  ASSUME NEW b \in Buckets, NEW s \in Contents,
         NEW D \in DummiesFor(b, SlotsPerBucket - Cardinality(s))
  PROVE  s \cup D \in Contents
<1>1. SlotsPerBucket - Cardinality(s) \in 0 .. SlotsPerBucket
  BY ContentsFinite, SizeAssumption
<1>2. /\ D \subseteq Record
      /\ IsFiniteSet(D)
      /\ Cardinality(D) <= SlotsPerBucket - Cardinality(s)
  BY <1>1, DummiesBounded
<1>3. /\ Cardinality(s \cup D)
           = Cardinality(s) + Cardinality(D) - Cardinality(s \cap D)
      /\ Cardinality(s \cap D) \in Nat
      /\ Cardinality(D) \in Nat
  BY <1>2, ContentsFinite, FS_Union, FS_Intersection, FS_CardinalityType
<1>4. Cardinality(s \cup D) <= SlotsPerBucket
  BY <1>1, <1>2, <1>3, ContentsFinite, SizeAssumption
<1> QED BY <1>2, <1>4, ContentsFinite DEF Contents

-----------------------------------------------------------------------------
(* Types.                                                                  *)

\* The record of a key is genuine, and its candidates are buckets.
LEMMA RecordOfType ==
  ASSUME NEW k \in Keys
  PROVE  /\ RecordOf(k) \in GenuineRecords
         /\ RecordOf(k) \in Record
         /\ CandidateBuckets(k) \subseteq Buckets
<1>1. RecordOf(k) \in GenuineRecords
  BY DEF GenuineRecords
<1>2. FingerprintOf[k] \in Fingerprints /\ FirstBucket[k] \in Buckets
  BY FingerprintAssumption
<1>3. RecordOf(k) \in Record
  BY <1>2 DEF RecordOf, Record
<1>4. SecondBucket(k) \in Buckets
  BY <1>2, AlternateAssumption DEF SecondBucket
<1> QED BY <1>1, <1>2, <1>3, <1>4 DEF CandidateBuckets

\* A write appended to a journal keeps it one.
LEMMA JournalWriteType ==
  ASSUME NEW j \in Seq(Snapshot), NEW b \in Buckets, NEW s \in Contents
  PROVE  /\ JournalWrite(j, b, s) \in Seq(Snapshot)
         /\ Len(JournalWrite(j, b, s)) = Len(j) + 1
         /\ \A i \in 1 .. Len(j) : JournalWrite(j, b, s)[i] = j[i]
         /\ JournalWrite(j, b, s)[Len(j) + 1] = [bucket |-> b, snapshot |-> s]
<1>1. [bucket |-> b, snapshot |-> s] \in Snapshot
  BY DEF Snapshot
<1> QED BY <1>1, AppendProperties DEF JournalWrite

\* Unwinding takes a journal's last write off it.
LEMMA UnwindType ==
  ASSUME NEW j \in Seq(Snapshot), j # <<>>
  PROVE  /\ Unwind(j).write = j[Len(j)]
         /\ Unwind(j).write \in Snapshot
         /\ Unwind(j).rest \in Seq(Snapshot)
         /\ Len(j) \in Nat \ {0}
         /\ Len(Unwind(j).rest) = Len(j) - 1
         /\ \A i \in 1 .. Len(j) - 1 : Unwind(j).rest[i] = j[i]
<1>1. Len(j) \in Nat \ {0}
  BY EmptySeq
<1>2. \A i \in 1 .. Len(j) : j[i] \in Snapshot
  BY ElementOfSeq
<1>3. \A i \in 1 .. Len(j) - 1 : j[i] \in Snapshot
  BY <1>1, <1>2
<1>4. /\ SubSeq(j, 1, Len(j) - 1) \in Seq(Snapshot)
      /\ Len(SubSeq(j, 1, Len(j) - 1)) = Len(j) - 1
      /\ \A i \in 1 .. Len(j) - 1 : SubSeq(j, 1, Len(j) - 1)[i] = j[i]
  <2>1. Len(j) - 1 \in Nat
    BY <1>1
  <2> DEFINE n == Len(j) - 1
  <2> HIDE DEF n
  <2>2. n \in Nat /\ \A i \in 1 .. n : j[i] \in Snapshot
    BY <1>3, <2>1 DEF n
  <2>3. /\ SubSeq(j, 1, n) \in Seq(Snapshot)
        /\ Len(SubSeq(j, 1, n)) = n
        /\ \A i \in 1 .. n : SubSeq(j, 1, n)[i] = j[i]
    BY <2>2, SubSeqProperties
  <2> QED BY <2>3 DEF n
<1>5. /\ Unwind(j).write = j[Len(j)]
      /\ Unwind(j).rest = SubSeq(j, 1, Len(j) - 1)
  BY DEF Unwind
<1>6. j[Len(j)] \in Snapshot
  BY <1>1, <1>2
<1> QED BY <1>1, <1>4, <1>5, <1>6

\* The counters stay counters.
LEMMA StatisticsType ==
  ASSUME statistics \in Statistics, chain_length \in Nat
  PROVE  /\ [statistics EXCEPT !.failed_inserts = @ + 1] \in Statistics
         /\ \A steps \in Nat : CountSuccess(steps) => statistics' \in Statistics
         /\ CountRollBack => statistics' \in Statistics
<1>1. \A m, n \in Nat : Larger(m, n) \in Nat
  BY DEF Larger
<1>2. [statistics EXCEPT !.failed_inserts = @ + 1] \in Statistics
  BY DEF Statistics
<1>3. ASSUME NEW steps \in Nat, CountSuccess(steps)
      PROVE  statistics' \in Statistics
  <2> DEFINE m == Larger(statistics.maximum_eviction_chain, steps)
  <2>1. m \in Nat
    BY <1>1 DEF Statistics
  <2>2. statistics' = [statistics EXCEPT !.successful_inserts = @ + 1,
                                         !.eviction_steps = @ + steps,
                                         !.maximum_eviction_chain = m]
    BY <1>3 DEF CountSuccess
  <2> HIDE DEF m
  <2>3. statistics' =
          [successful_inserts |-> statistics.successful_inserts + 1,
           failed_inserts |-> statistics.failed_inserts,
           eviction_steps |-> statistics.eviction_steps + steps,
           rollback_count |-> statistics.rollback_count,
           maximum_eviction_chain |-> m]
    BY <2>2 DEF Statistics
  <2> QED BY <2>1, <2>3 DEF Statistics
<1>4. ASSUME CountRollBack
      PROVE  statistics' \in Statistics
  <2> DEFINE m == Larger(statistics.maximum_eviction_chain, chain_length)
  <2>1. m \in Nat
    BY <1>1 DEF Statistics
  <2>2. statistics' = [statistics EXCEPT !.failed_inserts = @ + 1,
                                         !.rollback_count = @ + 1,
                                         !.eviction_steps = @ + chain_length,
                                         !.maximum_eviction_chain = m]
    BY <1>4 DEF CountRollBack
  <2> HIDE DEF m
  <2>3. statistics' =
          [successful_inserts |-> statistics.successful_inserts,
           failed_inserts |-> statistics.failed_inserts + 1,
           eviction_steps |-> statistics.eviction_steps + chain_length,
           rollback_count |-> statistics.rollback_count + 1,
           maximum_eviction_chain |-> m]
    BY <2>2 DEF Statistics
  <2> QED BY <2>1, <2>3 DEF Statistics
<1> QED BY <1>2, <1>3, <1>4

\* Every action keeps the types, given what Stages says of the locals.
LEMMA TypeStep ==
  ASSUME TypeOK, Stages, [Next]_vars
  PROVE  TypeOK'
<1> USE DEF TypeOK
<1>1. ASSUME NEW k \in Keys, InsertAtCapacity(k)
      PROVE  TypeOK'
  BY <1>1, StatisticsType, SizeAssumption DEF InsertAtCapacity, Return, Buckets
<1>2. ASSUME NEW k \in Keys, InsertDirectly(k)
      PROVE  TypeOK'
  <2>1. Destination(k) \in Buckets
    BY RecordOfType DEF Destination, CandidateBuckets
  <2>2. table[Destination(k)] \cup {RecordOf(k)} \in Contents
    <3>1. Cardinality(table[Destination(k)]) < SlotsPerBucket
      BY <1>2, <2>1, ContentsFinite, SizeAssumption
         DEF InsertDirectly, Full, Occupied
    <3> QED BY <2>1, <3>1, RecordOfType, ContentsAdd
  <2>3. table' \in [Buckets -> Contents]
    BY <1>2, <2>2 DEF InsertDirectly
  <2>4. statistics' \in Statistics
    BY <1>2, StatisticsType DEF InsertDirectly
  <2> QED BY <1>2, <2>3, <2>4, SizeAssumption
          DEF InsertDirectly, Return, Buckets
<1>3. ASSUME NEW b \in Buckets, NEW r \in Record, NEW v \in table[b],
             SwapInto(b, r, v)
      PROVE  /\ table' \in [Buckets -> Contents]
             /\ carried' \in Record
             /\ current_bucket' \in Buckets
             /\ journal' \in Seq(Snapshot)
  <2>1. v \in Record
    BY ContentsFinite
  <2>2. (table[b] \ {v}) \cup {r} \in Contents
    BY ContentsSwap
  <2>3. journal' \in Seq(Snapshot)
    BY <1>3, JournalWriteType DEF SwapInto
  <2>4. current_bucket' \in Buckets
    BY <1>3, <2>1, AlternateAssumption DEF SwapInto, Record
  <2> QED BY <1>3, <2>1, <2>2, <2>3, <2>4 DEF SwapInto
<1>4. ASSUME NEW k \in Keys, InsertByEviction(k)
      PROVE  TypeOK'
  <2>1. PICK b \in CandidateBuckets(k) :
          \E v \in table[b] : SwapInto(b, RecordOf(k), v)
    BY <1>4 DEF InsertByEviction
  <2>2. /\ table' \in [Buckets -> Contents]
        /\ carried' \in Record
        /\ current_bucket' \in Buckets
        /\ journal' \in Seq(Snapshot)
    BY <1>3, <2>1, RecordOfType
  <2> QED BY <1>4, <2>2, RecordOfType, SizeAssumption DEF InsertByEviction
<1>5. CASE ChainPlace
  <2>1. table[current_bucket] \cup {carried} \in Contents
    <3>1. carried \in Record
      BY <1>5 DEF ChainPlace, InChain, Stages
    <3>2. Cardinality(table[current_bucket]) < SlotsPerBucket
      BY <1>5, ContentsFinite, SizeAssumption DEF ChainPlace, Full, Occupied
    <3> QED BY <3>1, <3>2, ContentsAdd
  <2>2. journal' \in Seq(Snapshot)
    BY <1>5, JournalWriteType DEF ChainPlace
  <2> QED BY <1>5, <2>1, <2>2 DEF ChainPlace
<1>6. CASE ChainShortcut
  <2>1. PICK m \in Movable(current_bucket) :
          /\ table' = [table EXCEPT
               ![current_bucket] = (@ \ {m}) \cup {carried},
               ![Alternate(current_bucket, m.fingerprint)] = @ \cup {m}]
          /\ journal' = JournalWrite(
               JournalWrite(journal, current_bucket, table[current_bucket]),
               Alternate(current_bucket, m.fingerprint),
               table[Alternate(current_bucket, m.fingerprint)])
    BY <1>6 DEF ChainShortcut
  <2> DEFINE n == Alternate(current_bucket, m.fingerprint)
  <2>2. m \in table[current_bucket] /\ m \in Record /\ n # current_bucket
        /\ ~Full(n)
    BY ContentsFinite DEF Movable
  <2>3. n \in Buckets
    BY <2>2, AlternateAssumption DEF Record
  <2>4. table[n] \cup {m} \in Contents
    BY <2>2, <2>3, ContentsFinite, ContentsAdd, SizeAssumption
       DEF Full, Occupied
  <2>5. (table[current_bucket] \ {m}) \cup {carried} \in Contents
    BY <1>6, <2>2, ContentsSwap DEF ChainShortcut, InChain, Stages
  <2>6. table' \in [Buckets -> Contents]
    BY <2>1, <2>2, <2>3, <2>4, <2>5
  <2>7. journal' \in Seq(Snapshot)
    BY <2>1, <2>3, JournalWriteType
  <2> QED BY <1>6, <2>6, <2>7 DEF ChainShortcut
<1>7. CASE InsertCommits
  <2>1. chain_length + 1 \in Nat /\ chain_length \in Nat
    BY SizeAssumption
  <2>2. statistics' \in Statistics
    BY <1>7, <2>1, StatisticsType DEF InsertCommits
  <2> QED BY <1>7, <2>2, SizeAssumption DEF InsertCommits, Return, Buckets
<1>8. CASE ChainEvict
  <2>1. PICK v \in table[current_bucket] : SwapInto(current_bucket, carried, v)
    BY <1>8 DEF ChainEvict
  <2>2. carried \in Record
    BY <1>8 DEF ChainEvict, InChain, Stages
  <2>3. /\ table' \in [Buckets -> Contents]
        /\ carried' \in Record
        /\ current_bucket' \in Buckets
        /\ journal' \in Seq(Snapshot)
    BY <1>3, <2>1, <2>2
  <2> QED BY <1>8, <2>3, SizeAssumption DEF ChainEvict, InChain
<1>9. CASE ChainExhausted
  BY <1>9 DEF ChainExhausted, object, locals
<1>10. CASE UndoWrite
  <2>1. Unwind(journal).write \in Snapshot /\ Unwind(journal).rest \in Seq(Snapshot)
    BY <1>10, UnwindType DEF UndoWrite
  <2>2. table' \in [Buckets -> Contents] /\ journal' \in Seq(Snapshot)
    BY <1>10, <2>1 DEF UndoWrite, Snapshot
  <2> QED BY <1>10, <2>2 DEF UndoWrite
<1>11. CASE InsertFails
  BY <1>11, StatisticsType, SizeAssumption DEF InsertFails, Return, Buckets
<1>12. CASE PadBegin
  BY <1>12 DEF PadBegin, object, locals
<1>13. CASE PadBucket
  <2>1. bucket_index \in Buckets
    BY <1>13, SizeAssumption DEF PadBucket, Buckets
  <2>2. table' \in [Buckets -> Contents]
    <3>1. PICK D \in DummiesFor(bucket_index, FreeSlots(bucket_index)) :
            table' = [table EXCEPT ![bucket_index] = @ \cup D]
      BY <1>13 DEF PadBucket
    <3>2. table[bucket_index] \cup D \in Contents
      BY <2>1, ContentsPad DEF FreeSlots, Occupied
    <3> QED BY <3>1, <3>2
  <2>3. journal' \in Seq(Snapshot)
    BY <1>13, <2>1, JournalWriteType DEF PadBucket
  <2>4. generated' \in Nat
    BY <1>13, <2>1, ContentsFinite, SizeAssumption
       DEF PadBucket, FreeSlots, Occupied
  <2> QED BY <1>13, <2>2, <2>3, <2>4, SizeAssumption DEF PadBucket
<1>14. CASE PadThrows
  BY <1>14 DEF PadThrows, object, locals
<1>15. CASE PadFails
  BY <1>15, SizeAssumption DEF PadFails, Return, object, Buckets
<1>16. CASE PadCommit
  BY <1>16, SizeAssumption DEF PadCommit, Return, Buckets
<1>17. CASE UNCHANGED vars
  BY <1>17 DEF vars, object, locals
<1> QED
  BY <1>1, <1>2, <1>4, <1>5, <1>6, <1>7, <1>8, <1>9, <1>10, <1>11, <1>12,
     <1>13, <1>14, <1>15, <1>16, <1>17 DEF Next, Call, Continue

-----------------------------------------------------------------------------
(* The journal.                                                            *)

\* Every action keeps what Stages says.
LEMMA StagesStep ==
  ASSUME TypeOK, Stages, [Next]_vars
  PROVE  Stages'
<1> USE DEF Stages
<1>0. Len(journal) \in Nat
  BY LenProperties DEF TypeOK
<1>1. ASSUME NEW k \in Keys, InsertAtCapacity(k)
      PROVE  Stages'
  BY <1>1 DEF InsertAtCapacity, Return
<1>2. ASSUME NEW k \in Keys, InsertDirectly(k)
      PROVE  Stages'
  BY <1>2 DEF InsertDirectly, Return
<1>3. ASSUME NEW k \in Keys, InsertByEviction(k)
      PROVE  Stages'
  <2>1. PICK b \in CandidateBuckets(k) :
          \E v \in table[b] : SwapInto(b, RecordOf(k), v)
    BY <1>3 DEF InsertByEviction
  <2>2. journal = <<>> /\ Len(journal) = 0
    BY <1>3 DEF InsertByEviction, MayInsert
  <2>3. b \in Buckets /\ \A v \in table[b] : v \in Record
    BY RecordOfType, ContentsFinite DEF TypeOK
  <2>4. carried' \in Record
    BY <2>1, <2>3 DEF SwapInto
  <2>5. journal' = JournalWrite(journal, b, table[b])
    BY <2>1 DEF SwapInto
  <2>6. Len(journal') = 1
    <3>1. Len(JournalWrite(journal, b, table[b])) = Len(journal) + 1
      BY <2>3, JournalWriteType DEF TypeOK
    <3> QED BY <2>2, <2>5, <3>1
  <2> QED BY <1>3, <2>4, <2>6, RecordOfType DEF InsertByEviction
<1>4. CASE ChainPlace
  <2>1. Len(journal') = Len(journal) + 1
    BY <1>4, JournalWriteType DEF ChainPlace, TypeOK
  <2> QED BY <1>4, <2>1, SizeAssumption DEF ChainPlace, InChain, TypeOK
<1>5. CASE ChainShortcut
  <2>1. PICK m \in Movable(current_bucket) :
          journal' = JournalWrite(
               JournalWrite(journal, current_bucket, table[current_bucket]),
               Alternate(current_bucket, m.fingerprint),
               table[Alternate(current_bucket, m.fingerprint)])
    BY <1>5 DEF ChainShortcut
  <2>2. m \in Record /\ Alternate(current_bucket, m.fingerprint) \in Buckets
    BY ContentsFinite, AlternateAssumption DEF Movable, Record, TypeOK
  <2>3. Len(journal') = Len(journal) + 2
    <3> DEFINE w == JournalWrite(journal, current_bucket, table[current_bucket])
    <3>1. w \in Seq(Snapshot) /\ Len(w) = Len(journal) + 1
      BY JournalWriteType DEF TypeOK
    <3> HIDE DEF w
    <3>2. \A b \in Buckets : Len(JournalWrite(w, b, table[b])) = Len(w) + 1
      BY <3>1, JournalWriteType DEF TypeOK
    <3> QED BY <1>0, <2>1, <2>2, <3>1, <3>2 DEF w
  <2> QED BY <1>5, <2>3, SizeAssumption DEF ChainShortcut, InChain, TypeOK
<1>6. CASE InsertCommits
  BY <1>6 DEF InsertCommits, Return
<1>7. CASE ChainEvict
  <2>1. PICK v \in table[current_bucket] : SwapInto(current_bucket, carried, v)
    BY <1>7 DEF ChainEvict
  <2>2. v \in Record
    BY ContentsFinite DEF TypeOK
  <2>3. carried' \in Record /\ Len(journal') = Len(journal) + 1
    BY <2>1, <2>2, JournalWriteType DEF SwapInto, TypeOK
  <2> QED BY <1>7, <2>3 DEF ChainEvict, InChain, TypeOK
<1>8. CASE ChainExhausted
  BY <1>8, SizeAssumption DEF ChainExhausted, object, locals, TypeOK
<1>9. CASE UndoWrite
  <2>1. Len(journal') = Len(journal) - 1
    BY <1>9, UnwindType DEF UndoWrite, TypeOK
  <2> QED BY <1>0, <1>9, <2>1, SizeAssumption DEF UndoWrite
<1>10. CASE InsertFails
  BY <1>10 DEF InsertFails, Return
<1>11. CASE PadBegin
  BY <1>11 DEF PadBegin, object, locals
<1>12. CASE PadBucket
  <2>1. bucket_index \in Buckets
    BY <1>12, SizeAssumption DEF PadBucket, Buckets, TypeOK
  <2>2. Len(JournalWrite(journal, bucket_index, table[bucket_index]))
          = Len(journal) + 1
    BY <2>1, JournalWriteType DEF TypeOK
  <2>3. Len(journal') \in {Len(journal), Len(journal) + 1}
    BY <1>12, <2>2 DEF PadBucket
  <2> QED BY <1>0, <1>12, <2>3 DEF PadBucket, TypeOK
<1>13. CASE PadThrows
  BY <1>0, <1>13, SizeAssumption DEF PadThrows, object, locals, TypeOK
<1>14. CASE PadFails
  BY <1>14 DEF PadFails, Return
<1>15. CASE PadCommit
  BY <1>15 DEF PadCommit, Return
<1>16. CASE UNCHANGED vars
  BY <1>16 DEF vars, object, locals
<1> QED
  BY <1>1, <1>2, <1>3, <1>4, <1>5, <1>6, <1>7, <1>8, <1>9, <1>10, <1>11,
     <1>12, <1>13, <1>14, <1>15, <1>16 DEF Next, Call, Continue

\* An empty journal leads from a table to itself, and to no other.
LEMMA CoversEmpty ==
  ASSUME NEW t \in [Buckets -> Contents], NEW c \in [Buckets -> Contents]
  PROVE  Covers(<<>>, t, c) <=> t = c
<1> DEFINE n == Len(<<>>)
<1>1. n = 0
  BY EmptySeq
<1> HIDE DEF n
<1>2. ASSUME t = c PROVE Covers(<<>>, t, c)
  <2>1. \A i \in 1 .. n : FALSE
    BY <1>1
  <2> QED BY <1>2, <2>1 DEF Covers, n
<1>3. ASSUME Covers(<<>>, t, c) PROVE t = c
  <2>1. \A i \in 1 .. n : FALSE
    BY <1>1
  <2>2. \A b \in Buckets : t[b] = c[b]
    BY <1>3, <2>1, Zenon DEF Covers, n
  <2> QED BY <2>2
<1> QED BY <1>2, <1>3

\* A write that saves what it overwrites leads back to where the journal led.
LEMMA CoversWrite ==
  ASSUME NEW j \in Seq(Snapshot), NEW t \in [Buckets -> Contents], NEW c,
         NEW b \in Buckets, NEW x, Covers(j, t, c)
  PROVE  Covers(JournalWrite(j, b, t[b]), [t EXCEPT ![b] = x], c)
<1> DEFINE n == Len(j)
           w == JournalWrite(j, b, t[b])
<1>1. /\ n \in Nat
      /\ Len(w) = n + 1
      /\ \A i \in 1 .. n : w[i] = j[i]
      /\ w[n + 1].bucket = b
      /\ w[n + 1].snapshot = t[b]
  <2>1. t[b] \in Contents /\ n \in Nat
    BY LenProperties
  <2>2. /\ Len(w) = n + 1
        /\ \A i \in 1 .. n : w[i] = j[i]
        /\ w[n + 1] = [bucket |-> b, snapshot |-> t[b]]
    BY <2>1, JournalWriteType
  <2> QED BY <2>1, <2>2
<1> HIDE DEF n, w
<1>2. ASSUME NEW d \in Buckets, \A i \in 1 .. n + 1 : w[i].bucket # d
      PROVE  [t EXCEPT ![b] = x][d] = c[d]
  <2>1. d # b
    BY <1>1, <1>2
  <2>2. \A i \in 1 .. n : j[i].bucket # d
    BY <1>1, <1>2
  <2> QED BY <2>1, <2>2 DEF Covers, n
<1>3. ASSUME NEW d \in Buckets, NEW i \in 1 .. n + 1,
             w[i].bucket = d, \A h \in 1 .. i - 1 : w[h].bucket # d
      PROVE  w[i].snapshot = c[d]
  <2>1. CASE i = n + 1
    <3>1. \A h \in 1 .. n : j[h].bucket # b
      BY <1>1, <1>3, <2>1
    <3> QED BY <1>1, <1>3, <2>1, <3>1 DEF Covers, n
  <2>2. CASE i # n + 1
    <3>1. i \in 1 .. n /\ \A h \in 1 .. i - 1 : h \in 1 .. n
      BY <1>1, <2>2
    <3>2. j[i].bucket = d /\ \A h \in 1 .. i - 1 : j[h].bucket # d
      BY <1>1, <1>3, <3>1
    <3> QED BY <1>1, <3>1, <3>2 DEF Covers, n
  <2> QED BY <2>1, <2>2
<1> QED BY <1>1, <1>2, <1>3 DEF Covers, w

\* One write of the rollback leads back to where the journal led.
LEMMA CoversUnwind ==
  ASSUME NEW j \in Seq(Snapshot), j # <<>>,
         NEW t \in [Buckets -> Contents], NEW c, Covers(j, t, c)
  PROVE  Covers(Unwind(j).rest,
                [t EXCEPT ![Unwind(j).write.bucket] = Unwind(j).write.snapshot],
                c)
<1> DEFINE n == Len(j)
           r == Unwind(j).rest
           b == j[n].bucket
           u == [t EXCEPT ![b] = j[n].snapshot]
<1>1. /\ n \in Nat \ {0}
      /\ Len(r) = n - 1
      /\ \A i \in 1 .. n - 1 : r[i] = j[i]
      /\ Unwind(j).write = j[n]
  BY UnwindType
<1> HIDE DEF n, r
<1>2. ASSUME NEW d \in Buckets, \A i \in 1 .. n - 1 : r[i].bucket # d
      PROVE  u[d] = c[d]
  <2>1. \A i \in 1 .. n - 1 : j[i].bucket # d
    BY <1>1, <1>2
  <2>2. CASE d = b
    <3>1. j[n].snapshot = c[d]
      BY <1>1, <2>1, <2>2 DEF Covers, n
    <3> QED BY <2>2, <3>1
  <2>3. CASE d # b
    <3>1. \A i \in 1 .. n : j[i].bucket # d
      BY <1>1, <2>1, <2>3
    <3>2. t[d] = c[d]
      BY <3>1 DEF Covers, n
    <3> QED BY <2>3, <3>2
  <2> QED BY <2>2, <2>3
<1>3. ASSUME NEW d \in Buckets, NEW i \in 1 .. n - 1,
             r[i].bucket = d, \A h \in 1 .. i - 1 : r[h].bucket # d
      PROVE  r[i].snapshot = c[d]
  <2>1. i \in 1 .. n /\ \A h \in 1 .. i - 1 : h \in 1 .. n - 1
    BY <1>1
  <2>2. j[i].bucket = d /\ \A h \in 1 .. i - 1 : j[h].bucket # d
    BY <1>1, <1>3, <2>1
  <2>3. j[i].snapshot = c[d]
    BY <2>1, <2>2 DEF Covers, n
  <2> QED BY <1>1, <2>3
<1> QED BY <1>1, <1>2, <1>3 DEF Covers, r

\* Every action keeps the journal's way back to the committed table.
LEMMA JournalCoversStep ==
  ASSUME TypeOK, Stages, JournalCovers, [Next]_vars
  PROVE  JournalCovers'
<1> USE DEF JournalCovers
<1>0. TypeOK'
  BY TypeStep
<1>1. ASSUME NEW result, Return(result)
      PROVE  JournalCovers'
  <2>1. journal' = <<>> /\ committed' = table'
    BY <1>1 DEF Return
  <2>2. table' \in [Buckets -> Contents]
    BY <1>0 DEF TypeOK
  <2> QED BY <2>1, <2>2, CoversEmpty
<1>2. ASSUME NEW b \in Buckets, NEW x,
             journal' = JournalWrite(journal, b, table[b]),
             table' = [table EXCEPT ![b] = x], committed' = committed
      PROVE  JournalCovers'
  BY <1>2, CoversWrite DEF TypeOK
<1>3. ASSUME NEW k \in Keys, InsertAtCapacity(k)
      PROVE  JournalCovers'
  BY <1>1, <1>3 DEF InsertAtCapacity
<1>4. ASSUME NEW k \in Keys, InsertDirectly(k)
      PROVE  JournalCovers'
  BY <1>1, <1>4 DEF InsertDirectly
<1>5. ASSUME NEW k \in Keys, InsertByEviction(k)
      PROVE  JournalCovers'
  <2>1. PICK b \in CandidateBuckets(k) :
          \E v \in table[b] : SwapInto(b, RecordOf(k), v)
    BY <1>5 DEF InsertByEviction
  <2>2. b \in Buckets
    BY RecordOfType
  <2>3. committed' = committed
    BY <1>5 DEF InsertByEviction
  <2> QED BY <1>2, <2>1, <2>2, <2>3 DEF SwapInto
<1>6. CASE ChainPlace
  BY <1>2, <1>6 DEF ChainPlace, TypeOK
<1>7. CASE ChainShortcut
  <2>1. PICK m \in Movable(current_bucket) :
          /\ table' = [table EXCEPT
               ![current_bucket] = (@ \ {m}) \cup {carried},
               ![Alternate(current_bucket, m.fingerprint)] = @ \cup {m}]
          /\ journal' = JournalWrite(
               JournalWrite(journal, current_bucket, table[current_bucket]),
               Alternate(current_bucket, m.fingerprint),
               table[Alternate(current_bucket, m.fingerprint)])
    BY <1>7 DEF ChainShortcut
  <2> DEFINE c == current_bucket
             n == Alternate(c, m.fingerprint)
             s == (table[c] \ {m}) \cup {carried}
             t == [table EXCEPT ![c] = s]
             j == JournalWrite(journal, c, table[c])
  <2>2. m \in table[c] /\ m \in Record /\ n \in Buckets /\ n # c
    BY ContentsFinite, AlternateAssumption DEF Movable, TypeOK, Record
  <2>3. s \in Contents
    BY <1>7, <2>2, ContentsSwap DEF TypeOK, ChainShortcut, InChain, Stages
  <2>4. t \in [Buckets -> Contents] /\ j \in Seq(Snapshot)
    BY <2>3, JournalWriteType DEF TypeOK
  <2>5. Covers(j, t, committed)
    BY CoversWrite DEF TypeOK
  <2>6. t[n] = table[n]
    BY <2>2 DEF TypeOK
  <2>7. table' = [t EXCEPT ![n] = t[n] \cup {m}]
    BY <2>1, <2>2 DEF TypeOK
  <2>8. journal' = JournalWrite(j, n, t[n])
    BY <2>1, <2>6
  <2>9. committed' = committed
    BY <1>7 DEF ChainShortcut
  <2> HIDE DEF c, n, s, t, j
  <2> QED BY <2>2, <2>4, <2>5, <2>7, <2>8, <2>9, CoversWrite
<1>8. CASE InsertCommits
  BY <1>1, <1>8 DEF InsertCommits
<1>9. CASE ChainEvict
  <2>1. PICK v \in table[current_bucket] : SwapInto(current_bucket, carried, v)
    BY <1>9 DEF ChainEvict
  <2>2. committed' = committed
    BY <1>9 DEF ChainEvict
  <2> QED BY <1>2, <2>1, <2>2 DEF SwapInto, TypeOK
<1>10. CASE ChainExhausted
  BY <1>10 DEF ChainExhausted, object, locals
<1>11. CASE UndoWrite
  BY <1>11, CoversUnwind DEF UndoWrite, TypeOK
<1>12. CASE InsertFails
  BY <1>1, <1>12 DEF InsertFails
<1>13. CASE PadBegin
  BY <1>13 DEF PadBegin, object, locals
<1>14. CASE PadBucket
  <2>1. bucket_index \in Buckets
    BY <1>14, SizeAssumption DEF PadBucket, Buckets, TypeOK
  <2>2. PICK D \in DummiesFor(bucket_index, FreeSlots(bucket_index)) :
          table' = [table EXCEPT ![bucket_index] = @ \cup D]
    BY <1>14 DEF PadBucket
  <2>3. CASE FreeSlots(bucket_index) > 0
    BY <1>2, <1>14, <2>1, <2>2, <2>3 DEF PadBucket
  <2>4. CASE ~(FreeSlots(bucket_index) > 0)
    <3>1. FreeSlots(bucket_index) = 0
      BY <2>1, <2>4, ContentsFinite, SizeAssumption
         DEF FreeSlots, Occupied, TypeOK
    <3>2. D = {}
      BY <3>1 DEF DummiesFor
    <3>3. table' = table
      BY <2>1, <2>2, <3>2 DEF TypeOK
    <3> QED BY <1>14, <2>4, <3>3 DEF PadBucket
  <2> QED BY <2>3, <2>4
<1>15. CASE PadThrows
  BY <1>15 DEF PadThrows, object, locals
<1>16. CASE PadFails
  BY <1>1, <1>16 DEF PadFails
<1>17. CASE PadCommit
  BY <1>1, <1>17 DEF PadCommit
<1>18. CASE UNCHANGED vars
  BY <1>18 DEF vars, object, locals
<1> QED
  BY <1>3, <1>4, <1>5, <1>6, <1>7, <1>8, <1>9, <1>10, <1>11, <1>12, <1>13,
     <1>14, <1>15, <1>16, <1>17, <1>18 DEF Next, Call, Continue

-----------------------------------------------------------------------------
(* The first theorems of the specification.                                *)

\* The invariant from which the rollback follows.
RollBackInv == TypeOK /\ Stages /\ JournalCovers

\* The empty table of the constructor satisfies it.
LEMMA RollBackInit == Init => RollBackInv
<1> SUFFICES ASSUME Init PROVE RollBackInv
  OBVIOUS
<1>1. TypeOK
  <2>1. table \in [Buckets -> Contents] /\ committed \in [Buckets -> Contents]
    BY ContentsEmpty DEF Init
  <2>2. statistics \in Statistics
    BY DEF Init, Statistics
  <2>3. journal \in Seq(Snapshot)
    BY EmptySeq DEF Init
  <2>4. 0 \in Buckets /\ 0 \in 0 .. MaxEvictions /\ 0 \in 0 .. BucketCount
    BY SizeAssumption DEF Buckets
  <2>5. /\ current_bucket \in Buckets
        /\ chain_length \in 0 .. MaxEvictions
        /\ bucket_index \in 0 .. BucketCount
    BY <2>4 DEF Init
  <2> QED BY <2>1, <2>2, <2>3, <2>5 DEF Init, TypeOK
<1>2. Stages
  BY DEF Init, Stages
<1>3. JournalCovers
  BY <1>1, CoversEmpty DEF Init, JournalCovers, TypeOK
<1> QED BY <1>1, <1>2, <1>3 DEF RollBackInv

\* Every reachable state satisfies it.
THEOREM RollBackInvariant == Spec => []RollBackInv
<1>1. Init => RollBackInv
  BY RollBackInit
<1>2. RollBackInv /\ [Next]_vars => RollBackInv'
  BY TypeStep, StagesStep, JournalCoversStep DEF RollBackInv
<1> QED BY <1>1, <1>2, PTL DEF Spec

\* Types: in particular no bucket ever holds more records than it has slots.
THEOREM TypeCorrect == Spec => []TypeOK
<1>1. RollBackInv => TypeOK
  BY DEF RollBackInv
<1> QED BY <1>1, RollBackInvariant, PTL

\* The journal always leads back to the table the call found.
THEOREM JournalAlwaysCovers == Spec => []JournalCovers
<1>1. RollBackInv => JournalCovers
  BY DEF RollBackInv
<1> QED BY <1>1, RollBackInvariant, PTL

\* A call that fails leaves exactly the table it found, for every chain.
THEOREM RollBackIsExact == Spec => []RollBackRestores
<1>1. RollBackInv => RollBackRestores
  <2> SUFFICES ASSUME RollBackInv,
                      pc = "idle" \/ (pc \in {"undo_insert", "undo_pad"}
                                      /\ journal = <<>>)
               PROVE  table = committed
    BY DEF RollBackRestores
  <2>1. journal = <<>>
    BY DEF RollBackInv, Stages
  <2> QED BY <2>1, CoversEmpty DEF RollBackInv, JournalCovers, TypeOK
<1> QED BY <1>1, RollBackInvariant, PTL

\* What is reserved for a journal is enough for every chain and padding.
THEOREM JournalNeverReallocates == Spec => []JournalFitsReserve
<1>1. RollBackInv => JournalFitsReserve
  <2> SUFFICES ASSUME RollBackInv PROVE JournalFitsReserve
    OBVIOUS
  <2>1. Len(journal) \in Nat
    BY LenProperties DEF RollBackInv, TypeOK
  <2>2. pc \in {"chain", "commit", "undo_insert"} =>
          Len(journal) <= JournalReserve
    BY <2>1, SizeAssumption DEF RollBackInv, TypeOK, Stages, JournalReserve
  <2>3. pc \in {"pad", "undo_pad"} => Len(journal) <= BucketCount
    BY <2>1, SizeAssumption DEF RollBackInv, TypeOK, Stages
  <2> QED BY <2>2, <2>3 DEF JournalFitsReserve
<1> QED BY <1>1, RollBackInvariant, PTL

-----------------------------------------------------------------------------
(* Records are at home, and only full buckets refuse.                       *)

\* Every genuine record of s is at home in bucket b.
AtHome(b, s) ==
  \A r \in s : r.payload \in Keys =>
    r = RecordOf(r.payload) /\ b \in CandidateBuckets(r.payload)

\* The records of a table are at home, also those that a rollback will bring
\* back.  Until the table is padded it holds genuine records only, so that
\* no chain ever carries a dummy.
HomeInv ==
  /\ \A b \in Buckets : AtHome(b, table[b])
  /\ \A i \in 1 .. Len(journal) : AtHome(journal[i].bucket, journal[i].snapshot)
  /\ pc = "chain" => /\ carried \in GenuineRecords
                     /\ current_bucket \in CandidateBuckets(carried.payload)
  /\ pc # "idle" => ~padded
  /\ ~padded => \A b \in Buckets : committed[b] \subseteq GenuineRecords
  /\ pc \in {"chain", "commit"} =>
       \A b \in Buckets : table[b] \subseteq GenuineRecords

\* An insert in a chain found both candidates full when it was called.
FullInv ==
  pc \in {"chain", "commit", "undo_insert"} =>
    \A b \in CandidateBuckets(incoming.payload) :
      Cardinality(committed[b]) = SlotsPerBucket

-----------------------------------------------------------------------------
(* Records and their buckets.                                              *)

\* A genuine record is the record of its payload.
LEMMA GenuineRecord ==
  ASSUME NEW r \in GenuineRecords
  PROVE  /\ r \in Record
         /\ r.payload \in Keys
         /\ r = RecordOf(r.payload)
         /\ r.fingerprint = FingerprintOf[r.payload]
<1>1. PICK k \in Keys : r = RecordOf(k)
  BY DEF GenuineRecords
<1> QED BY <1>1, RecordOfType DEF RecordOf

\* From either candidate bucket of a key the alternate is a candidate too.
LEMMA AlternateCandidate ==
  ASSUME NEW k \in Keys, NEW b \in CandidateBuckets(k)
  PROVE  Alternate(b, FingerprintOf[k]) \in CandidateBuckets(k)
<1>1. FirstBucket[k] \in Buckets /\ FingerprintOf[k] \in Fingerprints
  BY FingerprintAssumption
<1>2. Alternate(Alternate(FirstBucket[k], FingerprintOf[k]), FingerprintOf[k])
        = FirstBucket[k]
  BY <1>1, AlternateAssumption
<1> QED BY <1>2 DEF CandidateBuckets, SecondBucket

\* So a genuine record that leaves a bucket it is at home in goes home.
LEMMA EvictedGoesHome ==
  ASSUME NEW b \in Buckets, NEW s, NEW v \in s,
         AtHome(b, s), v \in GenuineRecords
  PROVE  Alternate(b, v.fingerprint) \in CandidateBuckets(v.payload)
<1>1. v.payload \in Keys /\ v.fingerprint = FingerprintOf[v.payload]
  BY GenuineRecord
<1>2. b \in CandidateBuckets(v.payload)
  BY <1>1 DEF AtHome
<1> QED BY <1>1, <1>2, AlternateCandidate

\* A genuine record is at home in a bucket that is its candidate.
LEMMA AtHomeAdd ==
  ASSUME NEW b, NEW s, NEW r \in GenuineRecords,
         AtHome(b, s), b \in CandidateBuckets(r.payload)
  PROVE  AtHome(b, s \cup {r})
BY GenuineRecord DEF AtHome

\* Journals whose entries are at home, extended and unwound.
LEMMA JournalHomeWrite ==
  ASSUME NEW j \in Seq(Snapshot), NEW b \in Buckets, NEW s \in Contents,
         \A i \in 1 .. Len(j) : AtHome(j[i].bucket, j[i].snapshot),
         AtHome(b, s)
  PROVE  LET w == JournalWrite(j, b, s)
         IN \A i \in 1 .. Len(w) : AtHome(w[i].bucket, w[i].snapshot)
<1> DEFINE w == JournalWrite(j, b, s)
           n == Len(j)
<1>1. /\ Len(w) = n + 1
      /\ \A i \in 1 .. n : w[i] = j[i]
      /\ w[n + 1] = [bucket |-> b, snapshot |-> s]
  BY JournalWriteType
<1>2. n \in Nat
  BY LenProperties
<1>3. w[n + 1].bucket = b /\ w[n + 1].snapshot = s
  BY <1>1
<1> HIDE DEF w, n
<1>4. ASSUME NEW i \in 1 .. Len(w)
      PROVE  AtHome(w[i].bucket, w[i].snapshot)
  <2>1. CASE i = n + 1
    BY <1>3, <2>1
  <2>2. CASE i # n + 1
    <3>1. i \in 1 .. n
      BY <1>1, <1>2, <2>2
    <3> QED BY <1>1, <3>1 DEF n
  <2> QED BY <2>1, <2>2
<1> QED BY <1>4 DEF w

\* What unwinding a journal writes back, and what it leaves, is at home.
LEMMA JournalHomeUnwind ==
  ASSUME NEW j \in Seq(Snapshot), j # <<>>,
         \A i \in 1 .. Len(j) : AtHome(j[i].bucket, j[i].snapshot)
  PROVE  LET u == Unwind(j)
         IN /\ AtHome(u.write.bucket, u.write.snapshot)
            /\ \A i \in 1 .. Len(u.rest) :
                 AtHome(u.rest[i].bucket, u.rest[i].snapshot)
<1> DEFINE u == Unwind(j)
           n == Len(j)
<1>1. /\ u.write = j[n]
      /\ n \in Nat \ {0}
      /\ Len(u.rest) = n - 1
      /\ \A i \in 1 .. n - 1 : u.rest[i] = j[i]
  BY UnwindType
<1> HIDE DEF u
<1>2. n \in 1 .. n
  BY <1>1
<1>3. AtHome(u.write.bucket, u.write.snapshot)
  BY <1>1, <1>2
<1>4. ASSUME NEW i \in 1 .. Len(u.rest)
      PROVE  AtHome(u.rest[i].bucket, u.rest[i].snapshot)
  <2>1. i \in 1 .. n - 1 /\ i \in 1 .. n
    BY <1>1
  <2> QED BY <1>1, <2>1
<1> QED BY <1>3, <1>4 DEF u

-----------------------------------------------------------------------------
(* HomeInv and FullInv are inductive relative to RollBackInv.              *)

\* A new table has no record away from home.
LEMMA HomeInit == Init => HomeInv
<1> SUFFICES ASSUME Init PROVE HomeInv
  OBVIOUS
<1>1. Len(journal) = 0
  BY EmptySeq DEF Init
<1> QED BY <1>1 DEF Init, HomeInv, AtHome

\* Between two calls the table is the committed one.
LEMMA IdleTable ==
  ASSUME RollBackInv, pc = "idle" \/ journal = <<>>
  PROVE  table = committed
<1>1. journal = <<>>
  BY DEF RollBackInv, Stages
<1> QED BY <1>1, CoversEmpty DEF RollBackInv, JournalCovers, TypeOK

\* Whatever returns leaves no journal and no chain.
LEMMA HomeReturn ==
  ASSUME NEW result, Return(result),
         \A b \in Buckets : AtHome(b, table'[b]),
         ~padded' => \A b \in Buckets : table'[b] \subseteq GenuineRecords
  PROVE  HomeInv'
<1>1. pc' = "idle" /\ journal' = <<>> /\ committed' = table'
  BY DEF Return
<1>2. Len(journal') = 0
  BY <1>1, EmptySeq
<1>3. (\A b \in Buckets : AtHome(b, table[b]))'
  BY DEF AtHome, CandidateBuckets, SecondBucket, RecordOf
<1>4. (\A i \in 1 .. Len(journal) :
         AtHome(journal[i].bucket, journal[i].snapshot))'
  BY <1>2
<1> QED BY <1>1, <1>3, <1>4 DEF HomeInv

\* A genuine record takes the place of another, in a bucket that is its
\* candidate, and the other leaves for its own.
LEMMA HomeSwap ==
  ASSUME TypeOK, HomeInv,
         NEW b \in Buckets, NEW r \in GenuineRecords, NEW v \in table[b],
         b \in CandidateBuckets(r.payload),
         \A c \in Buckets : table[c] \subseteq GenuineRecords,
         SwapInto(b, r, v), pc' = "chain", ~padded,
         UNCHANGED <<padded, committed>>
  PROVE  HomeInv'
<1>1. v \in GenuineRecords /\ AtHome(b, table[b])
  BY DEF HomeInv
<1>2. /\ table' = [table EXCEPT ![b] = (table[b] \ {v}) \cup {r}]
      /\ carried' = v
      /\ journal' = JournalWrite(journal, b, table[b])
      /\ current_bucket' = Alternate(b, v.fingerprint)
  BY DEF SwapInto
<1>3. AtHome(b, (table[b] \ {v}) \cup {r})
  <2>1. AtHome(b, table[b] \ {v})
    BY <1>1 DEF AtHome
  <2> QED BY <2>1, AtHomeAdd
<1>4. \A c \in Buckets : AtHome(c, table'[c])
  BY <1>2, <1>3 DEF HomeInv, TypeOK
<1>5. \A c \in Buckets : table'[c] \subseteq GenuineRecords
  BY <1>2 DEF TypeOK
<1>6. \A i \in 1 .. Len(journal') : AtHome(journal'[i].bucket, journal'[i].snapshot)
  BY <1>1, <1>2, JournalHomeWrite DEF HomeInv, TypeOK
<1>7. current_bucket' \in CandidateBuckets(carried'.payload)
  BY <1>1, <1>2, EvictedGoesHome
<1> QED BY <1>1, <1>2, <1>4, <1>5, <1>6, <1>7
  DEF HomeInv, AtHome, CandidateBuckets, SecondBucket, RecordOf

\* One write that saves what it overwrites, when it leaves the bucket with
\* records that are at home.
LEMMA HomeWrite ==
  ASSUME TypeOK, HomeInv, NEW b \in Buckets, NEW x, AtHome(b, x),
         table' = [table EXCEPT ![b] = x]
  PROVE  \A c \in Buckets : AtHome(c, table'[c])
BY DEF HomeInv, TypeOK

\* Every step keeps the records at home.
LEMMA HomeStep ==
  ASSUME RollBackInv, HomeInv, [Next]_vars
  PROVE  HomeInv'
<1> USE DEF RollBackInv
<1>1. ASSUME NEW k \in Keys, MayInsert(k)
      PROVE  /\ ~padded
             /\ table = committed
             /\ \A b \in Buckets : table[b] \subseteq GenuineRecords
  BY <1>1, IdleTable DEF MayInsert, HomeInv
<1>2. ASSUME NEW k \in Keys
      PROVE  RecordOf(k) \in GenuineRecords /\ RecordOf(k).payload = k
  BY DEF GenuineRecords, RecordOf
<1>3. CASE \E k \in Keys : InsertAtCapacity(k)
  <2>1. PICK k \in Keys : InsertAtCapacity(k)
    BY <1>3
  <2>2. table' = table /\ padded' = padded /\ Return("refused")
    BY <2>1 DEF InsertAtCapacity
  <2>3. \A b \in Buckets : table[b] \subseteq GenuineRecords
    BY <1>1, <2>1 DEF InsertAtCapacity
  <2> QED BY <2>2, <2>3, HomeReturn DEF HomeInv
<1>4. CASE \E k \in Keys : InsertDirectly(k)
  <2>1. PICK k \in Keys : InsertDirectly(k)
    BY <1>4
  <2> DEFINE d == Destination(k)
  <2>2. /\ table' = [table EXCEPT ![d] = table[d] \cup {RecordOf(k)}]
        /\ Return("stored")
    BY <2>1 DEF InsertDirectly
  <2>3. d \in CandidateBuckets(k) /\ d \in Buckets
    <3>1. d \in CandidateBuckets(k)
      BY DEF Destination, CandidateBuckets
    <3> QED BY <3>1, RecordOfType
  <2> HIDE DEF d
  <2>4. AtHome(d, table[d] \cup {RecordOf(k)})
    BY <1>2, <2>3, AtHomeAdd DEF HomeInv
  <2>5. \A b \in Buckets : AtHome(b, table'[b])
    BY <2>2, <2>3, <2>4, HomeWrite
  <2>6. \A b \in Buckets : table[b] \subseteq GenuineRecords
    BY <1>1, <2>1 DEF InsertDirectly
  <2>7. \A b \in Buckets : table'[b] \subseteq GenuineRecords
    BY <1>2, <2>2, <2>3, <2>6 DEF TypeOK
  <2> QED BY <2>2, <2>5, <2>7, HomeReturn
<1>5. CASE \E k \in Keys : InsertByEviction(k)
  <2>1. PICK k \in Keys : InsertByEviction(k)
    BY <1>5
  <2>0. PICK b \in CandidateBuckets(k) :
          \E v \in table[b] : SwapInto(b, RecordOf(k), v)
    BY <2>1 DEF InsertByEviction
  <2>2. PICK v \in table[b] : SwapInto(b, RecordOf(k), v)
    BY <2>0
  <2>3. b \in Buckets
    BY RecordOfType
  <2>4. /\ ~padded
        /\ \A c \in Buckets : table[c] \subseteq GenuineRecords
    BY <1>1, <2>1 DEF InsertByEviction
  <2>5. pc' = "chain" /\ UNCHANGED <<padded, committed>>
    BY <2>1 DEF InsertByEviction
  <2> QED BY <1>2, <2>2, <2>3, <2>4, <2>5, HomeSwap
<1>6. CASE ChainPlace
  <2> DEFINE c == current_bucket
             x == table[c] \cup {carried}
  <2>1. /\ table' = [table EXCEPT ![c] = x]
        /\ journal' = JournalWrite(journal, c, table[c])
        /\ pc' = "commit"
        /\ UNCHANGED <<padded, committed>>
        /\ pc = "chain"
    BY <1>6 DEF ChainPlace, InChain
  <2>2. c \in Buckets /\ carried \in GenuineRecords /\ AtHome(c, x)
    <3>1. /\ c \in Buckets
          /\ carried \in GenuineRecords
          /\ c \in CandidateBuckets(carried.payload)
      BY <2>1 DEF HomeInv, TypeOK
    <3> QED BY <3>1, AtHomeAdd DEF HomeInv
  <2>3. \A b \in Buckets : AtHome(b, table'[b])
    BY <2>1, <2>2, HomeWrite
  <2>4. \A b \in Buckets : table'[b] \subseteq GenuineRecords
    BY <2>1, <2>2 DEF HomeInv, TypeOK
  <2>5. \A i \in 1 .. Len(journal') :
          AtHome(journal'[i].bucket, journal'[i].snapshot)
    BY <2>1, <2>2, JournalHomeWrite DEF HomeInv, TypeOK
  <2> QED BY <2>1, <2>3, <2>4, <2>5
    DEF HomeInv, AtHome, CandidateBuckets, SecondBucket, RecordOf
<1>7. CASE ChainShortcut
  <2>1. PICK m \in Movable(current_bucket) :
          /\ table' = [table EXCEPT
               ![current_bucket] = (@ \ {m}) \cup {carried},
               ![Alternate(current_bucket, m.fingerprint)] = @ \cup {m}]
          /\ journal' = JournalWrite(
               JournalWrite(journal, current_bucket, table[current_bucket]),
               Alternate(current_bucket, m.fingerprint),
               table[Alternate(current_bucket, m.fingerprint)])
    BY <1>7 DEF ChainShortcut
  <2> DEFINE c == current_bucket
             n == Alternate(c, m.fingerprint)
             x == (table[c] \ {m}) \cup {carried}
             y == table[n] \cup {m}
             j == JournalWrite(journal, c, table[c])
  <2>2. /\ pc = "chain"
        /\ pc' = "commit"
        /\ UNCHANGED <<padded, committed>>
    BY <1>7 DEF ChainShortcut, InChain
  <2>3. /\ c \in Buckets
        /\ m \in table[c]
        /\ m \in GenuineRecords
        /\ carried \in GenuineRecords
        /\ c \in CandidateBuckets(carried.payload)
        /\ AtHome(c, table[c])
    BY <2>2 DEF Movable, HomeInv, TypeOK
  <2>4. n \in CandidateBuckets(m.payload) /\ n # c /\ n \in Buckets
    <3>1. n \in CandidateBuckets(m.payload)
      BY <2>3, EvictedGoesHome
    <3>2. n \in Buckets
      BY <2>3, <3>1, GenuineRecord, RecordOfType
    <3> QED BY <3>1, <3>2 DEF Movable
  <2>5. AtHome(c, x)
    <3>1. AtHome(c, table[c] \ {m})
      BY <2>3 DEF AtHome
    <3> QED BY <2>3, <3>1, AtHomeAdd
  <2>6. AtHome(n, y)
    BY <2>3, <2>4, AtHomeAdd DEF HomeInv
  <2>7. table' = [[table EXCEPT ![c] = x] EXCEPT ![n] = y]
    BY <2>1, <2>3, <2>4 DEF TypeOK
  <2>8. journal' = JournalWrite(j, n, table[n])
    BY <2>1
  <2>9. \A i \in 1 .. Len(journal') :
          AtHome(journal'[i].bucket, journal'[i].snapshot)
    <3>1. j \in Seq(Snapshot) /\ table[n] \in Contents
      BY <2>3, <2>4, JournalWriteType DEF TypeOK
    <3>2. \A i \in 1 .. Len(j) : AtHome(j[i].bucket, j[i].snapshot)
      BY <2>3, JournalHomeWrite DEF HomeInv, TypeOK
    <3>3. AtHome(n, table[n])
      BY <2>4 DEF HomeInv
    <3> HIDE DEF j, n
    <3> QED BY <2>4, <2>8, <3>1, <3>2, <3>3, JournalHomeWrite
  <2> HIDE DEF c, n, x, y, j
  <2>10. \A b \in Buckets : AtHome(b, table'[b])
    BY <2>3, <2>4, <2>5, <2>6, <2>7 DEF HomeInv, TypeOK
  <2>11. x \subseteq GenuineRecords /\ y \subseteq GenuineRecords
    BY <2>2, <2>3, <2>4 DEF x, y, HomeInv
  <2>12. \A b \in Buckets : table'[b] \subseteq GenuineRecords
    BY <2>2, <2>3, <2>4, <2>7, <2>11 DEF HomeInv, TypeOK
  <2> QED BY <2>2, <2>9, <2>10, <2>12
    DEF HomeInv, AtHome, CandidateBuckets, SecondBucket, RecordOf
<1>8. CASE InsertCommits
  <2>1. table' = table /\ Return("stored") /\ pc = "commit"
    BY <1>8 DEF InsertCommits
  <2> QED BY <2>1, HomeReturn DEF HomeInv
<1>9. CASE ChainEvict
  <2>1. PICK v \in table[current_bucket] : SwapInto(current_bucket, carried, v)
    BY <1>9 DEF ChainEvict
  <2>2. pc = "chain" /\ pc' = "chain" /\ UNCHANGED <<padded, committed>>
    BY <1>9 DEF ChainEvict, InChain
  <2>3. /\ current_bucket \in Buckets
        /\ carried \in GenuineRecords
        /\ current_bucket \in CandidateBuckets(carried.payload)
        /\ \A b \in Buckets : table[b] \subseteq GenuineRecords
        /\ ~padded
    BY <2>2 DEF HomeInv, TypeOK
  <2> QED BY <2>1, <2>2, <2>3, HomeSwap
<1>10. CASE UNCHANGED <<table, journal, carried, current_bucket, padded, committed>>
            /\ (pc' = pc \/ pc' \in {"undo_insert", "undo_pad", "pad"})
            /\ (pc' # "idle" => ~padded)
  BY <1>10 DEF HomeInv, AtHome, CandidateBuckets, SecondBucket, RecordOf
<1>11. CASE ChainExhausted
  BY <1>10, <1>11 DEF ChainExhausted, object, locals, HomeInv
<1>12. CASE UndoWrite
  <2> DEFINE u == Unwind(journal)
  <2>1. /\ journal # <<>>
        /\ table' = [table EXCEPT ![u.write.bucket] = u.write.snapshot]
        /\ journal' = u.rest
        /\ pc \in {"undo_insert", "undo_pad"}
        /\ UNCHANGED <<pc, padded, committed>>
    BY <1>12 DEF UndoWrite
  <2>2. u.write.bucket \in Buckets
    BY <2>1, UnwindType DEF TypeOK, Snapshot
  <2>3. /\ AtHome(u.write.bucket, u.write.snapshot)
        /\ \A i \in 1 .. Len(u.rest) :
             AtHome(u.rest[i].bucket, u.rest[i].snapshot)
    BY <2>1, JournalHomeUnwind DEF HomeInv, TypeOK
  <2> HIDE DEF u
  <2>4. \A b \in Buckets : AtHome(b, table'[b])
    BY <2>1, <2>2, <2>3, HomeWrite
  <2> QED BY <2>1, <2>3, <2>4
    DEF HomeInv, AtHome, CandidateBuckets, SecondBucket, RecordOf
<1>13. CASE InsertFails
  <2>1. table' = table /\ padded' = padded /\ Return("refused")
    BY <1>13 DEF InsertFails
  <2>2. table = committed /\ ~padded
    BY <1>13, IdleTable DEF InsertFails, HomeInv
  <2> QED BY <2>1, <2>2, HomeReturn DEF HomeInv
<1>14. CASE PadBegin
  BY <1>10, <1>14 DEF PadBegin, object, locals
<1>15. CASE PadBucket
  <2> DEFINE b == bucket_index
  <2>1. PICK D \in DummiesFor(b, FreeSlots(b)) :
          table' = [table EXCEPT ![b] = table[b] \cup D]
    BY <1>15 DEF PadBucket
  <2>2. b \in Buckets /\ FreeSlots(b) \in 0 .. SlotsPerBucket
    <3>1. b \in Buckets
      BY <1>15, SizeAssumption DEF PadBucket, Buckets, TypeOK
    <3> QED BY <3>1, ContentsFinite, SizeAssumption DEF FreeSlots, Occupied, TypeOK
  <2>3. \A r \in D : r.payload \in DummyPayloads
    BY <2>1, <2>2, DummiesBounded
  <2>4. AtHome(b, table[b] \cup D)
    BY <2>2, <2>3, KeyAssumption DEF HomeInv, AtHome
  <2>5. /\ pc = "pad"
        /\ UNCHANGED <<pc, padded, committed>>
        /\ journal' \in {journal, JournalWrite(journal, b, table[b])}
    BY <1>15 DEF PadBucket
  <2> HIDE DEF b
  <2>6. \A c \in Buckets : AtHome(c, table'[c])
    BY <2>1, <2>2, <2>4, HomeWrite
  <2>7. \A i \in 1 .. Len(journal') :
          AtHome(journal'[i].bucket, journal'[i].snapshot)
    <3>1. table[b] \in Contents /\ AtHome(b, table[b])
      BY <2>2 DEF HomeInv, TypeOK
    <3>2. CASE journal' = journal
      BY <3>2 DEF HomeInv
    <3>3. CASE journal' = JournalWrite(journal, b, table[b])
      BY <2>2, <3>1, <3>3, JournalHomeWrite DEF HomeInv, TypeOK
    <3> QED BY <2>5, <3>2, <3>3
  <2> QED BY <2>5, <2>6, <2>7
    DEF HomeInv, AtHome, CandidateBuckets, SecondBucket, RecordOf
<1>16. CASE PadThrows
  BY <1>10, <1>16 DEF PadThrows, object, locals, HomeInv
<1>17. CASE PadFails
  <2>1. table' = table /\ padded' = padded /\ Return("threw")
    BY <1>17 DEF PadFails, object
  <2>2. table = committed
    BY <1>17, IdleTable DEF PadFails
  <2> QED BY <2>1, <2>2, HomeReturn DEF HomeInv
<1>18. CASE PadCommit
  <2>1. table' = table /\ padded' = TRUE /\ Return("padded")
    BY <1>18 DEF PadCommit
  <2> QED BY <2>1, HomeReturn DEF HomeInv
<1>19. CASE UNCHANGED vars
  BY <1>10, <1>19 DEF vars, object, locals, HomeInv
<1> QED
  BY <1>3, <1>4, <1>5, <1>6, <1>7, <1>8, <1>9, <1>11, <1>12, <1>13, <1>14,
     <1>15, <1>16, <1>17, <1>18, <1>19 DEF Next, Call, Continue

-----------------------------------------------------------------------------
(* Refusals.                                                               *)

\* No insert is under way.
LEMMA FullInit == Init => FullInv
BY DEF Init, FullInv

\* A chain is only begun where both candidates are full.
LEMMA FullStep ==
  ASSUME RollBackInv, FullInv, [Next]_vars
  PROVE  FullInv'
<1> USE DEF RollBackInv
<1>1. CASE \E k \in Keys : InsertByEviction(k)
  <2>1. PICK k \in Keys : InsertByEviction(k)
    BY <1>1
  <2>2. /\ incoming' = RecordOf(k)
        /\ committed' = committed
        /\ NoFreeCandidate(k)
        /\ pc = "idle"
    BY <2>1 DEF InsertByEviction, MayInsert
  <2>3. incoming'.payload = k
    BY <2>2 DEF RecordOf
  <2>4. ASSUME NEW b \in CandidateBuckets(k)
        PROVE  Cardinality(committed[b]) = SlotsPerBucket
    <3>1. b \in Buckets /\ table[b] = committed[b] /\ Full(b)
      BY <2>2, <2>4, RecordOfType, IdleTable DEF NoFreeCandidate
    <3>2. Cardinality(table[b]) \in Nat /\ Cardinality(table[b]) <= SlotsPerBucket
      BY <3>1, ContentsFinite DEF TypeOK
    <3> QED BY <3>1, <3>2, SizeAssumption DEF Full, Occupied
  <2> QED BY <2>2, <2>3, <2>4 DEF FullInv, CandidateBuckets, SecondBucket
<1>2. CASE pc' \notin {"chain", "commit", "undo_insert"}
  BY <1>2 DEF FullInv
<1>3. CASE /\ pc \in {"chain", "commit", "undo_insert"}
           /\ UNCHANGED <<incoming, committed>>
  BY <1>3 DEF FullInv, CandidateBuckets, SecondBucket
<1>4. CASE UNCHANGED vars
  BY <1>4 DEF vars, object, locals, FullInv, CandidateBuckets, SecondBucket
<1>5. CASE \E k \in Keys : InsertAtCapacity(k) \/ InsertDirectly(k)
  BY <1>2, <1>5 DEF InsertAtCapacity, InsertDirectly, Return
<1>6. CASE ChainPlace \/ ChainShortcut \/ ChainEvict
  BY <1>3, <1>6 DEF ChainPlace, ChainShortcut, ChainEvict, InChain
<1>7. CASE ChainExhausted
  BY <1>3, <1>7 DEF ChainExhausted, locals
<1>8. CASE UndoWrite
  BY <1>2, <1>3, <1>8 DEF UndoWrite
<1>9. CASE InsertCommits \/ InsertFails \/ PadFails \/ PadCommit
  BY <1>2, <1>9 DEF InsertCommits, InsertFails, PadFails, PadCommit, Return
<1>10. CASE PadBegin \/ PadBucket \/ PadThrows
  BY <1>2, <1>10 DEF PadBegin, PadBucket, PadThrows
<1> QED
  BY <1>1, <1>4, <1>5, <1>6, <1>7, <1>8, <1>9, <1>10 DEF Next, Call, Continue

-----------------------------------------------------------------------------
(* Theorems.                                                               *)

SafetyInv == RollBackInv /\ HomeInv /\ FullInv

\* Every reachable state satisfies the invariant.
THEOREM SafetyInvariant == Spec => []SafetyInv
<1>1. Init => SafetyInv
  BY RollBackInit, HomeInit, FullInit DEF SafetyInv
<1>2. SafetyInv /\ [Next]_vars => SafetyInv'
  BY TypeStep, StagesStep, JournalCoversStep, HomeStep, FullStep
     DEF SafetyInv, RollBackInv
<1> QED BY <1>1, <1>2, PTL DEF Spec

\* At every step of every call each genuine record is in, or on its way to,
\* one of its two candidate buckets, with the fingerprint its key has.
THEOREM RecordsStayHome == Spec => []GenuineAtHome
<1>1. SafetyInv => GenuineAtHome
  BY DEF SafetyInv, HomeInv, AtHome, GenuineAtHome
<1> QED BY <1>1, SafetyInvariant, PTL

\* A query between two calls finds every record that has been inserted.
THEOREM QueriesAreComplete == Spec => []QueryComplete
<1>1. SafetyInv => QueryComplete
  <2> SUFFICES ASSUME SafetyInv, NEW k \in Keys, RecordOf(k) \in Stored(table)
               PROVE  RecordOf(k) \in QueryAll(k)
    BY DEF QueryComplete
  <2>1. PICK b \in Buckets : RecordOf(k) \in table[b]
    BY DEF Stored
  <2>2. b \in CandidateBuckets(k)
    BY <2>1 DEF SafetyInv, HomeInv, AtHome, RecordOf
  <2> QED BY <2>1, <2>2 DEF QueryAll, CollectMatches, RecordOf
<1> QED BY <1>1, SafetyInvariant, PTL

\* No chain is given up for a record that had room in one of its buckets.
THEOREM RefusalsAreJustified == Spec => RefusedOnlyWhenFull
<1>1. ASSUME SafetyInv, [Next]_vars
      PROVE  [pc = "undo_insert" /\ pc' = "idle" =>
                \A b \in CandidateBuckets(incoming.payload) :
                  Cardinality(table'[b]) = SlotsPerBucket]_vars
  <2> SUFFICES ASSUME Next, pc = "undo_insert", pc' = "idle",
                      NEW b \in CandidateBuckets(incoming.payload)
               PROVE  Cardinality(table'[b]) = SlotsPerBucket
    BY <1>1
  <2>1. InsertFails
    BY DEF Next, Call, Continue, InsertAtCapacity, InsertDirectly,
           InsertByEviction, MayInsert, PadBegin, ChainPlace, ChainShortcut,
           ChainEvict, InChain, InsertCommits, ChainExhausted, UndoWrite,
           PadBucket, PadThrows, PadFails, PadCommit
  <2>2. table' = table /\ journal = <<>>
    BY <2>1 DEF InsertFails
  <2>3. table = committed
    BY <1>1, <2>2, IdleTable DEF SafetyInv
  <2> QED BY <1>1, <2>2, <2>3 DEF SafetyInv, FullInv
<1> QED BY <1>1, SafetyInvariant, PTL DEF Spec, RefusedOnlyWhenFull

-----------------------------------------------------------------------------
(* No record is lost, doubled or counted wrongly: chains conserve records  *)
(* through every table a rollback passes, size() and the statistics are    *)
(* exact, and the table is a LabelIndex.                                   *)

Tables == [Buckets -> Contents]

\* No record is in two buckets.
Distinct(t) == \A b, c \in Buckets : b # c => t[b] \cap t[c] = {}

\* H[i] is the table before the journal's i-th write: undoing that write
\* leads to it from the next one.
Passed(j, t, H) ==
  /\ H \in [1 .. Len(j) + 1 -> Tables]
  /\ H[Len(j) + 1] = t
  /\ \A i \in 1 .. Len(j) :
       H[i] = [H[i + 1] EXCEPT ![j[i].bucket] = j[i].snapshot]
  /\ \A i \in 1 .. Len(j) + 1 : Distinct(H[i])

\* Every table a rollback would pass through holds each record once.
AllDistinct(j, t) == \E H : Passed(j, t, H)

\* What a chain holds is what the table held and the record that came in.
ChainInv ==
  /\ pc = "chain" =>
       /\ carried \notin Stored(table)
       /\ Stored(table) \cup {carried} = Stored(committed) \cup {incoming}
  /\ pc = "commit" => Stored(table) = Stored(committed) \cup {incoming}
  /\ pc \in {"chain", "commit", "undo_insert"} =>
       /\ incoming \notin Stored(committed)
       /\ filled_slots < Capacity

\* Padding has filled the buckets it has passed with dummies of their own and
\* has not touched the others.
PadInv ==
  pc = "pad" =>
    /\ \A b \in Buckets : committed[b] \subseteq table[b]
    /\ \A b \in Buckets : \A r \in table[b] \ committed[b] :
         r \in DummyRecords /\ r.payload[1] = b
    /\ \A b \in Buckets : b < bucket_index =>
         Cardinality(table[b]) = SlotsPerBucket
    /\ \A b \in Buckets : b >= bucket_index => table[b] = committed[b]
    /\ Cardinality(Stored(table)) = Cardinality(Stored(committed)) + generated

-----------------------------------------------------------------------------
(* What is stored in a table.                                              *)

\* A record takes the slot of another.
LEMMA SwapStored ==
  ASSUME NEW t \in Tables, Distinct(t), NEW b \in Buckets, NEW v \in t[b],
         NEW r, r \notin Stored(t), NEW u,
         u = [t EXCEPT ![b] = (t[b] \ {v}) \cup {r}]
  PROVE  /\ Distinct(u)
         /\ Stored(u) = (Stored(t) \ {v}) \cup {r}
         /\ v \notin Stored(u)
<1>1. \A c \in Buckets : u[c] = IF c = b THEN (t[b] \ {v}) \cup {r} ELSE t[c]
  BY DEF Tables
<1>2. \A c \in Buckets : r \notin t[c]
  BY DEF Stored
<1>3. \A c \in Buckets : c # b => v \notin t[c]
  BY DEF Distinct
<1>4. Distinct(u)
  <2> SUFFICES ASSUME NEW c \in Buckets, NEW d \in Buckets, c # d,
                      NEW x \in u[c], x \in u[d]
               PROVE  FALSE
    BY DEF Distinct
  <2>1. x = r \/ (x \in t[c] /\ x \in t[d])
    BY <1>1, <1>2
  <2>2. CASE x = r
    BY <1>1, <1>2, <2>2
  <2>3. CASE x \in t[c] /\ x \in t[d]
    BY <2>3 DEF Distinct
  <2> QED BY <2>1, <2>2, <2>3
<1>5. ASSUME NEW x
      PROVE  x \in Stored(u) <=> x \in (Stored(t) \ {v}) \cup {r}
  BY <1>1, <1>2, <1>3 DEF Stored
<1>6. v # r
  BY <1>2
<1> QED BY <1>4, <1>5, <1>6

\* A record takes a free slot.
LEMMA AddStored ==
  ASSUME NEW t \in Tables, Distinct(t), NEW b \in Buckets,
         NEW r, r \notin Stored(t), NEW u, u = [t EXCEPT ![b] = t[b] \cup {r}]
  PROVE  Distinct(u) /\ Stored(u) = Stored(t) \cup {r}
<1>1. \A c \in Buckets : u[c] = IF c = b THEN t[b] \cup {r} ELSE t[c]
  BY DEF Tables
<1>2. \A c \in Buckets : r \notin t[c]
  BY DEF Stored
<1>3. Distinct(u)
  BY <1>1, <1>2 DEF Distinct
<1>4. ASSUME NEW x
      PROVE  x \in Stored(u) <=> x \in Stored(t) \cup {r}
  BY <1>1 DEF Stored
<1> QED BY <1>3, <1>4

\* There are finitely many records in a table.
LEMMA StoredFinite ==
  ASSUME NEW t \in Tables
  PROVE  /\ Stored(t) \subseteq Record
         /\ IsFiniteSet(Stored(t))
         /\ Cardinality(Stored(t)) \in Nat
<1>1. Stored(t) \subseteq Record
  BY DEF Stored, Tables, Contents
<1> QED BY <1>1, RecordFinite, FS_Subset, FS_CardinalityType

-----------------------------------------------------------------------------
(* The tables a rollback passes.                                           *)

\* The journal of a call that has written nothing.
LEMMA PassedNothing ==
  ASSUME NEW t \in Tables, Distinct(t)
  PROVE  AllDistinct(<<>>, t)
<1> DEFINE H == [i \in 1 .. 1 |-> t]
<1>1. Len(<<>>) = 0
  BY EmptySeq
<1>2. H \in [1 .. 1 -> Tables] /\ H[1] = t
  OBVIOUS
<1>3. 1 .. 0 = {} /\ 1 .. 1 = {1} /\ 0 + 1 = 1
  OBVIOUS
<1> HIDE DEF H
<1>4. Passed(<<>>, t, H)
  BY <1>1, <1>2, <1>3 DEF Passed
<1> QED BY <1>4 DEF AllDistinct

\* A write that is saved in the journal.
LEMMA PassedWrite ==
  ASSUME NEW j \in Seq(Snapshot), NEW t \in Tables, AllDistinct(j, t),
         NEW b \in Buckets, NEW x,
         [t EXCEPT ![b] = x] \in Tables, Distinct([t EXCEPT ![b] = x])
  PROVE  AllDistinct(JournalWrite(j, b, t[b]), [t EXCEPT ![b] = x])
<1> DEFINE n == Len(j)
           u == [t EXCEPT ![b] = x]
           w == JournalWrite(j, b, t[b])
<1>1. PICK H : Passed(j, t, H)
  BY DEF AllDistinct
<1> DEFINE G == [i \in 1 .. n + 2 |-> IF i <= n + 1 THEN H[i] ELSE u]
<1>2. n \in Nat
  BY LenProperties
<1>3. /\ Len(w) = n + 1
      /\ \A i \in 1 .. n : w[i] = j[i]
      /\ w[n + 1] = [bucket |-> b, snapshot |-> t[b]]
  <2>1. t[b] \in Contents
    BY DEF Tables
  <2> QED BY <2>1, JournalWriteType
<1>4. t = [u EXCEPT ![b] = t[b]]
  BY DEF Tables
<1> HIDE DEF n, u, w
<1>5. H \in [1 .. n + 1 -> Tables] /\ H[n + 1] = t
  BY <1>1 DEF Passed, n
<1>6. /\ G \in [1 .. n + 2 -> Tables]
      /\ G[n + 2] = u
      /\ G[n + 1] = t
      /\ \A i \in 1 .. n + 1 : G[i] = H[i]
  BY <1>2, <1>5 DEF u
<1> HIDE DEF G
<1>7. ASSUME NEW i \in 1 .. Len(w)
      PROVE  G[i] = [G[i + 1] EXCEPT ![w[i].bucket] = w[i].snapshot]
  <2>1. CASE i = n + 1
    BY <1>2, <1>3, <1>4, <1>6, <2>1
  <2>2. CASE i # n + 1
    <3>1. i \in 1 .. n /\ i \in 1 .. n + 1 /\ i + 1 \in 1 .. n + 1
      BY <1>2, <1>3, <2>2
    <3>2. H[i] = [H[i + 1] EXCEPT ![j[i].bucket] = j[i].snapshot]
      BY <1>1, <3>1 DEF Passed, n
    <3> QED BY <1>3, <1>6, <3>1, <3>2
  <2> QED BY <2>1, <2>2
<1>8. ASSUME NEW i \in 1 .. n + 2
      PROVE  Distinct(G[i])
  <2>1. CASE i = n + 2
    BY <1>6, <2>1 DEF u
  <2>2. CASE i # n + 2
    <3>1. i \in 1 .. n + 1
      BY <1>2, <2>2
    <3> QED BY <1>1, <1>6, <3>1 DEF Passed, n
  <2> QED BY <2>1, <2>2
<1>9. Len(w) + 1 = n + 2
  BY <1>2, <1>3
<1>10. Passed(w, u, G)
  BY <1>6, <1>7, <1>8, <1>9 DEF Passed
<1> QED BY <1>10 DEF AllDistinct, u, w

\* One write of the rollback.
LEMMA PassedUnwind ==
  ASSUME NEW j \in Seq(Snapshot), j # <<>>, NEW t \in Tables, AllDistinct(j, t)
  PROVE  LET undo == Unwind(j)
         IN AllDistinct(undo.rest,
              [t EXCEPT ![undo.write.bucket] = undo.write.snapshot])
<1> DEFINE undo == Unwind(j)
           n == Len(j)
           u == [t EXCEPT ![undo.write.bucket] = undo.write.snapshot]
<1>1. PICK H : Passed(j, t, H)
  BY DEF AllDistinct
<1> DEFINE G == [i \in 1 .. n |-> H[i]]
<1>2. /\ undo.write = j[n]
      /\ n \in Nat \ {0}
      /\ Len(undo.rest) = n - 1
      /\ \A i \in 1 .. n - 1 : undo.rest[i] = j[i]
  BY UnwindType
<1> HIDE DEF undo
<1>3. /\ H \in [1 .. n + 1 -> Tables]
      /\ H[n + 1] = t
      /\ \A i \in 1 .. n : H[i] = [H[i + 1] EXCEPT ![j[i].bucket] = j[i].snapshot]
      /\ \A i \in 1 .. n + 1 : Distinct(H[i])
  BY <1>1 DEF Passed
<1> HIDE DEF n
<1>4. G[n] = u /\ G \in [1 .. n -> Tables]
  <2>1. n \in 1 .. n
    BY <1>2
  <2> QED BY <1>2, <1>3, <2>1
<1>5. \A i \in 1 .. n - 1 :
        G[i] = [G[i + 1] EXCEPT ![undo.rest[i].bucket] = undo.rest[i].snapshot]
  <2> SUFFICES ASSUME NEW i \in 1 .. n - 1
               PROVE  G[i] = [G[i + 1] EXCEPT ![undo.rest[i].bucket]
                                                = undo.rest[i].snapshot]
    OBVIOUS
  <2>1. i \in 1 .. n /\ i + 1 \in 1 .. n
    BY <1>2
  <2> QED BY <1>2, <1>3, <2>1
<1>6. \A i \in 1 .. n : Distinct(G[i])
  BY <1>2, <1>3
<1> HIDE DEF G, u
<1>7. (n - 1) + 1 = n
  BY <1>2
<1>8. Passed(undo.rest, u, G)
  BY <1>2, <1>4, <1>5, <1>6, <1>7 DEF Passed
<1> QED BY <1>8 DEF AllDistinct, u, undo

\* The table is the last of them.
LEMMA PassedLast ==
  ASSUME NEW j \in Seq(Snapshot), NEW t, AllDistinct(j, t)
  PROVE  Distinct(t)
<1>1. PICK H : Passed(j, t, H)
  BY DEF AllDistinct
<1>2. Len(j) + 1 \in 1 .. Len(j) + 1
  BY LenProperties
<1> QED BY <1>1, <1>2 DEF Passed

-----------------------------------------------------------------------------
(* The steps conserve records.                                             *)

ConserveInv == AllDistinct(journal, table) /\ ChainInv /\ PadInv

\* A record that comes in takes the slot of one that goes out.
LEMMA ConserveSwap ==
  ASSUME TypeOK, AllDistinct(journal, table),
         NEW b \in Buckets, NEW r \in Record, r \notin Stored(table),
         NEW v \in table[b], SwapInto(b, r, v)
  PROVE  /\ AllDistinct(journal', table')
         /\ carried' \notin Stored(table')
         /\ Stored(table') \cup {carried'} = Stored(table) \cup {r}
<1> DEFINE x == (table[b] \ {v}) \cup {r}
           u == [table EXCEPT ![b] = x]
<1>1. /\ table' = u
      /\ carried' = v
      /\ journal' = JournalWrite(journal, b, table[b])
  BY DEF SwapInto
<1>2. table \in Tables /\ Distinct(table) /\ u \in Tables
  <2>1. table \in Tables /\ Distinct(table)
    BY PassedLast DEF TypeOK, Tables
  <2>2. x \in Contents
    BY ContentsSwap DEF TypeOK
  <2> QED BY <2>1, <2>2 DEF Tables
<1>3. /\ Distinct(u)
      /\ Stored(u) = (Stored(table) \ {v}) \cup {r}
      /\ v \notin Stored(u)
  BY <1>2, SwapStored
<1>4. v \in Stored(table)
  BY DEF Stored
<1> HIDE DEF x
<1>5. AllDistinct(JournalWrite(journal, b, table[b]), u)
  BY <1>2, <1>3, PassedWrite DEF TypeOK
<1> QED BY <1>1, <1>3, <1>4, <1>5

\* The two writes of a shortcut: carried takes the slot of m, and m a free
\* slot of bucket n.
LEMMA ConserveShortcut ==
  ASSUME TypeOK, AllDistinct(journal, table),
         NEW c \in Buckets, NEW n \in Buckets, n # c,
         NEW r \in Record, r \notin Stored(table),
         NEW m \in table[c], Cardinality(table[n]) < SlotsPerBucket,
         table' = [table EXCEPT ![c] = (@ \ {m}) \cup {r}, ![n] = @ \cup {m}],
         journal' = JournalWrite(JournalWrite(journal, c, table[c]), n, table[n])
  PROVE  /\ AllDistinct(journal', table')
         /\ Stored(table') = Stored(table) \cup {r}
<1> DEFINE x == (table[c] \ {m}) \cup {r}
           u == [table EXCEPT ![c] = x]
           y == u[n] \cup {m}
           j == JournalWrite(journal, c, table[c])
<1>1. table \in Tables /\ Distinct(table) /\ u \in Tables /\ m \in Record
  <2>1. table \in Tables /\ Distinct(table)
    BY PassedLast DEF TypeOK, Tables
  <2>2. x \in Contents /\ m \in Record
    BY ContentsSwap, ContentsFinite DEF TypeOK
  <2> QED BY <2>1, <2>2 DEF Tables
<1>2. u[n] = table[n] /\ table' = [u EXCEPT ![n] = y]
  BY <1>1 DEF Tables
<1>3. /\ Distinct(u)
      /\ Stored(u) = (Stored(table) \ {m}) \cup {r}
      /\ m \notin Stored(u)
  BY <1>1, SwapStored
<1> HIDE DEF u
<1>4. Distinct(table') /\ Stored(table') = Stored(u) \cup {m}
  <2>1. u \in Tables /\ Distinct(u) /\ m \notin Stored(u)
    BY <1>1, <1>3
  <2>2. table' = [u EXCEPT ![n] = u[n] \cup {m}]
    BY <1>2
  <2> QED BY ONLY <2>1, <2>2, n \in Buckets, AddStored
<1>5. m \in Stored(table)
  BY DEF Stored
<1>6. table' \in Tables
  <2>1. y \in Contents
    BY <1>1, <1>2, ContentsAdd DEF TypeOK
  <2> QED BY <1>1, <1>2, <2>1 DEF Tables
<1> HIDE DEF x
<1>7. AllDistinct(j, u) /\ j \in Seq(Snapshot)
  BY <1>1, <1>3, PassedWrite, JournalWriteType DEF TypeOK, u
<1> HIDE DEF y, j
<1>8. [u EXCEPT ![n] = y] \in Tables /\ Distinct([u EXCEPT ![n] = y])
  BY <1>2, <1>4, <1>6
<1>9. AllDistinct(JournalWrite(j, n, u[n]), [u EXCEPT ![n] = y])
  BY <1>1, <1>7, <1>8, PassedWrite
<1> QED BY <1>2, <1>3, <1>4, <1>5, <1>9 DEF j

\* Whatever returns leaves a table that holds each record once, if it does.
LEMMA ConserveReturn ==
  ASSUME NEW result, Return(result), table' \in Tables, Distinct(table')
  PROVE  ConserveInv'
<1>1. pc' = "idle" /\ journal' = <<>>
  BY DEF Return
<1>2. AllDistinct(journal', table')
  BY <1>1, PassedNothing
<1> QED BY <1>1, <1>2 DEF ConserveInv, ChainInv, PadInv

\* A new table holds nothing twice.
LEMMA ConserveInit == Init => ConserveInv
<1> SUFFICES ASSUME Init PROVE ConserveInv
  OBVIOUS
<1>1. table \in Tables /\ Distinct(table)
  BY ContentsEmpty DEF Init, Tables, Distinct
<1>2. AllDistinct(<<>>, table)
  BY <1>1, PassedNothing
<1> QED BY <1>2 DEF Init, ConserveInv, ChainInv, PadInv

\* There is one dummy for each of the free slots.
LEMMA DummiesExact ==
  ASSUME NEW b \in Buckets, NEW n \in 0 .. SlotsPerBucket,
         NEW D \in DummiesFor(b, n)
  PROVE  Cardinality(D) = n
<1>1. PICK f \in [1 .. n -> DummyFingerprints] :
         D = {[fingerprint |-> f[i], payload |-> <<b, i>>] : i \in 1 .. n}
  BY DEF DummiesFor
<1> DEFINE g == [i \in 1 .. n |-> [fingerprint |-> f[i], payload |-> <<b, i>>]]
<1>2. g \in [1 .. n -> D]
  BY <1>1
<1>3. ASSUME NEW i \in 1 .. n, NEW k \in 1 .. n, g[i] = g[k]
      PROVE  i = k
  <2>1. g[i].payload = <<b, i>> /\ g[k].payload = <<b, k>>
    OBVIOUS
  <2> QED BY <1>3, <2>1
<1>4. \A r \in D : \E i \in 1 .. n : g[i] = r
  BY <1>1
<1> HIDE DEF g
<1>5. g \in Bijection(1 .. n, D)
  BY <1>2, <1>3, <1>4 DEF Bijection, Injection, Surjection, IsInjective
<1> QED BY <1>5, SizeAssumption, FS_CountingElements DEF ExistsBijection

\* Filling one more bucket.
LEMMA ConservePad ==
  ASSUME RollBackInv, HomeInv, ConserveInv, PadBucket
  PROVE  ConserveInv'
<1> DEFINE b == bucket_index
           n == FreeSlots(b)
<1> USE DEF RollBackInv
<1>1. PICK D \in DummiesFor(b, n) : table' = [table EXCEPT ![b] = table[b] \cup D]
  BY DEF PadBucket
<1>2. /\ b \in Buckets
      /\ n \in 0 .. SlotsPerBucket
      /\ n = SlotsPerBucket - Cardinality(table[b])
      /\ Cardinality(table[b]) \in Nat
      /\ IsFiniteSet(table[b])
  <2>1. b \in Buckets
    BY SizeAssumption DEF PadBucket, Buckets, TypeOK
  <2> QED BY <2>1, ContentsFinite, SizeAssumption DEF FreeSlots, Occupied, TypeOK
<1>3. /\ D \subseteq DummyRecords
      /\ IsFiniteSet(D)
      /\ Cardinality(D) = n
      /\ \A r \in D : r.payload \in DummyPayloads /\ r.payload[1] = b
  BY <1>2, DummiesBounded, DummiesExact
<1>4. /\ pc = "pad" /\ pc' = "pad"
      /\ bucket_index' = b + 1
      /\ generated' = generated + n
      /\ journal' = IF n > 0 THEN JournalWrite(journal, b, table[b]) ELSE journal
      /\ UNCHANGED committed
  BY DEF PadBucket
<1>5. /\ table[b] = committed[b]
      /\ \A c \in Buckets : committed[c] \subseteq GenuineRecords
  BY <1>2, <1>4 DEF ConserveInv, PadInv, HomeInv, Buckets
<1>6. table \in Tables /\ Distinct(table) /\ table' \in Tables
  <2>1. table \in Tables /\ Distinct(table)
    BY PassedLast DEF TypeOK, Tables, ConserveInv
  <2>2. table[b] \cup D \in Contents
    BY <1>2, ContentsPad DEF FreeSlots, Occupied, TypeOK
  <2> QED BY <1>1, <1>2, <2>1, <2>2 DEF Tables
<1>7. ASSUME NEW c \in Buckets, NEW r \in D, r \in table[c]
      PROVE  FALSE
  <2>1. CASE r \in committed[c]
    <3>1. r.payload \in Keys
      BY <1>5, <2>1, GenuineRecord
    <3> QED BY <1>3, <3>1, KeyAssumption
  <2>2. CASE r \notin committed[c]
    <3>1. r.payload[1] = c
      BY <1>4, <1>7, <2>2 DEF ConserveInv, PadInv
    <3> QED BY <1>3, <1>5, <1>7, <2>2, <3>1
  <2> QED BY <2>1, <2>2
<1> HIDE DEF n, b
<1>8. \A c \in Buckets : table'[c] = IF c = b THEN table[b] \cup D ELSE table[c]
  BY <1>1, <1>6 DEF Tables
<1>9. Distinct(table')
  BY <1>6, <1>7, <1>8 DEF Distinct
<1>10. AllDistinct(journal', table')
  <2>1. CASE n > 0
    <3> DEFINE x == table[b] \cup D
    <3> HIDE DEF x
    <3>1. table' = [table EXCEPT ![b] = x]
      BY <1>1 DEF x
    <3>2. [table EXCEPT ![b] = x] \in Tables /\ Distinct([table EXCEPT ![b] = x])
      BY <1>6, <1>9, <3>1
    <3>3. AllDistinct(JournalWrite(journal, b, table[b]), [table EXCEPT ![b] = x])
      BY <1>2, <1>6, <3>2, PassedWrite DEF ConserveInv, TypeOK
    <3> QED BY <1>4, <2>1, <3>1, <3>3
  <2>2. CASE n = 0
    <3>1. D = {}
      BY <1>3, <2>2, FS_EmptySet
    <3>2. table' = table
      BY <1>2, <1>6, <1>8, <3>1 DEF Tables
    <3> QED BY <1>4, <2>2, <3>2 DEF ConserveInv
  <2> QED BY <1>2, <2>1, <2>2
<1>11. Cardinality(table'[b]) = SlotsPerBucket
  <2>1. table[b] \cap D = {}
    BY <1>2, <1>7
  <2>2. Cardinality(table[b] \cup D)
          = Cardinality(table[b]) + Cardinality(D) - Cardinality(table[b] \cap D)
    BY <1>2, <1>3, FS_Union
  <2>3. Cardinality(table[b] \cap D) = 0
    BY <2>1, FS_EmptySet
  <2> QED BY <1>2, <1>3, <1>8, <2>2, <2>3, SizeAssumption
<1>12. Cardinality(Stored(table')) = Cardinality(Stored(table)) + n
  <2>1. Stored(table') = Stored(table) \cup D
    BY <1>2, <1>8 DEF Stored
  <2>2. Stored(table) \cap D = {}
    BY <1>7 DEF Stored
  <2>3. IsFiniteSet(Stored(table)) /\ Cardinality(Stored(table)) \in Nat
    BY <1>6, StoredFinite
  <2>4. Cardinality(Stored(table) \cup D)
          = Cardinality(Stored(table)) + Cardinality(D)
              - Cardinality(Stored(table) \cap D)
    BY <1>3, <2>3, FS_Union
  <2>5. Cardinality(Stored(table) \cap D) = 0
    BY <2>2, FS_EmptySet
  <2> QED BY <1>2, <1>3, <2>1, <2>3, <2>4, <2>5
<1>13. PadInv'
  <2>1. \A c \in Buckets : committed'[c] \subseteq table'[c]
    BY <1>4, <1>8 DEF ConserveInv, PadInv
  <2>2. \A c \in Buckets : \A r \in table'[c] \ committed'[c] :
          r \in DummyRecords /\ r.payload[1] = c
    BY <1>3, <1>4, <1>5, <1>8 DEF ConserveInv, PadInv
  <2>3. \A c \in Buckets : c < bucket_index' =>
          Cardinality(table'[c]) = SlotsPerBucket
    <3> SUFFICES ASSUME NEW c \in Buckets, c < b + 1
                 PROVE  Cardinality(table'[c]) = SlotsPerBucket
      BY <1>4
    <3>1. CASE c = b
      BY <1>11, <3>1
    <3>2. CASE c # b
      <4>1. c < b
        BY <1>2, <3>2 DEF Buckets
      <4> QED BY <1>4, <1>8, <3>2, <4>1 DEF ConserveInv, PadInv, b
    <3> QED BY <3>1, <3>2
  <2>4. \A c \in Buckets : c >= bucket_index' => table'[c] = committed'[c]
    <3> SUFFICES ASSUME NEW c \in Buckets, c >= b + 1
                 PROVE  table'[c] = committed[c]
      BY <1>4
    <3>1. c # b /\ c >= b
      BY <1>2 DEF Buckets
    <3> QED BY <1>4, <1>8, <3>1 DEF ConserveInv, PadInv, b
  <2>5. Cardinality(Stored(table'))
          = Cardinality(Stored(committed')) + generated'
    <3>1. Cardinality(Stored(table)) = Cardinality(Stored(committed)) + generated
      BY <1>4 DEF ConserveInv, PadInv
    <3>2. generated \in Nat /\ Cardinality(Stored(committed)) \in Nat
      BY StoredFinite DEF TypeOK, Tables
    <3> QED BY <1>2, <1>4, <1>12, <3>1, <3>2
  <2> QED BY <2>1, <2>2, <2>3, <2>4, <2>5 DEF PadInv
<1> QED BY <1>4, <1>10, <1>13 DEF ConserveInv, ChainInv

\* What an insert that has not been refused outright starts from.
LEMMA InsertStarts ==
  ASSUME RollBackInv, HomeInv, ConserveInv, NEW k \in Keys, MayInsert(k)
  PROVE  /\ table \in Tables
         /\ Distinct(table)
         /\ table = committed
         /\ RecordOf(k) \notin Stored(table)
         /\ RecordOf(k) \in Record
<1>1. table = committed
  BY IdleTable DEF MayInsert
<1>2. table \in Tables /\ Distinct(table)
  BY PassedLast DEF RollBackInv, ConserveInv, TypeOK, Tables
<1> QED BY <1>1, <1>2, RecordOfType DEF MayInsert

\* Every step conserves the records.
LEMMA ConserveStep ==
  ASSUME RollBackInv, HomeInv, ConserveInv, [Next]_vars
  PROVE  ConserveInv'
<1> USE DEF RollBackInv
<1>0. TypeOK'
  BY TypeStep
<1>1. table \in Tables /\ Distinct(table) /\ AllDistinct(journal, table)
  BY PassedLast DEF ConserveInv, TypeOK, Tables
<1>2. ASSUME NEW k \in Keys, InsertDirectly(k)
      PROVE  ConserveInv'
  <2> DEFINE d == Destination(k)
  <2>1. /\ table' = [table EXCEPT ![d] = table[d] \cup {RecordOf(k)}]
        /\ Return("stored")
        /\ MayInsert(k)
    BY <1>2 DEF InsertDirectly
  <2>2. d \in Buckets
    BY RecordOfType DEF Destination, CandidateBuckets
  <2> HIDE DEF d
  <2>3. Distinct(table')
    BY <2>1, <2>2, InsertStarts, AddStored
  <2> QED BY <1>0, <2>1, <2>3, ConserveReturn DEF TypeOK, Tables
<1>3. ASSUME NEW k \in Keys, InsertByEviction(k)
      PROVE  ConserveInv'
  <2>1. PICK b \in CandidateBuckets(k) :
          \E v \in table[b] : SwapInto(b, RecordOf(k), v)
    BY <1>3 DEF InsertByEviction
  <2>2. PICK v \in table[b] : SwapInto(b, RecordOf(k), v)
    BY <2>1
  <2>3. b \in Buckets
    BY RecordOfType
  <2>4. /\ table = committed
        /\ RecordOf(k) \notin Stored(table)
        /\ RecordOf(k) \in Record
    BY <1>3, InsertStarts DEF InsertByEviction
  <2>5. /\ AllDistinct(journal', table')
        /\ carried' \notin Stored(table')
        /\ Stored(table') \cup {carried'} = Stored(table) \cup {RecordOf(k)}
    BY <1>1, <2>2, <2>3, <2>4, ConserveSwap
  <2>6. /\ pc' = "chain"
        /\ incoming' = RecordOf(k)
        /\ UNCHANGED <<filled_slots, committed>>
        /\ filled_slots < Capacity
    BY <1>3 DEF InsertByEviction
  <2> QED BY <2>4, <2>5, <2>6 DEF ConserveInv, ChainInv, PadInv
<1>4. CASE ChainPlace
  <2> DEFINE c == current_bucket
             x == table[c] \cup {carried}
  <2>1. /\ pc = "chain"
        /\ pc' = "commit"
        /\ table' = [table EXCEPT ![c] = x]
        /\ journal' = JournalWrite(journal, c, table[c])
        /\ UNCHANGED <<filled_slots, incoming, committed>>
    BY <1>4 DEF ChainPlace, InChain
  <2>2. /\ carried \notin Stored(table)
        /\ Stored(table) \cup {carried} = Stored(committed) \cup {incoming}
        /\ incoming \notin Stored(committed)
        /\ filled_slots < Capacity
        /\ c \in Buckets
    BY <2>1 DEF ConserveInv, ChainInv, TypeOK
  <2> HIDE DEF c
  <2>3. Distinct(table') /\ Stored(table') = Stored(table) \cup {carried}
    <3>1. table \in Tables /\ Distinct(table) /\ c \in Buckets
      BY <1>1, <2>2
    <3>2. carried \notin Stored(table)
      BY <2>2
    <3>3. table' = [table EXCEPT ![c] = table[c] \cup {carried}]
      BY <2>1
    <3> QED BY ONLY <3>1, <3>2, <3>3, AddStored
  <2> HIDE DEF x
  <2>4. [table EXCEPT ![c] = x] \in Tables /\ Distinct([table EXCEPT ![c] = x])
    BY <1>0, <2>1, <2>3 DEF TypeOK, Tables
  <2>5. AllDistinct(journal', table')
    <3>1. AllDistinct(JournalWrite(journal, c, table[c]), [table EXCEPT ![c] = x])
      BY <1>1, <2>4, PassedWrite DEF TypeOK, c
    <3> QED BY <2>1, <3>1
  <2> QED BY <2>1, <2>2, <2>3, <2>5 DEF ConserveInv, ChainInv, PadInv
<1>5. CASE ChainShortcut
  <2> DEFINE c == current_bucket
  <2>1. PICK m \in Movable(c) :
          /\ table' = [table EXCEPT
               ![c] = (@ \ {m}) \cup {carried},
               ![Alternate(c, m.fingerprint)] = @ \cup {m}]
          /\ journal' = JournalWrite(
               JournalWrite(journal, c, table[c]),
               Alternate(c, m.fingerprint), table[Alternate(c, m.fingerprint)])
    BY <1>5 DEF ChainShortcut
  <2> DEFINE n == Alternate(c, m.fingerprint)
  <2>2. /\ pc = "chain"
        /\ pc' = "commit"
        /\ UNCHANGED <<filled_slots, incoming, committed>>
    BY <1>5 DEF ChainShortcut, InChain
  <2>3. /\ carried \notin Stored(table)
        /\ Stored(table) \cup {carried} = Stored(committed) \cup {incoming}
        /\ incoming \notin Stored(committed)
        /\ filled_slots < Capacity
        /\ carried \in Record
    BY <2>2 DEF ConserveInv, ChainInv, Stages
  <2>4. m \in table[c] /\ n # c /\ c \in Buckets /\ ~Full(n)
    BY DEF Movable, TypeOK
  <2>5. n \in Buckets
    <3>1. m \in Record
      BY <2>4, ContentsFinite DEF TypeOK
    <3> QED BY <2>4, <3>1, AlternateAssumption DEF Record
  <2>6. Cardinality(table[n]) < SlotsPerBucket
    BY <2>4, <2>5, ContentsFinite, SizeAssumption DEF Full, Occupied, TypeOK
  <2>7. /\ table' = [table EXCEPT ![c] = (@ \ {m}) \cup {carried}, ![n] = @ \cup {m}]
        /\ journal' = JournalWrite(JournalWrite(journal, c, table[c]), n, table[n])
    BY <2>1
  <2> HIDE DEF c, n
  <2>8. AllDistinct(journal', table') /\ Stored(table') = Stored(table) \cup {carried}
    <3>1. TypeOK /\ AllDistinct(journal, table)
      BY <1>1
    <3>2. carried \in Record /\ carried \notin Stored(table)
      BY <2>3
    <3>3. c \in Buckets /\ n \in Buckets /\ n # c /\ m \in table[c]
      BY <2>4, <2>5
    <3> QED BY ONLY <2>6, <2>7, <3>1, <3>2, <3>3, ConserveShortcut
  <2> QED BY <2>2, <2>3, <2>8 DEF ConserveInv, ChainInv, PadInv
<1>6. CASE ChainEvict
  <2>1. PICK v \in table[current_bucket] : SwapInto(current_bucket, carried, v)
    BY <1>6 DEF ChainEvict
  <2>2. /\ pc = "chain"
        /\ pc' = "chain"
        /\ UNCHANGED <<filled_slots, incoming, committed>>
    BY <1>6 DEF ChainEvict, InChain
  <2>3. /\ carried \notin Stored(table)
        /\ Stored(table) \cup {carried} = Stored(committed) \cup {incoming}
        /\ incoming \notin Stored(committed)
        /\ filled_slots < Capacity
        /\ carried \in Record
        /\ current_bucket \in Buckets
    BY <2>2 DEF ConserveInv, ChainInv, Stages, TypeOK
  <2>4. /\ AllDistinct(journal', table')
        /\ carried' \notin Stored(table')
        /\ Stored(table') \cup {carried'} = Stored(table) \cup {carried}
    BY <1>1, <2>1, <2>3, ConserveSwap
  <2> QED BY <2>2, <2>3, <2>4 DEF ConserveInv, ChainInv, PadInv
<1>7. CASE UndoWrite
  <2> DEFINE u == Unwind(journal)
  <2>1. /\ journal # <<>>
        /\ table' = [table EXCEPT ![u.write.bucket] = u.write.snapshot]
        /\ journal' = u.rest
        /\ pc \in {"undo_insert", "undo_pad"}
        /\ UNCHANGED <<pc, filled_slots, incoming, committed>>
    BY <1>7 DEF UndoWrite
  <2>2. AllDistinct(u.rest, [table EXCEPT ![u.write.bucket] = u.write.snapshot])
    BY <1>1, <2>1, PassedUnwind DEF TypeOK
  <2> HIDE DEF u
  <2> QED BY <2>1, <2>2 DEF ConserveInv, ChainInv, PadInv
<1>8. ASSUME NEW result, Return(result), table' = table
      PROVE  ConserveInv'
  BY <1>1, <1>8, ConserveReturn
<1>9. CASE \/ \E k \in Keys : InsertAtCapacity(k)
           \/ InsertCommits \/ InsertFails \/ PadFails \/ PadCommit
  BY <1>8, <1>9
     DEF InsertAtCapacity, InsertCommits, InsertFails, PadFails, PadCommit, object
<1>10. CASE PadBegin
  <2>1. table = committed
    BY <1>10, IdleTable DEF PadBegin
  <2>2. /\ pc' = "pad"
        /\ bucket_index' = 0
        /\ generated' = 0
        /\ UNCHANGED <<table, journal, committed>>
    BY <1>10 DEF PadBegin, object, locals, Stages
  <2>3. Cardinality(Stored(table)) \in Nat
    BY <1>1, StoredFinite
  <2>4. AllDistinct(journal', table')
    BY <1>1, <2>2
  <2>5. PadInv'
    BY <2>1, <2>2, <2>3 DEF PadInv, Buckets
  <2> QED BY <2>2, <2>4, <2>5 DEF ConserveInv, ChainInv
<1>11. CASE ChainExhausted
  BY <1>1, <1>11 DEF ChainExhausted, object, locals, ConserveInv, ChainInv, PadInv
<1>12. CASE PadThrows
  BY <1>1, <1>12 DEF PadThrows, object, locals, ConserveInv, ChainInv, PadInv
<1>13. CASE UNCHANGED vars
  BY <1>13 DEF vars, object, locals, ConserveInv, ChainInv, PadInv
<1> QED
  BY <1>2, <1>3, <1>4, <1>5, <1>6, <1>7, <1>9, <1>10, <1>11, <1>12, <1>13,
     ConservePad DEF Next, Call, Continue

-----------------------------------------------------------------------------
(* What a call does to the index it was made on.                           *)

\* A table whose buckets are full and share no record holds as many records
\* as it has slots.
LEMMA FullTable ==
  ASSUME NEW t \in Tables, Distinct(t),
         \A b \in Buckets : Cardinality(t[b]) = SlotsPerBucket
  PROVE  Cardinality(Stored(t)) = Capacity
<1> DEFINE Slots == Buckets \X (1 .. SlotsPerBucket)
           F == [b \in Buckets |->
                   CHOOSE f : f \in Bijection(1 .. SlotsPerBucket, t[b])]
           G == [p \in Slots |-> F[p[1]][p[2]]]
<1>1. ASSUME NEW b \in Buckets
      PROVE  /\ F[b] \in [1 .. SlotsPerBucket -> t[b]]
             /\ \A i, k \in 1 .. SlotsPerBucket : F[b][i] = F[b][k] => i = k
             /\ \A r \in t[b] : \E i \in 1 .. SlotsPerBucket : F[b][i] = r
  <2>1. ExistsBijection(1 .. SlotsPerBucket, t[b])
    <3>1. IsFiniteSet(t[b])
      BY ContentsFinite DEF Tables
    <3> QED BY <3>1, FS_CardinalityType
  <2>2. F[b] \in Bijection(1 .. SlotsPerBucket, t[b])
    BY <2>1 DEF ExistsBijection
  <2> HIDE DEF F
  <2> QED BY <2>2 DEF Bijection, Injection, Surjection, IsInjective
<1> HIDE DEF F
<1>2. G \in [Slots -> Stored(t)]
  <2> SUFFICES ASSUME NEW b \in Buckets, NEW i \in 1 .. SlotsPerBucket
               PROVE  F[b][i] \in Stored(t)
    OBVIOUS
  <2>1. F[b] \in [1 .. SlotsPerBucket -> t[b]]
    BY <1>1
  <2> QED BY <2>1 DEF Stored
<1>3. ASSUME NEW p \in Slots, NEW q \in Slots, G[p] = G[q]
      PROVE  p = q
  <2>1. /\ p[1] \in Buckets /\ p[2] \in 1 .. SlotsPerBucket
        /\ q[1] \in Buckets /\ q[2] \in 1 .. SlotsPerBucket
        /\ p = <<p[1], p[2]>> /\ q = <<q[1], q[2]>>
        /\ F[p[1]][p[2]] = F[q[1]][q[2]]
    BY <1>3
  <2>2. F[p[1]][p[2]] \in t[p[1]] /\ F[q[1]][q[2]] \in t[q[1]]
    <3>1. /\ F[p[1]] \in [1 .. SlotsPerBucket -> t[p[1]]]
          /\ F[q[1]] \in [1 .. SlotsPerBucket -> t[q[1]]]
      BY <1>1, <2>1
    <3> QED BY <2>1, <3>1
  <2>3. p[1] = q[1]
    BY <2>1, <2>2 DEF Distinct
  <2>4. p[2] = q[2]
    BY <1>1, <2>1, <2>3
  <2> QED BY <2>1, <2>3, <2>4
<1>4. ASSUME NEW r \in Stored(t)
      PROVE  \E p \in Slots : G[p] = r
  <2>1. PICK b \in Buckets : r \in t[b]
    BY DEF Stored
  <2>2. PICK i \in 1 .. SlotsPerBucket : F[b][i] = r
    BY <1>1, <2>1
  <2> QED BY <2>2, <<b, i>> \in Slots
<1>5. IsFiniteSet(Slots) /\ Cardinality(Slots) = Capacity
  <2>1. IsFiniteSet(Buckets) /\ Cardinality(Buckets) = BucketCount
    BY SizeAssumption, FS_Interval DEF Buckets
  <2>2. /\ IsFiniteSet(1 .. SlotsPerBucket)
        /\ Cardinality(1 .. SlotsPerBucket) = SlotsPerBucket
    BY SizeAssumption, FS_Interval
  <2>3. /\ IsFiniteSet(Slots)
        /\ Cardinality(Slots) = Cardinality(Buckets) * Cardinality(1 .. SlotsPerBucket)
    BY <2>1, <2>2, FS_Product
  <2> HIDE DEF Slots
  <2> QED BY <2>1, <2>2, <2>3 DEF Capacity
<1> HIDE DEF Slots, G
<1>6. G \in Bijection(Slots, Stored(t))
  BY <1>2, <1>3, <1>4 DEF Bijection, Injection, Surjection, IsInjective
<1> QED BY <1>5, <1>6, FS_Bijection DEF ExistsBijection

\* An insert that returns true, after a chain of so many steps.
Stores(r, steps) ==
  /\ r \in GenuineRecords
  /\ r \notin Stored(committed)
  /\ Stored(committed') = Stored(committed) \cup {r}
  /\ filled_slots < Capacity
  /\ filled_slots' = filled_slots + 1
  /\ steps <= MaxEvictions
  /\ CountSuccess(steps)
  /\ ~padded /\ padded' = padded
  /\ outcome' = "stored"

\* One that returns false, because the table is full or after a rollback.
Refuses ==
  /\ committed' = committed
  /\ \/ /\ filled_slots >= Capacity
        /\ statistics' = [statistics EXCEPT !.failed_inserts = @ + 1]
     \/ CountRollBack
  /\ filled_slots' = filled_slots
  /\ ~padded /\ padded' = padded
  /\ outcome' = "refused"

\* Padding that returns.
Pads ==
  /\ Stored(committed) \subseteq Stored(committed')
  /\ Stored(committed') \ Stored(committed) \subseteq DummyRecords
  /\ Cardinality(Stored(committed')) = Capacity
  /\ Cardinality(Stored(committed'))
       = Cardinality(Stored(committed)) + generated
  /\ filled_slots' = filled_slots + generated
  /\ statistics' = statistics
  /\ ~padded /\ padded' = TRUE
  /\ outcome' = "padded"

\* Padding that throws.
Throws ==
  /\ UNCHANGED <<committed, filled_slots, statistics>>
  /\ ~padded /\ padded' = padded
  /\ outcome' = "threw"

\* A call that goes on, whose caller still waits.
GoesOn == UNCHANGED <<committed, filled_slots, statistics, padded, outcome>>

\* There is nothing else a step can do.
LEMMA CallEffects ==
  ASSUME SafetyInv, ConserveInv, [Next]_vars
  PROVE  \/ \E r \in GenuineRecords, steps \in Nat : Stores(r, steps)
         \/ Refuses
         \/ Pads
         \/ Throws
         \/ GoesOn
<1> USE DEF SafetyInv, RollBackInv
<1>1. pc # "idle" => ~padded
  BY DEF HomeInv
<1>2. ASSUME NEW k \in Keys, InsertAtCapacity(k)
      PROVE  Refuses
  <2>1. table = committed
    BY <1>2, IdleTable DEF InsertAtCapacity, MayInsert
  <2> QED BY <1>2, <2>1 DEF InsertAtCapacity, MayInsert, Return, Refuses
<1>3. ASSUME NEW k \in Keys, InsertDirectly(k)
      PROVE  Stores(RecordOf(k), 0)
  <2> DEFINE d == Destination(k)
  <2>1. /\ table' = [table EXCEPT ![d] = table[d] \cup {RecordOf(k)}]
        /\ committed' = table'
        /\ outcome' = "stored"
        /\ filled_slots < Capacity
        /\ filled_slots' = filled_slots + 1
        /\ CountSuccess(0)
        /\ ~padded /\ padded' = padded
    BY <1>3 DEF InsertDirectly, MayInsert, Return
  <2>2. d \in Buckets
    BY RecordOfType DEF Destination, CandidateBuckets
  <2> HIDE DEF d
  <2>3. /\ table \in Tables
        /\ Distinct(table)
        /\ table = committed
        /\ RecordOf(k) \notin Stored(table)
    BY <1>3, InsertStarts DEF InsertDirectly
  <2>4. Distinct(table') /\ Stored(table') = Stored(table) \cup {RecordOf(k)}
    <3>1. table \in Tables /\ Distinct(table) /\ RecordOf(k) \notin Stored(table)
      BY <2>3
    <3>2. table' = [table EXCEPT ![d] = table[d] \cup {RecordOf(k)}]
      BY <2>1
    <3> QED BY ONLY <2>2, <3>1, <3>2, AddStored
  <2>5. /\ Stored(committed') = Stored(committed) \cup {RecordOf(k)}
        /\ RecordOf(k) \notin Stored(committed)
    BY <2>1, <2>3, <2>4
  <2>6. RecordOf(k) \in GenuineRecords /\ 0 <= MaxEvictions
    BY RecordOfType, SizeAssumption
  <2> QED BY <2>1, <2>5, <2>6 DEF Stores
<1>4. CASE InsertCommits
  <2>1. /\ pc = "commit"
        /\ committed' = table
        /\ outcome' = "stored"
        /\ filled_slots' = filled_slots + 1
        /\ CountSuccess(chain_length + 1)
        /\ padded' = padded
    BY <1>4 DEF InsertCommits, Return
  <2>2. /\ Stored(table) = Stored(committed) \cup {incoming}
        /\ incoming \notin Stored(committed)
        /\ filled_slots < Capacity
    BY <2>1 DEF ConserveInv, ChainInv
  <2>3. /\ incoming \in GenuineRecords
        /\ chain_length + 1 \in Nat
        /\ chain_length + 1 <= MaxEvictions
    BY <2>1, SizeAssumption DEF Stages, TypeOK
  <2>4. Stores(incoming, chain_length + 1)
    BY <1>1, <2>1, <2>2, <2>3 DEF Stores
  <2> QED BY <2>3, <2>4
<1>5. CASE InsertFails
  <2>1. table = committed
    BY <1>5, IdleTable DEF InsertFails
  <2> QED BY <1>1, <1>5, <2>1 DEF InsertFails, Return, Refuses
<1>6. CASE PadFails
  <2>1. table = committed
    BY <1>6, IdleTable DEF PadFails
  <2> QED BY <1>1, <1>6, <2>1 DEF PadFails, Return, Throws, object
<1>7. CASE PadCommit
  <2>1. /\ pc = "pad"
        /\ bucket_index = BucketCount
        /\ committed' = table
        /\ outcome' = "padded"
        /\ filled_slots' = filled_slots + generated
        /\ padded' = TRUE
        /\ statistics' = statistics
    BY <1>7 DEF PadCommit, Return
  <2>2. table \in Tables /\ Distinct(table)
    BY PassedLast DEF ConserveInv, TypeOK, Tables
  <2>3. /\ \A b \in Buckets : committed[b] \subseteq table[b]
        /\ \A b \in Buckets : table[b] \ committed[b] \subseteq DummyRecords
        /\ \A b \in Buckets : Cardinality(table[b]) = SlotsPerBucket
        /\ Cardinality(Stored(table)) = Cardinality(Stored(committed)) + generated
    BY <2>1, SizeAssumption DEF ConserveInv, PadInv, Buckets
  <2>4. /\ Stored(committed) \subseteq Stored(table)
        /\ Stored(table) \ Stored(committed) \subseteq DummyRecords
    BY <2>3 DEF Stored
  <2>5. Cardinality(Stored(table)) = Capacity
    BY <2>2, <2>3, FullTable
  <2> QED BY <1>1, <2>1, <2>3, <2>4, <2>5 DEF Pads
<1>8. CASE UNCHANGED vars
  BY <1>8 DEF vars, object, GoesOn
<1>9. CASE \/ \E k \in Keys : InsertByEviction(k)
           \/ ChainPlace \/ ChainShortcut \/ ChainEvict \/ ChainExhausted
           \/ UndoWrite \/ PadBegin \/ PadBucket \/ PadThrows
  BY <1>9 DEF InsertByEviction, ChainPlace, ChainShortcut, ChainEvict,
              ChainExhausted, UndoWrite, PadBegin, PadBucket, PadThrows,
              object, GoesOn
<1> QED
  BY <1>2, <1>3, <1>4, <1>5, <1>6, <1>7, <1>8, <1>9, RecordOfType
     DEF Next, Call, Continue

-----------------------------------------------------------------------------
(* The counters.                                                           *)

\* size() is exact and never beyond the capacity.
CountInv == FilledSlotsExact /\ filled_slots <= Capacity

\* A new table holds nothing, and so says its size.
LEMMA CountInit == Init => CountInv
<1> SUFFICES ASSUME Init PROVE CountInv
  OBVIOUS
<1>1. Stored(committed) = {}
  BY DEF Init, Stored
<1>2. Cardinality(Stored(committed)) = 0
  BY <1>1, FS_EmptySet
<1>3. Capacity \in Nat
  BY SizeAssumption DEF Capacity
<1> QED BY <1>2, <1>3 DEF Init, CountInv, FilledSlotsExact

\* The size follows the records that are committed.
LEMMA CountStep ==
  ASSUME SafetyInv, ConserveInv, CountInv, [Next]_vars
  PROVE  CountInv'
<1>1. /\ filled_slots = Cardinality(Stored(committed))
      /\ filled_slots \in Nat
      /\ filled_slots <= Capacity
      /\ Capacity \in Nat
      /\ IsFiniteSet(Stored(committed))
  BY StoredFinite, SizeAssumption
     DEF CountInv, FilledSlotsExact, SafetyInv, RollBackInv, TypeOK, Tables,
         Capacity
<1>2. ASSUME NEW r \in GenuineRecords, NEW steps \in Nat, Stores(r, steps)
      PROVE  CountInv'
  <2>1. Cardinality(Stored(committed')) = filled_slots + 1
    BY <1>1, <1>2, FS_AddElement DEF Stores
  <2> QED BY <1>1, <1>2, <2>1 DEF Stores, CountInv, FilledSlotsExact
<1>3. CASE Refuses
  BY <1>1, <1>3 DEF Refuses, CountInv, FilledSlotsExact
<1>4. CASE Pads
  BY <1>1, <1>4 DEF Pads, CountInv, FilledSlotsExact
<1>5. CASE Throws
  BY <1>1, <1>5 DEF Throws, CountInv, FilledSlotsExact
<1>6. CASE GoesOn
  BY <1>6 DEF GoesOn, CountInv, FilledSlotsExact
<1> QED BY <1>2, <1>3, <1>4, <1>5, <1>6, CallEffects

\* A sum of k chains of at most m steps, and one chain more.
LEMMA ChainSum ==
  ASSUME NEW a \in Nat, NEW m \in Nat, NEW k \in Nat, a <= m * k,
         NEW n \in Nat, NEW M \in Nat, m <= M, n <= M
  PROVE  a + n <= M * (k + 1)
<1>1. m * k <= M * k
  OBVIOUS
<1>2. M * (k + 1) = M * k + M /\ m * k \in Nat /\ M * k \in Nat
  OBVIOUS
<1> QED BY <1>1, <1>2

\* What the counters of chains say, with calls chains counted.
ChainCounters(s, calls) ==
  /\ s.maximum_eviction_chain <= MaxEvictions
  /\ s.maximum_eviction_chain <= s.eviction_steps
  /\ s.eviction_steps <= s.maximum_eviction_chain * calls

\* A call that has evicted n records is added to the sum and to the maximum.
LEMMA ChainCounted ==
  ASSUME NEW s \in Statistics, NEW calls \in Nat, ChainCounters(s, calls),
         NEW n \in Nat, n <= MaxEvictions,
         NEW t, t.eviction_steps = s.eviction_steps + n,
         t.maximum_eviction_chain = Larger(s.maximum_eviction_chain, n)
  PROVE  ChainCounters(t, calls + 1)
<1> DEFINE a == s.eviction_steps
           m == s.maximum_eviction_chain
           M == Larger(m, n)
<1>1. a \in Nat /\ m \in Nat /\ m <= MaxEvictions /\ m <= a /\ a <= m * calls
  BY DEF ChainCounters, Statistics
<1> HIDE DEF a, m
<1>2. /\ M \in Nat /\ m <= M /\ n <= M
      /\ M <= MaxEvictions /\ M <= a + n
  BY <1>1, SizeAssumption DEF Larger
<1> HIDE DEF M
<1>3. a + n <= M * (calls + 1)
  BY <1>1, <1>2, ChainSum
<1> QED BY <1>2, <1>3 DEF ChainCounters, a, m, M

\* The benchmark's counters, one property of each kind of call.
StatisticsInv ==
  /\ statistics.successful_inserts
       = Cardinality(Stored(committed) \cap GenuineRecords)
  /\ statistics.rollback_count <= statistics.failed_inserts
  /\ statistics.failed_inserts > statistics.rollback_count =>
       filled_slots = Capacity
  /\ ChainCounters(statistics,
       statistics.successful_inserts + statistics.rollback_count)

\* Nothing has been counted.
LEMMA StatisticsInit == Init => StatisticsInv
<1> SUFFICES ASSUME Init PROVE StatisticsInv
  OBVIOUS
<1>1. Stored(committed) \cap GenuineRecords = {}
  BY DEF Init, Stored
<1>2. Cardinality(Stored(committed) \cap GenuineRecords) = 0
  BY <1>1, FS_EmptySet
<1> QED BY <1>2, SizeAssumption DEF Init, StatisticsInv, ChainCounters

\* Each call is counted once, for what it did.
LEMMA StatisticsStep ==
  ASSUME SafetyInv, ConserveInv, CountInv, StatisticsInv, [Next]_vars
  PROVE  StatisticsInv'
<1> DEFINE s == statistics
           genuine == Stored(committed) \cap GenuineRecords
<1>0. TypeOK /\ TypeOK'
  BY TypeStep DEF SafetyInv, RollBackInv
<1>1. /\ s \in Statistics
      /\ s' \in Statistics
      /\ filled_slots \in Nat
      /\ filled_slots <= Capacity
      /\ Capacity \in Nat
  BY <1>0, SizeAssumption DEF TypeOK, CountInv, Capacity
<1>2. IsFiniteSet(genuine)
  <2>1. IsFiniteSet(Stored(committed))
    BY <1>0, StoredFinite DEF TypeOK, Tables
  <2> QED BY <2>1, FS_Subset
<1>3. ASSUME NEW r \in GenuineRecords, NEW steps \in Nat, Stores(r, steps)
      PROVE  StatisticsInv'
  <2>1. /\ s'.successful_inserts = s.successful_inserts + 1
        /\ s'.failed_inserts = s.failed_inserts
        /\ s'.rollback_count = s.rollback_count
        /\ s'.eviction_steps = s.eviction_steps + steps
        /\ s'.maximum_eviction_chain = Larger(s.maximum_eviction_chain, steps)
    BY <1>1, <1>3 DEF Stores, CountSuccess, Statistics
  <2>2. genuine' = genuine \cup {r} /\ r \notin genuine
    BY <1>3 DEF Stores
  <2>3. Cardinality(genuine') = Cardinality(genuine) + 1
    BY <1>2, <2>2, FS_AddElement
  <2>4. s.failed_inserts <= s.rollback_count
    BY <1>1, <1>3 DEF Stores, StatisticsInv, Statistics
  <2>5. ChainCounters(s', s.successful_inserts + s.rollback_count + 1)
    BY <1>1, <1>3, <2>1, ChainCounted DEF Stores, StatisticsInv, Statistics
  <2> QED BY <1>1, <2>1, <2>3, <2>4, <2>5 DEF StatisticsInv, Statistics
<1>4. CASE Refuses
  <2>1. genuine' = genuine /\ filled_slots' = filled_slots
    BY <1>4 DEF Refuses
  <2>2. CASE /\ filled_slots >= Capacity
             /\ s' = [s EXCEPT !.failed_inserts = @ + 1]
    <3>1. /\ s'.successful_inserts = s.successful_inserts
          /\ s'.failed_inserts = s.failed_inserts + 1
          /\ s'.rollback_count = s.rollback_count
          /\ s'.eviction_steps = s.eviction_steps
          /\ s'.maximum_eviction_chain = s.maximum_eviction_chain
      BY <1>1, <2>2 DEF Statistics
    <3>2. filled_slots = Capacity
      BY <1>1, <2>2
    <3>3. s'.successful_inserts = Cardinality(genuine')
      BY <2>1, <3>1 DEF StatisticsInv
    <3>4. s'.rollback_count <= s'.failed_inserts
      BY <1>1, <3>1 DEF StatisticsInv, Statistics
    <3>5. ChainCounters(s', s'.successful_inserts + s'.rollback_count)
      BY <3>1 DEF StatisticsInv, ChainCounters
    <3> QED BY <2>1, <3>2, <3>3, <3>4, <3>5 DEF StatisticsInv
  <2>3. CASE CountRollBack
    <3>0. chain_length \in Nat /\ chain_length <= MaxEvictions
      BY <1>0, SizeAssumption DEF TypeOK
    <3>1. /\ s'.successful_inserts = s.successful_inserts
          /\ s'.failed_inserts = s.failed_inserts + 1
          /\ s'.rollback_count = s.rollback_count + 1
          /\ s'.eviction_steps = s.eviction_steps + chain_length
          /\ s'.maximum_eviction_chain
               = Larger(s.maximum_eviction_chain, chain_length)
      BY <1>1, <2>3 DEF CountRollBack, Statistics
    <3>2. ChainCounters(s', s.successful_inserts + s.rollback_count + 1)
      BY <1>1, <3>0, <3>1, ChainCounted DEF StatisticsInv, Statistics
    <3>3. s'.successful_inserts = Cardinality(genuine')
      BY <2>1, <3>1 DEF StatisticsInv
    <3>4. /\ s'.rollback_count <= s'.failed_inserts
          /\ s'.failed_inserts > s'.rollback_count
               <=> s.failed_inserts > s.rollback_count
      BY <1>1, <3>1 DEF StatisticsInv, Statistics
    <3>5. ChainCounters(s', s'.successful_inserts + s'.rollback_count)
      <4>1. s'.successful_inserts + s'.rollback_count
              = s.successful_inserts + s.rollback_count + 1
        BY <1>1, <3>1 DEF Statistics
      <4> QED BY <3>2, <4>1
    <3> QED BY <2>1, <3>3, <3>4, <3>5 DEF StatisticsInv
  <2> QED BY <1>4, <2>2, <2>3 DEF Refuses
<1>5. CASE Pads
  <2>1. genuine' = genuine
    <3>1. ASSUME NEW r \in DummyRecords, r \in GenuineRecords
          PROVE  FALSE
      BY <3>1, GenuineRecord, KeyAssumption DEF DummyRecords
    <3> QED BY <1>5, <3>1 DEF Pads
  <2>2. filled_slots' = Capacity
    BY <1>5 DEF Pads, CountInv, FilledSlotsExact
  <2> QED BY <1>5, <2>1, <2>2 DEF Pads, StatisticsInv, ChainCounters
<1>6. CASE Throws
  BY <1>6 DEF Throws, StatisticsInv, ChainCounters
<1>7. CASE GoesOn
  BY <1>7 DEF GoesOn, StatisticsInv, ChainCounters
<1> QED BY <1>3, <1>4, <1>5, <1>6, <1>7, CallEffects

-----------------------------------------------------------------------------
(* Theorems.                                                               *)

RefinementInv == SafetyInv /\ ConserveInv /\ CountInv /\ StatisticsInv

\* Every reachable state satisfies the invariant.
THEOREM RefinementInvariant == Spec => []RefinementInv
<1>1. Init => RefinementInv
  BY RollBackInit, HomeInit, FullInit, ConserveInit, CountInit, StatisticsInit
     DEF RefinementInv, SafetyInv
<1>2. RefinementInv /\ [Next]_vars => RefinementInv'
  BY TypeStep, StagesStep, JournalCoversStep, HomeStep, FullStep, ConserveStep,
     CountStep, StatisticsStep
     DEF RefinementInv, SafetyInv, RollBackInv
<1> QED BY <1>1, <1>2, PTL DEF Spec

\* No step of a chain, of a rollback or of padding loses a record or stores
\* one twice.
THEOREM ChainsConserveRecords == Spec => []RecordsConserved
<1>1. RefinementInv => RecordsConserved
  <2> SUFFICES ASSUME RefinementInv PROVE RecordsConserved
    OBVIOUS
  <2>1. Distinct(table)
    BY PassedLast DEF RefinementInv, SafetyInv, RollBackInv, TypeOK, ConserveInv
  <2> QED BY <2>1
    DEF RefinementInv, ConserveInv, ChainInv, RecordsConserved, Distinct
<1> QED BY <1>1, RefinementInvariant, PTL

\* size() counts the records of the last completed call's table, and a padded
\* index is full.
THEOREM SizeIsExact == Spec => []FilledSlotsExact
<1>1. RefinementInv => FilledSlotsExact
  BY DEF RefinementInv, CountInv
<1> QED BY <1>1, RefinementInvariant, PTL

\* The statistics the benchmark sums over its attempts say what happened.
THEOREM StatisticsAreTrue == Spec => []StatisticsAgree
<1>1. RefinementInv => StatisticsAgree
  BY DEF RefinementInv, StatisticsInv, ChainCounters, StatisticsAgree
<1> QED BY <1>1, RefinementInvariant, PTL

\* LabelIndex counts as this module does: the instance has a Cardinality of
\* its own.
LEMMA SameCardinality ==
  ASSUME NEW S
  PROVE  Index!Cardinality(S) = Cardinality(S)
BY DEF Index!Cardinality, Cardinality

\* To its callers PairedVacuumFilter is LabelIndex: a set of records that an
\* insert extends by its record or leaves alone, until padding fills it.
THEOREM FilterImplementsIndex == Spec => ImplementsIndex
<1>1. Init => Index!Init
  BY DEF Init, Index!Init, Stored
<1>2. ASSUME RefinementInv, [Next]_vars
      PROVE  [Index!Next]_Index!vars
  <2> USE DEF RefinementInv
  <2>1. ASSUME NEW r \in GenuineRecords, NEW steps \in Nat, Stores(r, steps)
        PROVE  Index!Store(r)
    <3>1. Index!Cardinality(Stored(committed)) < Capacity
      BY <1>2, <2>1, SameCardinality DEF Stores, CountInv, FilledSlotsExact
    <3>2. /\ ~padded /\ padded' = padded
          /\ r \notin Stored(committed)
          /\ Stored(committed)' = Stored(committed) \cup {r}
          /\ outcome' = "stored"
      BY <2>1 DEF Stores
    <3> QED BY <3>1, <3>2 DEF Index!Store
  <2>2. CASE Refuses
    BY <2>2 DEF Refuses, Index!Refuse, Index!Next
  <2>3. CASE Pads
    <3>1. /\ ~padded /\ padded' = TRUE
          /\ Stored(committed) \subseteq Stored(committed)'
          /\ Stored(committed)' \ Stored(committed) \subseteq DummyRecords
          /\ Index!Cardinality(Stored(committed)') = Capacity
          /\ outcome' = "padded"
      BY <2>3, SameCardinality DEF Pads
    <3>2. Index!Seal
      BY <3>1 DEF Index!Seal
    <3> QED BY <3>2 DEF Index!Next
  <2>4. CASE Throws
    BY <2>4 DEF Throws, Index!Abort, Index!Next
  <2>5. CASE GoesOn
    BY <2>5 DEF GoesOn, Index!vars
  <2> QED BY <1>2, <2>1, <2>2, <2>3, <2>4, <2>5, CallEffects DEF Index!Next
<1> QED BY <1>1, <1>2, RefinementInvariant, PTL DEF Spec, ImplementsIndex, Index!Spec
=============================================================================
