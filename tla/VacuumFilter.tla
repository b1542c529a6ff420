---------------------------- MODULE VacuumFilter ----------------------------
(***************************************************************************)
(* PairedVacuumFilter (src/paired_vlse/include/paired_vacuum_filter.h):    *)
(* a cuckoo table of fixed size whose slots hold a fingerprint and its     *)
(* payload as one record.  Insert follows an eviction chain through the    *)
(* table, writing every bucket it changes to a journal, and rolls the      *)
(* table back when the chain finds no room.  FillEmptySlots pads what is   *)
(* left with dummies and seals the table, or rolls back when a generator   *)
(* throws.                                                                 *)
(*                                                                         *)
(* A bucket is the set of its records: which slot a record has is decided  *)
(* by WriteBucket's sort and seen by no caller.  One step of this module   *)
(* is one turn of a loop of the code, so that the chain, the rollback and  *)
(* the padding pass through every intermediate table the code builds.      *)
(***************************************************************************)
EXTENDS Integers, Sequences, FiniteSets

CONSTANTS
  Keys,               \* the (token, payload) pairs callers insert; the same
                      \* token twice is two keys with the same metadata
  Fingerprints,       \* the nonzero fingerprints
  BucketCount,        \* bucket_count_
  SlotsPerBucket,     \* kSlotsPerBucket
  MaxEvictions,       \* maximum_evictions_
  FingerprintOf,      \* Metadata(token).fingerprint
  FirstBucket,        \* Metadata(token).first_bucket
  Alternate(_, _),    \* the other candidate bucket of a fingerprint
  DummyFingerprints,  \* those the padding's generator and predicate let pass
  MaxFailures         \* bound: failed inserts, so that the counters are finite

Buckets == 0 .. BucketCount - 1
Capacity == BucketCount * SlotsPerBucket

\* A dummy's payload is the bucket it pads and its turn there: one per slot.
DummyPayloads == Buckets \X (1 .. SlotsPerBucket)

ASSUME SizeAssumption ==
  /\ BucketCount \in Nat \ {0}
  /\ SlotsPerBucket \in Nat \ {0}
  /\ MaxEvictions \in Nat
  /\ MaxFailures \in Nat

ASSUME KeyAssumption ==
  /\ IsFiniteSet(Keys)
  /\ Keys \cap DummyPayloads = {}

ASSUME FingerprintAssumption ==
  /\ IsFiniteSet(Fingerprints)
  /\ Fingerprints \subseteq Nat \ {0}
  /\ DummyFingerprints \subseteq Fingerprints
  /\ DummyFingerprints # {}
  /\ FingerprintOf \in [Keys -> Fingerprints]
  /\ FirstBucket \in [Keys -> Buckets]

\* The second candidate is inside the table and leads back to the first.
ASSUME AlternateAssumption ==
  \A b \in Buckets, f \in Fingerprints :
    /\ Alternate(b, f) \in Buckets
    /\ Alternate(Alternate(b, f), f) = b

-----------------------------------------------------------------------------

VARIABLES
  \* The object:
  table,          \* bucket -> the records in it
  filled_slots,
  padded,
  statistics,
  \* The call in progress:
  pc,             \* where it is
  incoming,       \* the record Insert was called with
  carried,        \* the record the chain holds out of the table
  current_bucket,
  chain_length,
  bucket_index,   \* FillEmptySlots' loop variable
  generated,
  journal,        \* the writes so far: bucket and its contents before
  outcome,        \* how the last call ended
  \* History:
  committed       \* the table as the last completed call left it

object == <<table, filled_slots, padded, statistics>>
locals == <<incoming, carried, current_bucket, chain_length, bucket_index,
            generated, journal>>
vars == <<object, pc, locals, outcome, committed>>

Record == [fingerprint : Fingerprints, payload : Keys \cup DummyPayloads]

\* A slot whose fingerprint is zero: no record.
Empty == [fingerprint |-> 0, payload |-> <<>>]

RecordOf(k) == [fingerprint |-> FingerprintOf[k], payload |-> k]
GenuineRecords == {RecordOf(k) : k \in Keys}
DummyRecords == [fingerprint : DummyFingerprints, payload : DummyPayloads]

Stored(t) == UNION {t[b] : b \in Buckets}

SecondBucket(k) == Alternate(FirstBucket[k], FingerprintOf[k])
CandidateBuckets(k) == {FirstBucket[k], SecondBucket(k)}

Occupied(b) == Cardinality(table[b])
Full(b) == Occupied(b) >= SlotsPerBucket

-----------------------------------------------------------------------------
(* The journal.                                                            *)

\* Mutant: a reserve that forgets the second write of a shortcut.
ReserveOneShort == MaxEvictions + 1

\* What reserve() makes room for, so that no write of Insert reallocates.
JournalReserve == MaxEvictions + 2

\* Mutant: a journal that grows at its front.
JournalWriteAtFront(j, b, before) == <<[bucket |-> b, snapshot |-> before]>> \o j

JournalWrite(j, b, before) == Append(j, [bucket |-> b, snapshot |-> before])

\* Mutants: a rollback from the journal's front, and one that never advances.
UnwindForwards(j) == [write |-> j[1], rest |-> SubSeq(j, 2, Len(j))]
UnwindForever(j) == [write |-> j[Len(j)], rest |-> j]

\* RollBack walks the journal from its end.
Unwind(j) == [write |-> j[Len(j)], rest |-> SubSeq(j, 1, Len(j) - 1)]

-----------------------------------------------------------------------------
(* What the steps have in common.                                          *)

Init ==
  /\ table = [b \in Buckets |-> {}]
  /\ filled_slots = 0
  /\ padded = FALSE
  /\ statistics = [successful_inserts |-> 0, failed_inserts |-> 0,
                   eviction_steps |-> 0, rollback_count |-> 0,
                   maximum_eviction_chain |-> 0]
  /\ pc = "idle"
  /\ incoming = Empty
  /\ carried = Empty
  /\ current_bucket = 0
  /\ chain_length = 0
  /\ bucket_index = 0
  /\ generated = 0
  /\ journal = <<>>
  /\ outcome = "none"
  /\ committed = table

\* The call returns: its locals are gone and the table is what it leaves.
Return(result) ==
  /\ pc' = "idle"
  /\ incoming' = Empty
  /\ carried' = Empty
  /\ current_bucket' = 0
  /\ chain_length' = 0
  /\ bucket_index' = 0
  /\ generated' = 0
  /\ journal' = <<>>
  /\ outcome' = result
  /\ committed' = table'

Larger(m, n) == IF m >= n THEN m ELSE n

CountSuccess(steps) ==
  statistics' = [statistics EXCEPT
    !.successful_inserts = @ + 1,
    !.eviction_steps = @ + steps,
    !.maximum_eviction_chain = Larger(@, steps)]

\* Mutant: a rollback counted as a failure only.
CountFailureOnly ==
  statistics' = [statistics EXCEPT
    !.failed_inserts = @ + 1,
    !.eviction_steps = @ + chain_length,
    !.maximum_eviction_chain = Larger(@, chain_length)]

CountRollBack ==
  statistics' = [statistics EXCEPT
    !.failed_inserts = @ + 1,
    !.rollback_count = @ + 1,
    !.eviction_steps = @ + chain_length,
    !.maximum_eviction_chain = Larger(@, chain_length)]

\* Mutant: no check of padded_.
MayInsertWhenPadded(k) ==
  /\ pc = "idle"
  /\ statistics.failed_inserts < MaxFailures
  /\ RecordOf(k) \notin Stored(table)

\* A key that may be inserted now: Insert throws once the table is padded.
MayInsert(k) ==
  /\ pc = "idle"
  /\ ~padded
  /\ statistics.failed_inserts < MaxFailures
  /\ RecordOf(k) \notin Stored(table)

-----------------------------------------------------------------------------
(* Insert.                                                                 *)

InsertAtCapacity(k) ==
  /\ MayInsert(k)
  /\ filled_slots >= Capacity
  /\ statistics' = [statistics EXCEPT !.failed_inserts = @ + 1]
  /\ UNCHANGED <<table, filled_slots, padded>>
  /\ Return("refused")

\* The emptier candidate, the first on a tie.
Destination(k) ==
  IF Occupied(FirstBucket[k]) <= Occupied(SecondBucket(k))
  THEN FirstBucket[k] ELSE SecondBucket(k)

InsertDirectly(k) ==
  /\ MayInsert(k)
  /\ filled_slots < Capacity
  /\ ~Full(Destination(k))
  /\ table' = [table EXCEPT ![Destination(k)] = @ \cup {RecordOf(k)}]
  /\ filled_slots' = filled_slots + 1
  /\ CountSuccess(0)
  /\ Return("stored")
  /\ UNCHANGED padded

\* Mutants: the alternate bucket of the wrong record; a slot overwritten
\* where it should be swapped.
SwapIntoWrongWay(b, r, victim) ==
  /\ table' = [table EXCEPT ![b] = (@ \ {victim}) \cup {r}]
  /\ carried' = victim
  /\ journal' = JournalWrite(journal, b, table[b])
  /\ current_bucket' = Alternate(b, r.fingerprint)

SwapIntoOverwriting(b, r, victim) ==
  /\ table' = [table EXCEPT ![b] = (@ \ {victim}) \cup {r}]
  /\ carried' = r
  /\ journal' = JournalWrite(journal, b, table[b])
  /\ current_bucket' = Alternate(b, r.fingerprint)

\* The record takes the slot of victim, which leaves for its other bucket.
SwapInto(b, r, victim) ==
  /\ table' = [table EXCEPT ![b] = (@ \ {victim}) \cup {r}]
  /\ carried' = victim
  /\ journal' = JournalWrite(journal, b, table[b])
  /\ current_bucket' = Alternate(b, victim.fingerprint)

\* Mutant: a chain where one full candidate is reason enough.
SomeCandidateFull(k) == \E b \in CandidateBuckets(k) : Full(b)

NoFreeCandidate(k) == \A b \in CandidateBuckets(k) : Full(b)

\* Both candidates are full: one of them gives up a record chosen at random.
InsertByEviction(k) ==
  /\ MayInsert(k)
  /\ filled_slots < Capacity
  /\ NoFreeCandidate(k)
  /\ pc' = "chain"
  /\ incoming' = RecordOf(k)
  /\ chain_length' = 0
  /\ \E b \in CandidateBuckets(k) :
       \E victim \in table[b] : SwapInto(b, RecordOf(k), victim)
  /\ UNCHANGED <<filled_slots, padded, statistics, bucket_index, generated,
                 outcome, committed>>

InChain == pc = "chain" /\ chain_length < MaxEvictions

\* The carried record finds a free slot.
ChainPlace ==
  /\ InChain
  /\ ~Full(current_bucket)
  /\ table' = [table EXCEPT ![current_bucket] = @ \cup {carried}]
  /\ journal' = JournalWrite(journal, current_bucket, table[current_bucket])
  /\ pc' = "commit"
  /\ UNCHANGED <<filled_slots, padded, statistics, incoming, carried,
                 current_bucket, chain_length, bucket_index, generated,
                 outcome, committed>>

\* Mutant: the other bucket's occupancy is not looked at.
MovableAnywhere(b) == {r \in table[b] : Alternate(b, r.fingerprint) # b}

\* The records of the bucket that could move to a free slot elsewhere.
Movable(b) ==
  {r \in table[b] : /\ Alternate(b, r.fingerprint) # b
                    /\ ~Full(Alternate(b, r.fingerprint))}

\* The first of them in slot order, which is by descending fingerprint,
\* makes room for the carried record.  The code writes two copies, of the
\* bucket and of the alternate; they are not copies of one bucket, since the
\* bucket is full and a movable record's alternate is not (line 289).
ChainShortcut ==
  /\ InChain
  /\ Full(current_bucket)
  /\ \E moved \in Movable(current_bucket) :
       LET next == Alternate(current_bucket, moved.fingerprint)
       IN /\ \A r \in Movable(current_bucket) :
               r.fingerprint <= moved.fingerprint
          /\ table' = [table EXCEPT
               ![current_bucket] = (@ \ {moved}) \cup {carried},
               ![next] = @ \cup {moved}]
          /\ journal' = JournalWrite(
               JournalWrite(journal, current_bucket, table[current_bucket]),
               next, table[next])
  /\ pc' = "commit"
  /\ UNCHANGED <<filled_slots, padded, statistics, incoming, carried,
                 current_bucket, chain_length, bucket_index, generated,
                 outcome, committed>>

\* After either: the insert has succeeded in chain_length + 1 steps.
InsertCommits ==
  /\ pc = "commit"
  /\ filled_slots' = filled_slots + 1
  /\ CountSuccess(chain_length + 1)
  /\ UNCHANGED <<table, padded>>
  /\ Return("stored")

\* Nothing can move: the chain evicts another record and follows it.
ChainEvict ==
  /\ InChain
  /\ Full(current_bucket)
  /\ Movable(current_bucket) = {}
  /\ \E victim \in table[current_bucket] :
       SwapInto(current_bucket, carried, victim)
  /\ chain_length' = chain_length + 1
  /\ UNCHANGED <<filled_slots, padded, statistics, pc, incoming,
                 bucket_index, generated, outcome, committed>>

ChainExhausted ==
  /\ pc = "chain"
  /\ chain_length >= MaxEvictions
  /\ pc' = "undo_insert"
  /\ UNCHANGED <<object, locals, outcome, committed>>

\* One write of RollBack.
UndoWrite ==
  /\ pc \in {"undo_insert", "undo_pad"}
  /\ journal # <<>>
  /\ LET undo == Unwind(journal)
     IN /\ table' = [table EXCEPT ![undo.write.bucket] = undo.write.snapshot]
        /\ journal' = undo.rest
  /\ UNCHANGED <<filled_slots, padded, statistics, pc, incoming, carried,
                 current_bucket, chain_length, bucket_index, generated,
                 outcome, committed>>

InsertFails ==
  /\ pc = "undo_insert"
  /\ journal = <<>>
  /\ CountRollBack
  /\ UNCHANGED <<table, filled_slots, padded>>
  /\ Return("refused")

-----------------------------------------------------------------------------
(* FillEmptySlots.                                                         *)

PadBegin ==
  /\ pc = "idle"
  /\ ~padded
  /\ pc' = "pad"
  /\ UNCHANGED <<object, locals, outcome, committed>>

\* The dummies a bucket with n free slots gets.  For each the generator is
\* asked again until its fingerprint is not zero and is allowed; a fingerprint
\* that is rejected changes nothing and is no step.  A generator that never
\* gives an allowed one keeps the call for ever: here it is taken to give one.
DummiesFor(b, n) ==
  {{[fingerprint |-> f[i], payload |-> <<b, i>>] : i \in 1 .. n} :
      f \in [1 .. n -> DummyFingerprints]}

FreeSlots(b) == SlotsPerBucket - Occupied(b)

PadBucket ==
  /\ pc = "pad"
  /\ bucket_index < BucketCount
  /\ \E dummies \in DummiesFor(bucket_index, FreeSlots(bucket_index)) :
       table' = [table EXCEPT ![bucket_index] = @ \cup dummies]
  /\ generated' = generated + FreeSlots(bucket_index)
  /\ journal' = IF FreeSlots(bucket_index) > 0
                THEN JournalWrite(journal, bucket_index, table[bucket_index])
                ELSE journal
  /\ bucket_index' = bucket_index + 1
  /\ UNCHANGED <<filled_slots, padded, statistics, pc, incoming, carried,
                 current_bucket, chain_length, outcome, committed>>

\* A generator or the predicate throws at an empty slot: the bucket being
\* filled is a copy and is dropped, what was written before is rolled back.
PadThrows ==
  /\ pc = "pad"
  /\ bucket_index < BucketCount
  /\ FreeSlots(bucket_index) > 0
  /\ pc' = "undo_pad"
  /\ UNCHANGED <<object, locals, outcome, committed>>

PadFails ==
  /\ pc = "undo_pad"
  /\ journal = <<>>
  /\ UNCHANGED object
  /\ Return("threw")

\* Mutant: the dummies are not counted.
PadCommitUncounted ==
  /\ pc = "pad"
  /\ bucket_index = BucketCount
  /\ padded' = TRUE
  /\ UNCHANGED <<table, filled_slots, statistics>>
  /\ Return("padded")

PadCommit ==
  /\ pc = "pad"
  /\ bucket_index = BucketCount
  /\ filled_slots' = filled_slots + generated
  /\ padded' = TRUE
  /\ UNCHANGED <<table, statistics>>
  /\ Return("padded")

-----------------------------------------------------------------------------

Call ==
  \/ \E k \in Keys : InsertAtCapacity(k)
  \/ \E k \in Keys : InsertDirectly(k)
  \/ \E k \in Keys : InsertByEviction(k)
  \/ PadBegin

\* The steps by which a call already made goes on to its return.
Continue ==
  \/ ChainPlace
  \/ ChainShortcut
  \/ ChainEvict
  \/ InsertCommits
  \/ ChainExhausted
  \/ UndoWrite
  \/ InsertFails
  \/ PadBucket
  \/ PadThrows
  \/ PadFails
  \/ PadCommit

Next == Call \/ Continue

Spec == Init /\ [][Next]_vars

\* The thread that made a call runs it: nothing in it blocks.
FairSpec == Spec /\ WF_vars(Continue)

-----------------------------------------------------------------------------
(* What is promised.                                                       *)

Statistics ==
  [successful_inserts : Nat, failed_inserts : Nat, eviction_steps : Nat,
   rollback_count : Nat, maximum_eviction_chain : Nat]

Contents == {s \in SUBSET Record : Cardinality(s) <= SlotsPerBucket}

Snapshot == [bucket : Buckets, snapshot : Contents]

\* Every variable has its type, and no bucket of the table or of the journal
\* holds more than its slots: FirstEmpty never throws "bucket is full", and
\* what RollBack writes back fits (lines 510-517 and 582-586).
TypeOK ==
  /\ table \in [Buckets -> Contents]
  /\ filled_slots \in Nat
  /\ padded \in BOOLEAN
  /\ statistics \in Statistics
  /\ pc \in {"idle", "chain", "commit", "undo_insert", "pad", "undo_pad"}
  /\ incoming \in GenuineRecords \cup {Empty}
  /\ carried \in Record \cup {Empty}
  /\ current_bucket \in Buckets
  /\ chain_length \in 0 .. MaxEvictions
  /\ bucket_index \in 0 .. BucketCount
  /\ generated \in Nat
  /\ journal \in Seq(Snapshot)
  /\ outcome \in {"none", "stored", "refused", "padded", "threw"}
  /\ committed \in [Buckets -> Contents]

\* What the locals of a call hold at each of its stages.
Stages ==
  /\ pc = "idle" => journal = <<>> /\ bucket_index = 0 /\ generated = 0
  /\ pc = "chain" => /\ carried \in Record
                     /\ incoming \in GenuineRecords
                     /\ Len(journal) = chain_length + 1
  /\ pc = "commit" => /\ incoming \in GenuineRecords
                      /\ chain_length < MaxEvictions
                      /\ Len(journal) <= chain_length + 3
  /\ pc = "undo_insert" => /\ incoming \in GenuineRecords
                           /\ Len(journal) <= MaxEvictions + 1
  /\ pc = "pad" => Len(journal) <= bucket_index
  /\ pc = "undo_pad" => Len(journal) <= BucketCount

\* No write of a journal is beyond what was reserved for it, so none of them
\* allocates, and none can throw between the change of a bucket and the
\* record of what the bucket was (lines 255 and 367).
JournalFitsReserve ==
  /\ pc \in {"chain", "commit", "undo_insert"} =>
       Len(journal) <= JournalReserve
  /\ pc \in {"pad", "undo_pad"} => Len(journal) <= BucketCount

\* The journal j leads from table t back to table c.
Covers(j, t, c) ==
  \A b \in Buckets :
    /\ (\A i \in 1 .. Len(j) : j[i].bucket # b) => t[b] = c[b]
    /\ \A i \in 1 .. Len(j) :
         (j[i].bucket = b /\ \A h \in 1 .. i - 1 : j[h].bucket # b)
           => j[i].snapshot = c[b]

\* A bucket the journal does not name is as the call found it, and what the
\* journal first saved of a bucket is what the call found in it, whatever the
\* chain wrote there afterwards: this is why unwinding it from its end, and
\* from no other, undoes the call (lines 574-586).
JournalCovers == Covers(journal, table, committed)

\* Between two calls the table is what the last completed call left, and a
\* rollback that has come to its end has rebuilt it exactly, however often
\* the chain went through one bucket (RollBack, lines 582-586).
RollBackRestores ==
  pc = "idle" \/ (pc \in {"undo_insert", "undo_pad"} /\ journal = <<>>)
    => table = committed

\* A chain neither loses nor doubles a record: the table and the record it
\* carries are what the table was and the record that came in (lines 8-9:
\* records are "evicted, committed, and rolled back as one Record").
RecordsConserved ==
  /\ \A b, c \in Buckets : b # c => table[b] \cap table[c] = {}
  /\ pc = "chain" =>
       /\ carried \notin Stored(table)
       /\ Stored(table) \cup {carried} = Stored(committed) \cup {incoming}
  /\ pc = "commit" => Stored(table) = Stored(committed) \cup {incoming}

\* Every genuine record is what its key makes it, fingerprint and payload
\* together, and is in, or on its way to, one of its two candidate buckets,
\* which Alternate computes from the fingerprint it is stored with (line 266).
GenuineAtHome ==
  /\ \A b \in Buckets : \A r \in table[b] :
       r.payload \in Keys =>
         r = RecordOf(r.payload) /\ b \in CandidateBuckets(r.payload)
  /\ pc = "chain" =>
       /\ carried \in GenuineRecords
       /\ current_bucket \in CandidateBuckets(carried.payload)

CollectMatches(b, f) == {r \in table[b] : r.fingerprint = f}

\* The vector it returns is cut from an array with room for two full buckets,
\* so that no match is dropped at the output's capacity (line 347).
QueryAll(k) ==
  UNION {CollectMatches(b, FingerprintOf[k]) : b \in CandidateBuckets(k)}

\* Whatever chains have moved a record, and whatever dummies surround it, a
\* query between two calls finds it in one of its two candidate buckets.
QueryComplete ==
  pc = "idle" =>
    \A k \in Keys : RecordOf(k) \in Stored(table) => RecordOf(k) \in QueryAll(k)

\* size() counts the records of the last completed call's table, genuine and
\* dummy, and a padded index has no free slot (lines 249, 273, 298, 394).
FilledSlotsExact ==
  /\ filled_slots = Cardinality(Stored(committed))
  /\ padded => filled_slots = Capacity

\* The statistics the benchmark sums over its attempts say what happened: one
\* success per genuine record; a failure that was no rollback was a full
\* table, which stays full; no chain is longer than the limit or than the
\* longest chain recorded.
StatisticsAgree ==
  LET s == statistics
  IN /\ s.successful_inserts = Cardinality(Stored(committed) \cap GenuineRecords)
     /\ s.rollback_count <= s.failed_inserts
     /\ s.failed_inserts > s.rollback_count => filled_slots = Capacity
     /\ s.maximum_eviction_chain <= MaxEvictions
     /\ s.maximum_eviction_chain <= s.eviction_steps
     /\ s.eviction_steps <= s.maximum_eviction_chain
                             * (s.successful_inserts + s.rollback_count)

\* A record is refused for want of a chain only where both its candidate
\* buckets are full, before the call and after its rollback.
RefusedOnlyWhenFull ==
  [][pc = "undo_insert" /\ pc' = "idle" =>
       \A b \in CandidateBuckets(incoming.payload) :
         Cardinality(table'[b]) = SlotsPerBucket]_vars

\* Callers see LabelIndex: each call adds all it should or nothing at all.
Index == INSTANCE LabelIndex WITH
  Genuine <- GenuineRecords, Dummies <- DummyRecords, Size <- Capacity,
  labels <- Stored(committed), sealed <- padded, outcome <- outcome

ImplementsIndex == Index!Spec

\* Every call returns, padding by generators that come to an end: the chain is
\* cut at the limit, the journal is finite.
CallReturns == (pc # "idle") ~> (pc = "idle")
=============================================================================
