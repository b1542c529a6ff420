---------------------------- MODULE BucketCodec -----------------------------
(***************************************************************************)
(* How PairedVacuumFilter stores a bucket: WriteBucket sorts its four      *)
(* records by fingerprint and packs the low bits one after the other,      *)
(* followed by a 12-bit code for the four high nibbles, whose order the    *)
(* sort has made redundant.  That saves one bit per slot, and buckets meet *)
(* in the middle of a byte.  ReadBucket is the way back.                   *)
(*                                                                         *)
(* The storage is the set of the positions of its one bits: the byte-wise  *)
(* windows that ReadBits and WriteBits copy leave every bit outside the    *)
(* field as it was, so that only where they lie matters.                   *)
(***************************************************************************)
EXTENDS Integers, FiniteSetsExt

CONSTANTS
  Widths,        \* values of FingerprintBits to check
  BucketCount,
  Records(_)     \* the records callers store, for a width

ASSUME WidthAssumption ==
  /\ Widths \subseteq 5 .. 64
  /\ BucketCount \in Nat \ {0}

\* A fingerprint fits its width and is not the empty slot's (FingerprintMask,
\* Metadata).
ASSUME RecordAssumption ==
  \A bits \in Widths : \A r \in Records(bits) :
    /\ r = [fingerprint |-> r.fingerprint, payload |-> r.payload]
    /\ r.fingerprint \in 1 .. 2 ^ bits - 1

VARIABLES
  fingerprint_bits,
  storage,           \* fingerprint_storage_: the positions of its one bits
  payloads,          \* payloads_
  written            \* history: bucket -> how often WriteBucket was last given
                     \* each record for it

vars == <<fingerprint_bits, storage, payloads, written>>

Buckets == 0 .. BucketCount - 1
Slots == 0 .. 3
Empty == [fingerprint |-> 0, payload |-> "none"]
Storable == Records(fingerprint_bits) \cup {Empty}

low_width == fingerprint_bits - 4
EncodedBitsPerBucket == 4 * (fingerprint_bits - 1)
Start(p) == p * EncodedBitsPerBucket

logical_fingerprint_bytes == (BucketCount * EncodedBitsPerBucket + 7) \div 8

\* Mutant: no guard bytes.
StorageBytesUnguarded == logical_fingerprint_bytes

StorageBytes == logical_fingerprint_bytes + 16

-----------------------------------------------------------------------------
(* Bit fields.                                                             *)

\* The number of this width whose one bits these are, and the one bits of a
\* number.
Value(ones, width) ==
  LET sum[n \in 0 .. width] ==
        IF n = 0 THEN 0
        ELSE sum[n - 1] + (IF n - 1 \in ones THEN 2 ^ (n - 1) ELSE 0)
  IN sum[width]

Ones(value, width) == {i \in 0 .. width - 1 : (value \div 2 ^ i) % 2 = 1}

Field(bits, position, width) == {i \in 0 .. width - 1 : position + i \in bits}

ReadBits(position, width) == Value(Field(storage, position, width), width)

\* Mutant: the field's old bits are not cleared.
WriteBitsOver(bits, position, width, value) ==
  bits \cup {position + i : i \in Ones(value, width)}

WriteBits(bits, position, width, value) ==
  (bits \ (position .. position + width - 1))
    \cup {position + i : i \in Ones(value, width)}

-----------------------------------------------------------------------------
(* The code of four nibbles.                                               *)

NonIncreasing(nibbles) == \A s \in 0 .. 2 : nibbles[s] >= nibbles[s + 1]

SortedNibbles == {nibbles \in [Slots -> 0 .. 15] : NonIncreasing(nibbles)}

\* The indexes the constructor hands out: one for each way to sort four
\* nibbles, which it checks.
Codes == 0 .. 3875

\* How often the body of n nested loops runs whose first index is below m and
\* whose others do not exceed the one before it.
Turns(n, m) ==
  CASE n = 1 -> m
    [] n = 2 -> (m * (m + 1)) \div 2
    [] n = 3 -> (m * (m + 1) * (m + 2)) \div 6
    [] n = 4 -> (m * (m + 1) * (m + 2) * (m + 3)) \div 24

\* The table's index when the constructor comes to these nibbles.  Where it
\* never comes, the table keeps its zero.
Encode(nibbles) ==
  IF NonIncreasing(nibbles)
  THEN Turns(4, nibbles[0]) + Turns(3, nibbles[1]) + Turns(2, nibbles[2])
         + Turns(1, nibbles[3])
  ELSE 0

\* The largest nibble whose turns are not more than the index.
Nibble(n, index) == Max({m \in 0 .. 15 : Turns(n, m) <= index})

\* Its inverse, and four zeros for the indexes the constructor never reached.
Decode(index) ==
  LET i == Nibble(4, index)
      j == Nibble(3, index - Turns(4, i))
      k == Nibble(2, index - Turns(4, i) - Turns(3, j))
      l == index - Turns(4, i) - Turns(3, j) - Turns(2, k)
  IN [s \in Slots |-> IF index \in Codes THEN <<i, j, k, l>>[s + 1] ELSE 0]

-----------------------------------------------------------------------------
(* Buckets.                                                                *)

\* Slot 0 has its low bits last and its nibble first.
ReadBucket(p) ==
  LET high == Decode(ReadBits(Start(p) + 4 * low_width, 12))
  IN [s \in Slots |->
        [fingerprint |-> ReadBits(Start(p) + (3 - s) * low_width, low_width)
                           + high[s] * 2 ^ low_width,
         payload |-> payloads[4 * p + s]]]

\* std::stable_sort by descending fingerprint.
StableSort(bucket) ==
  LET Before(s, t) ==
        \/ bucket[s].fingerprint > bucket[t].fingerprint
        \/ bucket[s].fingerprint = bucket[t].fingerprint /\ s < t
      Rank(t) == Cardinality({s \in Slots : Before(s, t)})
  IN [s \in Slots |-> bucket[CHOOSE t \in Slots : Rank(t) = s]]

WriteBucket(p, bucket) ==
  LET sorted == StableSort(bucket)
      WriteLow(bits, s) ==
        WriteBits(bits, Start(p) + (3 - s) * low_width, low_width,
                  sorted[s].fingerprint % 2 ^ low_width)
      high == [s \in Slots |-> sorted[s].fingerprint \div 2 ^ low_width]
      low == WriteLow(WriteLow(WriteLow(WriteLow(storage, 0), 1), 2), 3)
  IN /\ storage' = WriteBits(low, Start(p) + 4 * low_width, 12, Encode(high))
     /\ payloads' = [i \in DOMAIN payloads |->
                       IF i \div 4 = p THEN sorted[i % 4].payload ELSE payloads[i]]

\* How often each record is in a bucket.
Tally(bucket) ==
  [r \in Storable |-> Cardinality({s \in Slots : bucket[s] = r})]

Init ==
  /\ fingerprint_bits \in Widths
  /\ storage = {}
  /\ payloads = [i \in 0 .. 4 * BucketCount - 1 |-> Empty.payload]
  /\ written = [p \in Buckets |-> Tally([s \in Slots |-> Empty])]

\* Every bucket the filter writes is one it has read, with a slot replaced:
\* by the record that comes in, or by what was there when a rollback writes
\* the bucket of a snapshot back.
ReplaceSlot(p, s, r) ==
  LET bucket == [ReadBucket(p) EXCEPT ![s] = r]
  IN /\ WriteBucket(p, bucket)
     /\ written' = [written EXCEPT ![p] = Tally(bucket)]
     /\ UNCHANGED fingerprint_bits

Next ==
  \E p \in Buckets, s \in Slots, r \in Storable : ReplaceSlot(p, s, r)

Spec == Init /\ [][Next]_vars

-----------------------------------------------------------------------------

\* The first bits of the fields of bucket p.
Fields(p) == {Start(p) + k * low_width : k \in 0 .. 4}

\* Every variable has its type, nothing is written behind the last bucket,
\* and the 16 bytes that an access copies from the first byte of its field on
\* hold the field and end inside the storage, also for the last bucket, which
\* is what the guard bytes are for (lines 468-470).
TypeOK ==
  /\ fingerprint_bits \in Widths
  /\ storage \subseteq 0 .. 8 * logical_fingerprint_bytes - 1
  /\ \A p \in Buckets : \A position \in Fields(p) :
       /\ position \div 8 + 16 <= StorageBytes
       /\ (position % 8) + Max({low_width, 12}) <= 128
  /\ DOMAIN payloads = 0 .. 4 * BucketCount - 1
  /\ written \in [Buckets -> [Storable -> 0 .. 4]]

\* Whatever has been written around it since, sharing a byte with it, a bucket
\* reads as the records last written to it, each fingerprint with its own
\* payload, in descending order: the high nibbles survive a code that has no
\* room for their order, and VacuumFilter may take a bucket for a set.
ReadsBack ==
  \A p \in Buckets :
    LET bucket == ReadBucket(p)
    IN /\ \A s \in Slots : bucket[s] \in Storable
       /\ Tally(bucket) = written[p]
       /\ \A s \in 0 .. 2 : bucket[s].fingerprint >= bucket[s + 1].fingerprint

\* As many codes as there are ways to sort four nibbles, and the two tables,
\* which the constructor fills together, undo each other: the order that the
\* sort has fixed is all that the 12-bit code leaves out.
CodecIsBijective ==
  /\ Cardinality(SortedNibbles) = Cardinality(Codes)
  /\ \A nibbles \in SortedNibbles : /\ Encode(nibbles) \in Codes
                                   /\ Decode(Encode(nibbles)) = nibbles
  /\ \A index \in Codes : /\ Decode(index) \in SortedNibbles
                          /\ Encode(Decode(index)) = index
=============================================================================
