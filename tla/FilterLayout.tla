---------------------------- MODULE FilterLayout ----------------------------
(***************************************************************************)
(* The geometry of PairedVacuumFilter: how InitializeLayout chooses the    *)
(* number of buckets and the four alternate masks, and the walk from       *)
(* bucket to bucket that Alternate makes with them, as an eviction chain   *)
(* does.  That the walk stays inside the table and goes back the way it    *)
(* came is what VacuumFilter assumes (AlternateAssumption).                *)
(***************************************************************************)
EXTENDS Integers

CONSTANTS
  Items,                        \* values of maximum_items to lay out for
  LoadPercent,                  \* target_load, in hundredths
  Fingerprints,                 \* fingerprints the walk may follow
  HashWidth,                    \* the hash is kept modulo this: 2 ^ 32
  ProperAlternateRange(_, _)    \* of a bucket count and an occupancy class:
                                \* floating-point, so given by its values

\* What the constructor checks (lines 213-218).
ASSUME ConstructorAssumption ==
  /\ Items \subseteq Nat \ {0}
  /\ LoadPercent \in 1 .. 99

ASSUME FingerprintAssumption ==
  /\ Fingerprints \subseteq Nat \ {0}
  /\ HashWidth \in Nat \ {0}

VARIABLES
  maximum_items,
  bucket_count,
  alternate_masks,
  position          \* the bucket the walk has come to

vars == <<maximum_items, bucket_count, alternate_masks, position>>

-----------------------------------------------------------------------------
(* The operators on words, of any width.                                   *)

\* 1 << n.
Power[n \in Nat] == IF n = 0 THEN 1 ELSE 2 * Power[n - 1]

\* a ^ b and a & b: the last bits, and the words without them.
Xor[a \in Nat] ==
  [b \in Nat |->
     IF a = 0 THEN b ELSE 2 * Xor[a \div 2][b \div 2] + ((a + b) % 2)]

And[a \in Nat] ==
  [b \in Nat |->
     IF a = 0 THEN 0 ELSE 2 * And[a \div 2][b \div 2] + (a % 2) * (b % 2)]

IsPowerOfTwo(p) == \E e \in 0 .. p : Power[e] = p

\* Mutant: rounds to the nearest multiple.
RoundNearest(value, alignment) ==
  ((value + alignment \div 2) \div alignment) * alignment

RoundUp(value, alignment) ==
  ((value + alignment - 1) \div alignment) * alignment

\* The first power that the loop finds not to be less.
UpperPowerOfTwo(value) ==
  Power[CHOOSE e \in 0 .. value :
          Power[e] >= value /\ \A d \in 0 .. e - 1 : Power[d] < value]

-----------------------------------------------------------------------------

SlotsPerBucket == 4

\* ceil(maximum_items / (target_load * kSlotsPerBucket)), at least 1.
RequestedBuckets(items) ==
  (items * 100 + LoadPercent * SlotsPerBucket - 1)
    \div (LoadPercent * SlotsPerBucket)

\* Mutant: a segment that is no power of two.
UnroundedSegment(n) == IF n < 256 THEN UpperPowerOfTwo(n) ELSE (n + 3) \div 4

\* Below 10000 buckets the four masks are the same.
SmallSegment(n) ==
  IF n < 256 THEN UpperPowerOfTwo(n) ELSE UpperPowerOfTwo((n + 3) \div 4)

BaseRange(items) ==
  LET n == RequestedBuckets(items)
  IN IF n < 10000 THEN SmallSegment(n) ELSE ProperAlternateRange(n, 0)

BucketCount(items) == RoundUp(RequestedBuckets(items), BaseRange(items))

\* From 10000 buckets on each of the four fingerprint classes has a range of
\* its own.
AlternateMasks(items) ==
  LET base == BaseRange(items)
      Range(c) == ProperAlternateRange(BucketCount(items), c)
  IN IF RequestedBuckets(items) < 10000
     THEN [c \in 0 .. 3 |-> base - 1]
     ELSE [c \in 0 .. 3 |->
             CASE c = 0 -> IF base - 1 < 1024 THEN 1024 ELSE base - 1
               [] c \in {1, 2} -> Range(c) - 1
               [] c = 3 -> Range(c) * 2 - 1]

\* ProperAlternateRange tries the powers of two from 8 on, and ends with one.
ASSUME RangeAssumption ==
  \A items \in Items : RequestedBuckets(items) >= 10000 =>
    /\ IsPowerOfTwo(ProperAlternateRange(RequestedBuckets(items), 0))
    /\ \A c \in 1 .. 3 :
         IsPowerOfTwo(ProperAlternateRange(BucketCount(items), c))

\* What it returns for the sizes the paper publishes.
ASSUME PublishedRanges ==
  LoadPercent = 95 =>
    /\ 65536 \in Items => ProperAlternateRange(17247, 0) = 4096
    /\ 131072 \in Items => ProperAlternateRange(34493, 0) = 8192
    /\ 262144 \in Items => ProperAlternateRange(68986, 0) = 8192

InitializeLayout(items) ==
  /\ bucket_count = BucketCount(items)
  /\ alternate_masks = AlternateMasks(items)

\* The low bits of fingerprint * 0x5bd1e995.
HashMultiplier == 1540483477 % HashWidth
FingerprintHash(f) == (f * HashMultiplier) % HashWidth

\* Mutant: a step of the same length forwards.
AlternateForwards(p, f) ==
  (p + And[FingerprintHash(f)][alternate_masks[f % 4]]) % bucket_count

Alternate(p, f) == Xor[p][And[FingerprintHash(f)][alternate_masks[f % 4]]]

\* Any bucket may be the first: those at the ends of the table are the ones
\* whose alternates could fall outside.
Init ==
  /\ maximum_items \in Items
  /\ InitializeLayout(maximum_items)
  /\ position \in {0, bucket_count \div 2, bucket_count - 1}

\* A chain moves a record to its alternate bucket.
Hop(f) ==
  /\ Alternate(position, f) < bucket_count
  /\ position' = Alternate(position, f)
  /\ UNCHANGED <<maximum_items, bucket_count, alternate_masks>>

Next == \E f \in Fingerprints : Hop(f)

Spec == Init /\ [][Next]_vars

-----------------------------------------------------------------------------

\* No mask reaches beyond the range that bucket_count was rounded up to.
RangesFit(items) ==
  \A c \in 0 .. 3 : AlternateMasks(items)[c] < BaseRange(items)

\* "assert(alternate < bucket_count_)" (line 498): whichever bucket a chain
\* has come to, the alternate of every fingerprint is a bucket of the table.
AlternateInRange ==
  \A f \in Fingerprints : Alternate(position, f) < bucket_count

\* A record's two candidates name each other, so that a lookup computed from
\* its first bucket finds what a chain has moved with its fingerprint alone.
AlternateReturns ==
  \A f \in Fingerprints : Alternate(Alternate(position, f), f) = position

\* The items fit under the target load, and the sizes the paper publishes
\* are met slot for slot (protocol_contract_test.cpp, lines 22-29).
LayoutFits ==
  /\ 100 * maximum_items <= LoadPercent * bucket_count * SlotsPerBucket
  /\ \A c \in {<<16384, 24576>>, <<32768, 49152>>, <<65536, 81920>>,
               <<131072, 163840>>, <<262144, 294912>>} :
       maximum_items = c[1] /\ LoadPercent = 95
         => bucket_count * SlotsPerBucket = c[2]
=============================================================================
