# A verification of VLSE

VLSE is a C++ implementation of a searchable index with one oblivious PRF per
query, and of LSE, the scheme it is compared with.  Both run in one thread of
one process and persist nothing; the script that compares them writes files for
hours and may be stopped at any time.  What makes the code hard is not concurrency
but long calls that change a packed table step by step and must either finish or
leave no trace, arithmetic that has to keep a walk inside that table, a setup
that is retried with ciphertexts that may be made only once, and an evaluation
in three steps that must agree with one in a single step.

## The system

| component | state | operations | what makes it correct |
|---|---|---|---|
| `PairedVacuumFilter` (`paired_vlse/include/paired_vacuum_filter.h`) | packed fingerprints and payloads of `bucket_count_` buckets of four slots, `filled_slots_`, `padded_`, `statistics_`, a random engine | `Insert`, `QueryAll`, `Contains`, `FillEmptySlots` | an insert adds one record or changes nothing; a record stays where a query looks for it; padding fills every slot or none |
| its layout | `bucket_count_`, `alternate_masks_`, set once | `InitializeLayout`, `Alternate` | an alternate bucket exists, and its alternate is the bucket one came from |
| its bucket codec | the bytes of `fingerprint_storage_` | `ReadBucket`, `WriteBucket`, `ReadBits`, `WriteBits` | what is written is read back, and neighbours keep their bits |
| VLSE benchmark (`benchmarks/vlse_protocol_benchmark.cpp`) | the records, the candidate index, counters | setup in up to four attempts, padding, queries, one result row | each key encrypts its record once; a given-up attempt leaves nothing; every answer is exact |
| AES-GCM labels (`aead_label.h`) | none | `EncryptLabel`, `DecryptLabel` | no key and nonce are used twice; a label opens under its key, epoch, token and component only |
| result collection (`authenticated_results.h`) | a counter | `CollectAuthenticatedResults` | false candidates do not reach the result |
| OPRF (`common/src/ntl_oprf.cpp`) | the key; scalar, inverse and `consumed_` of each blind | `SecretKey`, `DirectEvaluate`, `PrepareBlindPool`, `EvaluatePrepared` | both evaluations are one function; requests hide inputs; a blind serves once |
| derivation, record type (`protocol_derivation.h`, `protocol_record.h`) | none | hashing | injective, for all practical purposes |
| LSE benchmark (`benchmarks/lse_protocol_benchmark.cpp`) | `CuckooTable`, a map from token to labels | insertion by random walk, padding, queries | every inserted token is found |
| experiment runner (`scripts/run_paired_vs_lse.sh`) | a directory of logs, manifest, progress and rows | build, wait for a quiet host, run, count, summarise | whatever stops it, the files tell one experiment |
| summarizer (`scripts/summarize_paired_vs_lse.py`) | round counters | validate, count, summarise | rows keep the rounds they were made in |

The benchmark calls the OPRF and the derivation for a token and a key, encrypts a
record under them and hands token and record to the filter.  For padding the
filter calls back into the benchmark, once for a fingerprint and once for its
record at every empty slot; the callback may throw.  A query derives the same
token, takes from the filter all records with the token's fingerprint in its two
buckets, and lets decryption decide which are its own.

Hard behaviours: an eviction chain that comes through one bucket several times
and then fails; a chain whose records have two equal candidates; an exception in
the middle of padding; the masks at the borders of 256 and 10000 buckets; a
failed layout attempt after part of the records went in; false candidates; an
input that hashes to the identity of the group; a blind used twice; an experiment
killed between two of its writes and started again.

## The modules

| module | of the code | |
|---|---|---|
| `LabelIndex` | what callers of the filter rely on | a set of records that a call extends by what it should or not at all, and that padding seals |
| `VacuumFilter` | `Insert`, `RollBack`, `FillEmptySlots`, `QueryAll` | implements `LabelIndex` |
| `VacuumFilterProofs` | | theorems about `VacuumFilter`: types, journal, rollback, where records are, what is refused, what is conserved and counted, the refinement |
| `MCVacuumFilter` | `Alternate` for small tables | instance with named keys |
| `FilterLayout`, `MCFilterLayout` | `InitializeLayout`, `Alternate` | discharges what `VacuumFilter` assumes of `Alternate` |
| `FilterLayoutProofs` | | theorems about `FilterLayout`: alternates lead back and stay inside, and where they do not |
| `BucketCodec`, `MCBucketCodec` | `WriteBucket`, `ReadBucket`, the codec and the bit fields | justifies that `VacuumFilter` takes a bucket for a set of records |
| `BucketCodecProofs` | | theorems about `BucketCodec`: the storage's end, neighbours, reading back, the code of the nibbles |
| `VlseProtocol`, `MCVlseProtocol` | `RunPaired` and what it calls | uses `LabelIndex` as its index |
| `VlseProtocolProofs` | | theorems about `VlseProtocol` |
| `ObliviousPrf` | what callers of the OPRF rely on | one function fixed by the key, evaluated directly or by spending a blind |
| `NtlOprf`, `MCNtlOprf` | `SecretKey`, `PreparedBlind`, `NtlOprf` | implements `ObliviousPrf`; justifies that the protocols take an output for its input |
| `NtlOprfProofs` | | theorems about `NtlOprf`: types, hiding, the refinement |
| `TokenSet` | what the baseline relies on | a set of tokens from which a failed insert has lost one |
| `CuckooTable`, `MCCuckooTable` | the baseline's `Insert`, `Find`, `FillEmpty` | implements `TokenSet` |
| `CuckooTableProofs` | | theorems about `CuckooTable`: where tokens are, the counters, the refinement |
| `LseProtocol`, `MCLseProtocol` | `Run` of the baseline | uses `TokenSet` as its index |
| `LseProtocolProofs` | | theorems about `LseProtocol` |
| `ExperimentRunner`, `MCExperimentRunner` | `run_paired_vs_lse.sh`, the counters of the summarizer | runs the two benchmarks |
| `ExperimentRunnerProofs` | | theorems about `ExperimentRunner`: the files, the quiet host |

### VacuumFilter

`table` maps each bucket to the set of its records; a record is a fingerprint
with its payload, as `struct Record` has it.  Slots have no numbers: `WriteBucket`
sorts a bucket by fingerprint whenever it is written, and the one place where slot
order matters, the first movable record of a shortcut (line 282), appears as
"no movable record has a larger fingerprint".  Records of equal fingerprint have
the same alternate bucket and are taken in any order.  Random choices of bucket
and slot are existential quantifiers.

`pc`, `incoming`, `carried`, `current_bucket`, `chain_length`, `journal`,
`bucket_index` and `generated` are the locals of the call in progress.  One action
is one turn of a loop: `InsertByEviction` is the first swap, `ChainEvict` and
`ChainShortcut` and `ChainPlace` one turn of the chain, `UndoWrite` one write of
`RollBack`, `PadBucket` one bucket of padding.  An insert that finds a free
candidate is a single action.  `committed` is the one history variable: the table
as the last completed call left it.  The loop of lines 378-380, which asks the
generator again until it gives a fingerprint that is allowed, is the set
`DummyFingerprints`: it is taken to end, and a caller whose generator never gives an
allowed one would wait for ever.

The same token may be inserted with several payloads; such pairs are different
keys with equal metadata.  `MaxFailures` bounds the number of refused inserts,
which otherwise could be called for ever.  An insert into a padded table throws
before it changes anything and is no step.

### FilterLayout

The integer arithmetic is the code's.  Words are numbers, and `Xor` and `And`
recursive functions on them that take one digit off both words, so that they have
every width and a proof can unfold them.  `ProperAlternateRange` iterates a
floating-point estimate; its values at the bucket counts of the runs were
computed with the code and are listed in `MCFilterLayout`.  Of the others the model
knows only what the loop shows: that they are powers of two (`RangeAssumption`).
The position walks from bucket to bucket with `Alternate`, starting at both ends
and in the middle of the table.  The hash of the fingerprint is kept modulo
`HashWidth`, which is 2^32 in the code and 2^15 in the runs: no mask of their layouts
has more than 15 bits.

### BucketCodec

The packed storage is the set of the positions of its one bits.  `WriteBits` and
`ReadBits` copy a window of 16 bytes and change or use one field of it; the model
works on the field, and `TypeOK` says where the windows lie.  The tables of
`SemiSortCodec` are filled by four nested loops; `Encode` counts the turns of the
loops up to given nibbles, and `Decode` finds the nibbles at which the loops stand.
That each undoes the other, for all 3876 entries, is `CodecIsBijective`, which TLC
evaluates when `codec` starts and `NibblesSurvive` proves.
An action reads a bucket, replaces one slot and writes the bucket, as every caller
does in effect.  `written`, a history variable, is how often each record was in
the bucket last written.

### VlseProtocol

The stages of `RunPaired` in order; an encryption may throw in the two stages that
encrypt.  The records go into the index through
`LabelIndex!Store` in any order (the code shuffles them anew for every attempt).
`LabelIndex` allows a refusal at any time; here it needs at least one bucket's
worth of records in the index, as `RefusedOnlyWhenFull` says.  Cryptography is
ideal: an OPRF output stands for its input, a digest for its domain and its input.
A label carries the key, the nonce and the associated data it was made with, as
`MakeComponentNonce` and `MakeAssociatedData` make them, and opens under those and
no others: so it matters which of epoch, token, key and component a call is given,
and which keys and nonces meet.  A query whose blind has served before throws, as
`EvaluatePrepared` does; `Blind` is the index the loop takes it at.  Which records share a query's
fingerprint is left open, up to `MaxFalse` of them at once.

### NtlOprf

Modulus, order, generator, power and hash are parameters.  `GroupAssumption` has
what `Validate` computes and the laws of exponents the code relies on; that the
published 3072-bit group satisfies them is not shown.  `HashToGroup` is the code's
loop: candidate, cofactor, and the next counter where the identity comes out.
`ToBigEndian` is the code's division into bytes, with its two refusals, in an
alphabet and a length that are parameters.

`key` is the scalar of the secret key and `pool` the prepared blinds.
`EvaluatePrepared` is three actions, `SendRequest`, `Respond` and `Unblind`, since
the header (lines 77-79) says that they stand for messages; the blind is consumed in the
first.  `call` holds the locals.  `wire`, a history variable, is what the owner has
been sent.  Keys that the constructor refuses are offered too.

Under the refinement the function of `ObliviousPrf` is the key's, evaluated at
every input; a blind whose call is still under way is neither spent nor has it
served, so that the abstract call happens at `Unblind`.

### CuckooTable

`bins_` maps a bin to its token or to `Vacant`.  `Insert` is a walk with one action
per turn of its loop: the token in hand is placed in a free bin of its three, or
swapped with the token of one of them, or the limit is reached.  A walk that
reaches the limit has just swapped a token out and returns without trying a bin
for it, even where one is free; that token, in general not the one `Insert` was
called with, is lost.  Nothing is rolled back, and `TokenSet!Lose` promises no more.

The refinement needs no history variable.  During a walk the abstract tokens are
those of the table and the one in hand, without the one that came in; that is the
set the call found, at every turn.  During padding they are the table's keywords.

### LseProtocol

The stages of `Run` in order: tokens go into the index, labels into
`encrypted_data`, both are padded, the client queries.  An insertion may fail as
soon as the index holds a token, and the run then ends.  Labels are not
authenticated in the baseline: another key (`LseAesKey` of an OPRF of its own)
decrypts a label to something else, which the run detects by comparing.  The set of tokens
that `RandomToken` may draw is bounded to keep the states few; its loop, which
draws again until a token is new, is the set `FreshTokens`, and a draw thrown away is
no step.  `filled` counts the bins `FillEmpty` has filled and `dummies` is the set of
the tokens it has filled them with: a token drawn twice would leave the set behind.
`Padded` does not ask for that, as the code does not; that it is a `TokenSet!Fill`
is proved.

### ExperimentRunner

One action per write of the script.  `Plan` lists the runs in the order of its
three loops.  `progress`, `manifest`, `logs` and `raw` are the files; the lines
of a file that no property tells apart (environment, snapshots, checksums) are
left out.  A directory counts as used from `mkdir` on (`nonempty`).  A sample of
`wait_for_quiescence` is quiet or busy as the host pleases; `observed`, a history
variable, keeps the last of them.  A benchmark succeeds or fails with no, one or two
`RESULT` lines, which is all the script looks at.  `Killed` may happen before any
step, and the script may then be started again (`Invoke`, up to `MaxInvocations`
times).  `Summarize` numbers the rows as the summarizer does, which is not told
their rounds; it may also reject them (`SummarizeFails`).

`SettingsAssumption` excludes a size that is listed twice, whose second series
would overwrite the logs of the first, and a poll interval of zero, with which
`elapsed` never grows and the wait for a busy host never ends.

## What is checked

All runs take seconds, `codec` more than a minute.  Deadlock checking is off in the
runs of the two tables, of the baseline and of the experiment: a padded table only
answers queries, a table that has refused often enough is used no more, the
baseline ends (`Ends` is checked instead), and the script is not started for ever.
In `vlse` it is on, and `Terminated` keeps the end of a run from being taken for one
that is stuck.

**chains** puts nine keys on four buckets of two slots, one more than there is
room for, with chains of up to three evictions.  Five groups of keys give every
shape of candidate pair: shared between groups, disjoint, and one key whose two
candidates are the same bucket.  Chains come back to a bucket they have written,
end at the limit, end in a free slot or by a shortcut, and are rolled back from
tables of every fill.  Two failures are enough for one to follow the other.
Checked: a journal never outgrows its reserve (`JournalFitsReserve`), always leads
back to the committed table (`JournalCovers`) and has rebuilt it when it is used up
(`RollBackRestores`); chains conserve records (`RecordsConserved`) and keep them
where they are looked for (`GenuineAtHome`, `QueryComplete`); the counters tell
the truth (`FilledSlotsExact`, `StatisticsAgree`); a record is refused only for
full buckets (`RefusedOnlyWhenFull`); and callers see `LabelIndex`
(`ImplementsIndex`, with the committed table's records as the labels).  Keys of
one group are interchangeable, hence the symmetry.

**four_slots** checks the refinement with the code's four slots per bucket on
two buckets.  **returns** checks, without symmetry, that every call comes back
(`CallReturns`), under weak fairness of the steps of a call that has begun: the
thread that made the call runs it and nothing in it waits.  Nothing is assumed of
callers.

**layouts** lays out sixteen sizes at load 0.95: the five published ones, sizes
around 256 and around 10000 buckets and a few small ones, and checks at every
bucket a walk reaches that alternates are in the table and lead back, that the
items fit, and that the published slot counts of `protocol_contract_test.cpp` come
out.

**low_load** is a disagreement.  For 36882 items at a target load of 0.9, which
the constructor accepts, `base_range` is 1024 and `std::max(base_range - 1, 1024)`
makes the first mask 1024 instead of 1023.  Bit 10 is not covered by the rounding
of the bucket count (11264 = 11 * 1024), and the alternate of bucket 11263 is
12287, past the end.  The assertion at line 498 says that this does not happen.
With assertions compiled out the packed storage is read and written out of bounds.
The benchmark and the demo use 0.95, where none of the layouts checked is affected.
`RaisedMaskLeaves` says for which layouts it happens.

**codec** fills two neighbouring buckets in every way with three records and empty
slots, at five bits (the least the code admits, with two records of one
fingerprint) and at ten, where a bucket ends in the middle of a byte.  Every bucket
reads as it was last written, fingerprints with their payloads (`ReadsBack`), and
no access leaves the storage (`TypeOK`).  Wider fields differ in the number of low
bits only, which are copied as they are; the 43 bits of the benchmark are beyond
the integers of TLC.

**vlse** runs the benchmark with seven keywords and five components.  Seven is the
smallest number whose fourth attempt is laid out for one item more than the first
(7 * 3 / 20 = 1), and that one item doubles the capacity from 8 to 16; attempts
one to three have the same size.  Two queries meet up to two false candidates
each, dummies or other keywords.  Checked: each record is encrypted once however
many attempts there are, and no two encryptions share key and nonce
(`EncryptedOnce`), the index queried is complete
(`IndexComplete`), every answer is exact and takes a blind that has not served
(`AnswersExact`), and the row satisfies the count equations of `validate_row`
(`RowAccepted`).  That a run ends is not stated: its loops count up to fixed bounds.
That it never stands still before its end is the check for deadlock.

**cuckoo** puts five keywords into the eight bins the constructor makes for them.
Four of them share four bins, two of these with two equal positions, so that walks of up to six turns come back to where they
were and some fail.  Checked: a token in the table is in exactly one bin and `Find`
looks there (`FindExact`), the counters agree with the table, of which a failed
insert changes the contents but not the number of tokens (`CountersAgree`),
callers see `TokenSet` (`ImplementsTokenSet`), and every call returns
(`CallReturns`) under weak fairness of the steps of a call that has begun.

**lse** runs the baseline with seven keywords, eleven bins, six tokens that the
padding may draw for its four dummies, and three queries; any insertion but the
first may fail.  Checked: no query fails or decrypts to something else in a run
that got as far as its queries (`LookupsSucceed`), the padded object has a token of
its own in every bin and the row counts what happened (`ObjectComplete`), and every
run ends (`Ends`) under weak fairness of its next step: a single thread waits for
nobody, and the generator, whose loop goes by the map it adds to, does not draw
known tokens for ever.

**oprf** takes the subgroup of order 5 modulo 31, in which the four other elements
are reached from 24 of the 28 candidates and the identity from 5, 6, 25 and 26.
Input `a` hashes at once, `b` after one identity and `c` after two.  Every key is
tried, scalars are drawn from 0 to 7 so that 0 and those from 5 on have to be
rejected, and two blinds are prepared, used, used again and interleaved with direct
evaluations in every order.  Two requests are the fewest that could tell
something about each other.  Checked: what is sent and returned is an element of the
subgroup and never its identity (`TypeOK`); for whatever has been sent, any other
inputs would have sent the same under other scalars (`RequestsHide`); callers
see `ObliviousPrf` (`ImplementsPrf`).  An endless call is not at issue: every loop
but `RandomScalar`'s and `HashToGroup`'s is straight-line, and those end with
probability one and by `HashAssumption`.

**experiment** starts the script up to three times on one directory, with three
sizes, three rounds (so that the order of the schemes turns twice), three samples
to be quiet, ten seconds apart, and thirty to wait: four samples, enough for
a count that is broken off and for one that is complete just when the time is up.  It
is killed or fails anywhere.  Checked: the files tell one experiment, up to the
row at which it was stopped, and the summary numbers its rounds as they were
(`FilesAgree`); a run is begun, or given up, according to the last three samples
(`QuietWhenMeasured`); and the script, once started, ends (`Ends`) under weak
fairness of its own steps, which says that a build and a benchmark come to an end
and that nothing suspends the script for ever.  Nothing is assumed of the host.

## What is proved

`VacuumFilterProofs` proves for all keys, fingerprints, table sizes, slot counts
and chain limits, from the assumptions `VacuumFilter` states about its constants:

* `TypeCorrect`: `TypeOK`, with it that no bucket ever exceeds its slots;
* `JournalAlwaysCovers`: the journal leads back to the committed table;
* `RollBackIsExact`: a rolled-back call leaves the table it found;
* `JournalNeverReallocates`: `maximum_evictions_ + 2` and `bucket_count_` suffice.

The inductive invariant is `RollBackInv == TypeOK /\ Stages /\ JournalCovers`.
`RollBackRestores` is not inductive: it speaks of the moment the journal is empty
and says nothing of the tables on the way.  `JournalCovers` does: a bucket that the
journal does not name is as the call found it, and the *first* entry for a bucket
holds what the call found there.  Appending an entry keeps that, because the
snapshot is taken before the write; removing the last entry and writing its
snapshot back keeps it too, because either an earlier entry for the bucket remains
or the snapshot is what the call found.  With an empty journal it says that the
table is the committed one.  `Stages` ties the journal's length to the loop
counters, from which the reserve follows.

It also proves, from the same assumptions:

* `RecordsStayHome`: at every step each genuine record is in one of its two
  candidate buckets, or carried to one, and has its key's fingerprint;
* `QueriesAreComplete`: a query between two calls finds every inserted record;
* `RefusalsAreJustified`: a chain is given up only for a record whose candidate
  buckets are all full, before the call and after its rollback.

`GenuineAtHome` alone is not inductive, because a rollback brings back what the
journal saved and because a chain may carry whatever it swapped out.  `HomeInv`
adds that the journal's snapshots are at home too, and that until the table is
padded it holds genuine records only: so a chain, which never runs on a padded
table, carries a genuine record, and that record, leaving a bucket it was at home
in, goes to its other candidate, because `Alternate` leads back from there.
`FullInv` says that the candidates of an insert in a chain were full in the
committed table; the rollback ends in that table.  Both are inductive together
with `RollBackInv`.

It also proves, from the same assumptions:

* `ChainsConserveRecords`: no turn of a chain, of a rollback or of padding loses a
  record or stores one twice (`RecordsConserved`);
* `SizeIsExact`: `filled_slots_` counts the committed table, and a padded index is
  full (`FilledSlotsExact`);
* `StatisticsAreTrue`: `StatisticsAgree`;
* `FilterImplementsIndex`: the filter implements `LabelIndex`, as
  `Spec => ImplementsIndex`.

`RecordsConserved` is not inductive: it says of the table a rollback is in that no
record is in two buckets, and nothing of the tables it still has to pass.
`AllDistinct` says it of all of them, as a sequence `H` of tables that ends in the
present one and in which each table is the next with one journal entry written
back.  A swap lengthens the sequence by the new table, an undone write drops its
last.  `ChainInv` adds that a chain's table and the record it carries are
the committed records and the incoming one, which makes every swap one for
another.  `PadInv` says that padding has filled the buckets behind it with dummies
that name their own bucket, hence differ from all dummies elsewhere, and left those
ahead alone; from it follows that the finished table has as many records as slots.
`StatisticsInv` carries the counters of the chain in progress (`ChainCounters`)
apart from those of finished calls.  `RefinementInv` is the conjunction of these
with the invariants above.  With it each step of `VacuumFilter` is a `Store`, a
`Seal` or another step of `LabelIndex`, or leaves the committed records alone.

The assumption that carries weight is `AlternateAssumption` (the alternate of a
bucket is a bucket and leads back).  It is what the next module proves of the code's
arithmetic, for the layouts that meet a condition; `low_load` shows that the
constructor does not enforce the condition.

`FilterLayoutProofs` proves for every number of items, every load, hash width and
fingerprint, from `RangeAssumption`:

* `AlternatesReturn`: `AlternateReturns`, whatever the masks;
* `AlternatesStayInside`: `AlternateInRange` in every layout none of whose masks
  reaches beyond the range that the bucket count was rounded up to (`RangesFit`);
* `SmallTablesStayInside`: the same without a condition below 10000 buckets;
* `AlternateAssumptionHolds`: with `RangesFit`, `AlternateAssumption` for every
  bucket of the table and every fingerprint;
* `RaisedMaskLeaves`: where the first mask was raised to 1024 and the bucket count is
  no multiple of 2048, some bucket's alternate is past the end for every fingerprint
  of class 0 whose hash has that bit.  `low_load` is one such layout;
* `LayoutsFit`: `LayoutFits`; for the three largest published sizes it takes three
  values of `ProperAlternateRange` (`PublishedRanges`).

The invariant is `LayoutInv`: the layout is that of `InitializeLayout`, and the
position is a bucket.  The work is in the words.  That a function may be
defined by recursion to a smaller argument is proved first
(`RecursionExists`: its approximations exist and agree), and induction takes the
form that a set of counterexamples without a least one is empty (`Exhausted`), for
which the library's theorem on well-founded sets suffices.  `XorReturns` then says that
`Xor` undoes itself.  `XorBelow` says that with a number below a power of two it
changes nothing but the rest by that power: bucket count and segments being
multiples of the base range, which is a power of two, a mask below the base range
leads from a bucket to one of the same segment.  TLC evaluates `RangesFit` for all
layouts at the default load in use (`RangesFitAtDefaultLoad`).

`NtlOprfProofs` proves, for every group, key, hash and encoding that satisfy
`GroupAssumption`, `HashAssumption` and `EncodingAssumption`, and any number of
inputs and blinds:

* `TypeCorrect`: `TypeOK`;
* `BlindingHides`: `RequestsHide`;
* `RefinesPrf`: `NtlOprf` implements `ObliviousPrf`, as `Spec => Prf!Spec`.

The invariant is `TypeOK` with four more facts.  `Invertible`: scalar and inverse of
each blind multiply to one.  `CallComputed`: the value of the call in progress is
what its input, its blind and, from the second step on, the key make of it.
`OneRequestPerBlind`: no two requests carry the same blind, and the blinds of
requests are consumed.  `PoolBounded`: no blinds beyond `PoolSize`.  Hiding
follows from `OneRequestPerBlind` and the law that every element is reached from
every other by some scalar: since blinds differ, a scalar may be chosen for each
request by itself.  For the refinement, `CallComputed` and `Invertible` make the
unblinded value the direct one, since exponents commute; that different elements
stay different under the key and the encoding makes the function faithful; and
`PoolBounded` names each new blind.

`CuckooTableProofs` proves from `TableAssumption`, for every number of bins, every
assignment of positions, equal ones included, and every limit on the walks:

* `CuckooTypes`: `TypeOK`;
* `FindIsExact`: a stored keyword is in one bin, and `Find` looks there;
* `CountersAreTrue`: `CountersAgree`;
* `CuckooImplementsSet`: the table implements `TokenSet`.

`CuckooInv` says that no token is in two bins (`OneBin`), that every keyword's
token is in one of its three (`AtHome`), that there is nothing but keywords' tokens
before padding (`KeysOnly`), that a walk holds exactly one token out of the table
and has put in the one it began with unless it still holds that (`WalkInv`), and
that padding begins with all keywords stored and leaves no bin behind it free
(`FillInv`).  The last needs the counters: `FillEmpty` is called when no insert
failed, so that there are as many tokens as keywords.  In the refinement a failed
walk is `Lose` of the token that was swapped out last, whichever that is.

`VlseProtocolProofs` proves from `OptionAssumption` and `CapacityAssumption`, which
says only that each layout has some number of slots, for any number of keywords,
queries, components and attempts:

* `VlseTypes`: `TypeOK`, with bounds on the sums over the attempts;
* `LabelsEncryptedOnce`: no record is encrypted twice, and no key and nonce serve
  two labels (`EncryptedOnce`);
* `QueriedIndexComplete`: the index that is queried is the one all keywords went
  into, padded to its capacity (`IndexComplete`);
* `QueriesAnsweredExactly`: no run ends in a wrong or an incomplete answer
  or at a used blind (`AnswersExact`);
* `RowAddsUp`: `RowAccepted`.

None of them is inductive.  `CandidateInv` ties the candidate index to the stage:
what is in it and what remains are together the keywords of this attempt, and
nothing is left of the attempts before.  `EncryptionInv` counts encryptions by
stage; dummies are numbered on through their generation.  That every answer is
exact rests on a lemma about labels: a label opens under the derivation
of its owner and under no other (`OnlyItsOwner`), so that what a query collects from
any set of candidates with its own record among them is its documents
(`AnswerExact`).  `SumsInv` is the arithmetic of the attempts: each given-up one has
inserted at most all keywords but one.

`LseProtocolProofs` proves from `OptionAssumption` and `RandomAssumption` (enough
random tokens to fill the table with, which are not keywords' tokens):

* `LseTypes`: `TypeOK`;
* `EveryLookupSucceeds`: a run that gets as far as its queries has no query that fails
  (`LookupsSucceed`);
* `ObjectIsComplete`: `ObjectComplete`.

The invariant says at each stage which tokens the index and `encrypted_data` hold,
and that there are as many dummies as bins filled.  A failed insert may have cost
any token; what carries the proof is that the run ends there.  `PaddedFills` says
that what the padding has made up is what `TokenSet!Fill` asks for.

`ExperimentRunnerProofs` proves from `SettingsAssumption`, for any sizes, none of
them listed twice (which the script does not check), rounds, samples, times and
number of starts:

* `FilesTellOneExperiment`: `FilesAgree`;
* `QuietWheneverMeasured`: a run is begun after enough quiet samples in a row, and
  given up only without them (`QuietWhenMeasured`).

Half of the first is about the plan and not about the script: the three loops make
every run once (`EveryPlaced`, `PlanInjective`), and the n-th run of a scheme and a
size is that of round n (`CountedRounds`), so that the summarizer, which numbers the
rows it meets, finds the rounds they were run in although the schemes take turns.
The other half is `FilesInv`: every file holds an initial part of the plan, and each is at
most one run ahead of the file written after it; `ProgressInv` says by how much at
each `pc`, so that `Killed` may come anywhere.  `WaitInv` says that the last `good`
samples were quiet and the one before them, if there was one, was not; so `good`
reaches the required number exactly when the last samples were all quiet.

`BucketCodecProofs` proves, for every number of buckets, every width from 5 to 64 bits
and all records whose fingerprints fit their width and are not zero
(`RecordAssumption`):

* `AccessesStayInside`: no window of 16 bytes leaves the storage and nothing is
  written behind the last bucket (`TypeOK`);
* `OneBucketAtATime`: a write changes what one bucket reads and no other;
* `BucketsReadBack`: `ReadsBack`.

The invariant is `TypeOK /\ ReadsBack`.  `FieldsWritten` follows the five writes of
`WriteBucket`, each of which leaves the fields of the others alone; `BucketsApart`
says that no two buckets have a bit in common, whatever their number, and
`SortArranges` that the sort is a permutation, since the four ranks are different
numbers below four.  Since the quotients of a sorted bucket are sorted, their code
is one the constructor has filled in, and quotient and remainder make up the
fingerprint.

Nothing about numbers is assumed.  The provers know nothing of powers of two:
`PowerDoubles` takes them from the library's theorem that they count subsets, and
`ValueOfOnes` says that a number is the sum of its binary digits, because the sum
of the digits below n is its remainder by 2^n.  For the code of the nibbles,
`Ladders` says that the turns of n loops grow with the first index, by the turns of
the n - 1 loops inside; hence the loops stand at the nibbles of an index
(`LoopsReach`), at every index they stand somewhere (`LoopsStand`), and

* `NibblesSurvive`: `CodecIsBijective`.

Only model-checked: `CallReturns` (`returns`, `cuckoo`) and `Ends` (`lse`,
`experiment`), liveness under fairness, which the prover does not handle.

## What is not modelled

* The published 3072-bit group, SHAKE256, SHA-256, AES-GCM and MurmurHash64: numbers
  and bytes far out of reach of a model checker.  They appear as constants or ideal.
  Whether random draws are uniform is not a question TLA+ can ask.
* Byte layouts of nonces, associated data and plaintexts; timing and output of the
  benchmarks; the statistics and tables of the summarizer.
* The demo, a straight line of the calls `VlseProtocol` makes, without retries; the
  tests, which are used as a source of properties; build files; the redaction
  filter; `run_smoke.sh` and `run_three_rounds.sh`, which keep no state but a file
  they truncate.  The latter runs 262144 keywords with one component twice, once
  in the series over sizes and once in that over components, with the same seeds.
* Exceptions of memory allocation.  The journal's reservation is what the code
  does about them, and `JournalFitsReserve` is about it.
* Not yet: see the plan.

## Plan

Done: `LabelIndex`, `VacuumFilter`, `VacuumFilterProofs`, `FilterLayout`,
`FilterLayoutProofs`, `BucketCodec`, `BucketCodecProofs`, `VlseProtocol`,
`VlseProtocolProofs`, `TokenSet`, `CuckooTable`, `CuckooTableProofs`, `LseProtocol`,
`LseProtocolProofs`, `ObliviousPrf`, `NtlOprf`, `NtlOprfProofs`, `ExperimentRunner`,
`ExperimentRunnerProofs`.  Every safety property of the runs is proved.

What could follow: bounds on the values of `ProperAlternateRange`, from which
`RangesFit` would follow for a range of loads rather than layout by layout.  They
need real arithmetic and logarithms, which neither TLC nor the provers have.
