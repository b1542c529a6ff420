---------------------------- MODULE VlseProtocol ----------------------------
(***************************************************************************)
(* One run of vlse_protocol_benchmark (RunPaired): the owner encrypts one  *)
(* record per keyword, builds the index in up to four attempts with the    *)
(* same ciphertexts, pads it with dummies, and the client queries it with  *)
(* one prepared blind per query and checks every answer.                   *)
(*                                                                         *)
(* The index is LabelIndex, which VacuumFilter implements.  What the       *)
(* cryptography promises is taken as ideal: an OPRF output stands for its  *)
(* input (NtlOprf), a digest for its domain and input, and a ciphertext    *)
(* opens under the key, nonce and associated data it was made with and no  *)
(* others.                                                                 *)
(***************************************************************************)
EXTENDS Integers, FiniteSets

CONSTANTS
  KeywordCount,     \* options.keywords
  Queries,          \* options.queries
  DMax,             \* components of a record
  Epoch,            \* options.seed
  MaxAttempts,      \* the four attempts of setup
  SlotsPerBucket,   \* Index::kSlotsPerBucket
  MaxFalse,         \* bound: false candidates of one query
  Capacity(_)       \* the slots of an index laid out for so many items

ASSUME OptionAssumption ==
  /\ KeywordCount \in Nat \ {0}
  /\ Queries \in 1 .. KeywordCount
  /\ DMax \in {1, 5, 10, 15, 20}
  /\ MaxAttempts \in Nat \ {0}
  /\ SlotsPerBucket \in Nat \ {0}
  /\ MaxFalse \in 1 .. 2 * SlotsPerBucket - 1

Components == 0 .. DMax - 1

\* A retry is laid out for 5% more items per failed attempt, rounded down.
ScheduledItems(a) == KeywordCount + (KeywordCount * a) \div 20

\* Every layout of the schedule has some number of slots.
ASSUME CapacityAssumption ==
  \A a \in 0 .. MaxAttempts - 1 : Capacity(ScheduledItems(a)) \in Nat

\* The most dummies an attempt may need are those that fill its whole index.
DummyNumbers == UNION {1 .. Capacity(ScheduledItems(a)) : a \in 0 .. MaxAttempts - 1}

\* Who a record belongs to: the keyword, or the random derivation of a dummy.
Keyword(i) == <<"keyword", i>>
Dummy(n) == <<"dummy", n>>
Keywords == {Keyword(i) : i \in 0 .. KeywordCount - 1}
Dummies == {Dummy(n) : n \in DummyNumbers}

VARIABLES
  stage,         \* "encrypt", "attempt", "insert", "pad", "query" or "end"
  encryptions,   \* owner -> how often its record has been encrypted
  attempt,       \* attempts begun: setup_attempts
  remaining,     \* the keywords this attempt has yet to insert
  labels,        \* the owners of the records in the candidate index
  sealed,        \* whether that index is padded
  inserted,      \* what the last call of the index returned
  statistics,    \* sums over the attempts
  dummies,       \* what FillEmptySlots has generated
  consumed,      \* the blinds of the pool that have been used
  query,         \* the loop variable of the queries
  totals,        \* over the queries: successes, candidates, attempts to open
  result         \* "none", "row", or why the run threw

vars == <<stage, encryptions, attempt, remaining, labels, sealed, inserted,
          statistics, dummies, consumed, query, totals, result>>

Index == INSTANCE LabelIndex WITH
  Genuine <- Keywords, Dummies <- Dummies,
  Size <- Capacity(ScheduledItems(attempt - 1)), outcome <- inserted

-----------------------------------------------------------------------------
(* Records.                                                                *)

\* A keyword and a dummy stand for their OPRF output; token and key are
\* digests of it in domains of their own.
DomainHash(domain, output) == <<domain, output>>

DeriveTokenAndKey(output) ==
  [token |-> DomainHash("H1-token", output), key |-> DomainHash("H2-key", output)]

\* The documents of a keyword are DMax numbers of its own.
Document(owner, j) == owner[2] * DMax + 1 + j

\* The nonce encodes the component's position, from one.
MakeComponentNonce(j) == j + 1

MakeAssociatedData(token, j) == <<Epoch, token, j>>

EncryptLabel(derived, j, valid, document) ==
  [key |-> derived.key, nonce |-> MakeComponentNonce(j),
   aad |-> MakeAssociatedData(derived.token, j),
   valid |-> valid, document |-> document]

\* MakeRecord, as setup calls it for keywords and padding for dummies.
MakeRecord(owner) ==
  LET valid == owner \in Keywords
  IN [j \in Components |-> EncryptLabel(DeriveTokenAndKey(owner), j, valid,
                             IF valid THEN Document(owner, j) ELSE 0)]

\* Mutant: neither the key nor the token is checked.
DecryptLabelOfAnyone(derived, j, label) ==
  label.aad[1] = Epoch /\ label.aad[3] = j

\* DecryptLabel returns true; it takes the nonce from the label.
DecryptLabel(derived, j, label) ==
  label.key = derived.key /\ label.aad = MakeAssociatedData(derived.token, j)

\* CollectAuthenticatedResults: the set of the valid documents that open.  Its
\* bound on the candidates is what Candidates stays within.
AuthenticatedResults(derived, candidates) ==
  LET opened(record) ==
        {j \in Components :
           DecryptLabel(derived, j, record[j]) /\ record[j].valid}
  IN UNION {{record[j].document : j \in opened(record)} : record \in candidates}

-----------------------------------------------------------------------------

Init ==
  /\ stage = "encrypt"
  /\ encryptions = [o \in Keywords \cup Dummies |-> 0]
  /\ attempt = 0
  /\ remaining = {}
  /\ labels = {}
  /\ sealed = FALSE
  /\ inserted = "none"
  /\ statistics = [successful_inserts |-> 0, failed_inserts |-> 0,
                   failed_setup_attempts |-> 0]
  /\ dummies = 0
  /\ consumed = {}
  /\ query = 0
  /\ totals = [query_successes |-> 0, candidate_records_total |-> 0,
               decrypt_component_attempts |-> 0]
  /\ result = "none"

Encrypted(owners) ==
  [o \in DOMAIN encryptions |->
     encryptions[o] + (IF o \in owners THEN 1 ELSE 0)]

End(why) ==
  /\ stage' = "end"
  /\ result' = why

EncryptGenuine ==
  /\ stage = "encrypt"
  /\ encryptions' = Encrypted(Keywords)
  /\ stage' = "attempt"
  /\ UNCHANGED <<attempt, remaining, labels, sealed, inserted, statistics,
                 dummies, consumed, query, totals, result>>

\* EncryptLabel throws in the record after the first n: the run ends.
EncryptThrows ==
  /\ stage = "encrypt"
  /\ \E n \in 0 .. KeywordCount - 1 :
       encryptions' = Encrypted({Keyword(i) : i \in 0 .. n - 1})
  /\ End("threw")
  /\ UNCHANGED <<attempt, remaining, labels, sealed, inserted, statistics,
                 dummies, consumed, query, totals>>

\* Mutant: a retry encrypts its records anew.
BeginAttemptEncrypting ==
  /\ stage = "attempt"
  /\ attempt < MaxAttempts
  /\ attempt' = attempt + 1
  /\ stage' = "insert"
  /\ encryptions' = IF attempt > 0 THEN Encrypted(Keywords) ELSE encryptions
  /\ remaining' = Keywords
  /\ labels' = {}
  /\ sealed' = FALSE
  /\ inserted' = "none"
  /\ UNCHANGED <<statistics, dummies, consumed, query, totals, result>>

\* A new, empty candidate, into which the same records are to be inserted.
BeginAttempt ==
  /\ stage = "attempt"
  /\ attempt < MaxAttempts
  /\ attempt' = attempt + 1
  /\ stage' = "insert"
  /\ remaining' = Keywords
  /\ labels' = {}
  /\ sealed' = FALSE
  /\ inserted' = "none"
  /\ UNCHANGED <<encryptions, statistics, dummies, consumed, query, totals,
                 result>>

\* The next record in the shuffled order goes in.
InsertRecord(k) ==
  /\ stage = "insert"
  /\ k \in remaining
  /\ Index!Store(k)
  /\ remaining' = remaining \ {k}
  /\ statistics' = [statistics EXCEPT !.successful_inserts = @ + 1]
  /\ UNCHANGED <<stage, encryptions, attempt, dummies, consumed, query, totals,
                 result>>

\* Mutants: a refused record is skipped; a failed attempt goes uncounted.
RefuseSkipping(k) ==
  /\ stage = "insert"
  /\ k \in remaining
  /\ Cardinality(labels) >= SlotsPerBucket
  /\ Index!Refuse
  /\ remaining' = remaining \ {k}
  /\ statistics' = [statistics EXCEPT !.failed_inserts = @ + 1]
  /\ UNCHANGED <<stage, encryptions, attempt, dummies, consumed, query, totals,
                 result>>

RefuseUncounted(k) ==
  /\ stage = "insert"
  /\ k \in remaining
  /\ Cardinality(labels) >= SlotsPerBucket
  /\ Index!Refuse
  /\ stage' = "attempt"
  /\ remaining' = {}
  /\ statistics' = [statistics EXCEPT !.failed_inserts = @ + 1]
  /\ UNCHANGED <<encryptions, attempt, dummies, consumed, query, totals, result>>

\* The index refuses it, which it does only when a bucket is full
\* (RefusedOnlyWhenFull): the attempt is given up.
RefuseRecord(k) ==
  /\ stage = "insert"
  /\ k \in remaining
  /\ Cardinality(labels) >= SlotsPerBucket
  /\ Index!Refuse
  /\ stage' = "attempt"
  /\ remaining' = {}
  /\ statistics' = [statistics EXCEPT !.failed_inserts = @ + 1,
                                      !.failed_setup_attempts = @ + 1]
  /\ UNCHANGED <<encryptions, attempt, dummies, consumed, query, totals, result>>

AcceptCandidate ==
  /\ stage = "insert"
  /\ remaining = {}
  /\ stage' = "pad"
  /\ UNCHANGED <<encryptions, attempt, remaining, labels, sealed, inserted,
                 statistics, dummies, consumed, query, totals, result>>

SetupExhausted ==
  /\ stage = "attempt"
  /\ attempt = MaxAttempts
  /\ End("exhausted")
  /\ UNCHANGED <<encryptions, attempt, remaining, labels, sealed, inserted,
                 statistics, dummies, consumed, query, totals>>

\* Mutant: one slot too many is padded.
EmptySlotsTooMany == Capacity(ScheduledItems(attempt - 1)) + 1 - Cardinality(labels)

EmptySlots == Capacity(ScheduledItems(attempt - 1)) - Cardinality(labels)

\* The generators of FillEmptySlots make one dummy, with a key of its own.
GenerateDummy ==
  /\ stage = "pad"
  /\ dummies < EmptySlots
  /\ dummies' = dummies + 1
  /\ encryptions' = Encrypted({Dummy(dummies + 1)})
  /\ UNCHANGED <<stage, attempt, remaining, labels, sealed, inserted,
                 statistics, consumed, query, totals, result>>

Padded ==
  /\ stage = "pad"
  /\ dummies = EmptySlots
  /\ labels' = labels \cup {Dummy(n) : n \in 1 .. dummies}
  /\ Index!Seal
  /\ stage' = "query"
  /\ UNCHANGED <<encryptions, attempt, remaining, statistics, dummies,
                 consumed, query, totals, result>>

\* RAND_bytes or EncryptLabel fails for a dummy: FillEmptySlots rolls back and
\* the run ends.
PadThrows ==
  /\ stage = "pad"
  /\ dummies < EmptySlots
  /\ Index!Abort
  /\ End("threw")
  /\ UNCHANGED <<encryptions, attempt, remaining, statistics, dummies,
                 consumed, query, totals>>

\* QueryAll: the record of the token and whatever records of the index share
\* its metadata; MaxFalse bounds how many of those a query meets.  They are
\* from two buckets, so that "candidate bound exceeded" is out of reach.
Candidates(owner) ==
  {labels \cap ({owner} \cup {f[i] : i \in 1 .. MaxFalse}) :
     f \in [1 .. MaxFalse -> labels]}

Correct(i, documents) ==
  documents = {Document(Keyword(i), j) : j \in Components}

\* Mutant: every query takes the first blind of the pool.
FirstBlind(i) == 0

\* The index in the pool of a query's blind.
Blind(i) == i

\* The blind is spent, and whatever candidates there are are opened and
\* compared with what was put in.
Answer(i) ==
  /\ consumed' = consumed \cup {Blind(i)}
  /\ \E c \in Candidates(Keyword(i)) :
       LET derived == DeriveTokenAndKey(Keyword(i))
           records == {MakeRecord(o) : o \in c}
           correct == Correct(i, AuthenticatedResults(derived, records))
       IN /\ totals' = [totals EXCEPT
               !.query_successes = @ + (IF correct THEN 1 ELSE 0),
               !.candidate_records_total = @ + Cardinality(c),
               !.decrypt_component_attempts = @ + Cardinality(c \X Components)]
          /\ IF correct
             THEN query' = i + 1 /\ UNCHANGED <<stage, result>>
             ELSE End("mismatch") /\ UNCHANGED query

\* One query: EvaluatePrepared throws where the blind has served before.
Query ==
  /\ stage = "query"
  /\ query < Queries
  /\ IF Blind(query) \in consumed
     THEN End("blind reused") /\ UNCHANGED <<consumed, totals, query>>
     ELSE Answer(query)
  /\ UNCHANGED <<encryptions, attempt, remaining, labels, sealed, inserted,
                 statistics, dummies>>

\* All answers were right: the traversal is checked and the row is written.
Finish ==
  /\ stage = "query"
  /\ query = Queries
  /\ End(IF totals.decrypt_component_attempts
              = totals.candidate_records_total * DMax
         THEN "row" ELSE "incomplete")
  /\ UNCHANGED <<encryptions, attempt, remaining, labels, sealed, inserted,
                 statistics, dummies, consumed, query, totals>>

\* Not to be taken for a run that is stuck.
Terminated == stage = "end" /\ UNCHANGED vars

Next ==
  \/ EncryptGenuine
  \/ EncryptThrows
  \/ BeginAttempt
  \/ \E k \in Keywords : InsertRecord(k)
  \/ \E k \in Keywords : RefuseRecord(k)
  \/ AcceptCandidate
  \/ SetupExhausted
  \/ GenerateDummy
  \/ Padded
  \/ PadThrows
  \/ Query
  \/ Finish
  \/ Terminated

Spec == Init /\ [][Next]_vars

-----------------------------------------------------------------------------
(* What is promised.                                                       *)

Sums == [successful_inserts : 0 .. MaxAttempts * KeywordCount,
         failed_inserts : 0 .. MaxAttempts,
         failed_setup_attempts : 0 .. MaxAttempts]

QueryTotals == [query_successes : 0 .. Queries,
                candidate_records_total : Nat,
                decrypt_component_attempts : Nat]

Results == {"none", "row", "exhausted", "threw", "mismatch", "incomplete",
            "blind reused"}

\* Every variable has its type, and at no time does the candidate index hold
\* more records than the slots it was laid out with (VacuumFilter's Capacity).
TypeOK ==
  /\ stage \in {"encrypt", "attempt", "insert", "pad", "query", "end"}
  /\ encryptions \in [Keywords \cup Dummies -> Nat]
  /\ attempt \in 0 .. MaxAttempts
  /\ remaining \subseteq Keywords
  /\ labels \subseteq Keywords \cup Dummies
  /\ attempt > 0 =>
       Cardinality(labels) + dummies * (IF sealed THEN 0 ELSE 1)
         <= Capacity(ScheduledItems(attempt - 1))
  /\ sealed \in BOOLEAN
  /\ inserted \in {"none", "stored", "refused", "padded", "threw"}
  /\ statistics \in Sums
  /\ dummies \in DummyNumbers \cup {0}
  /\ consumed \subseteq 0 .. Queries - 1
  /\ query \in 0 .. Queries
  /\ totals \in QueryTotals
  /\ result \in Results

\* "Use each label key for one immutable record and encrypt each component
\* once ... reuse ciphertexts on layout retries" (aead_label.h:108-110): no
\* two encryptions of a run, of keywords or dummies, have key and nonce in
\* common, however many attempts the layout takes.  The nonce is only the
\* component's position.
EncryptedOnce ==
  LET owners == {o \in DOMAIN encryptions : encryptions[o] > 0}
      used == {<<l.key, l.nonce>> :
                 l \in {MakeRecord(o)[j] : o \in owners, j \in Components}}
  IN /\ \A o \in owners : encryptions[o] = 1
     /\ Cardinality(used) = Cardinality(owners) * DMax

\* The attempts before leave nothing behind: the index that is queried holds
\* the record of every keyword, and what else it holds is the dummies that
\* padded this one to its capacity.
IndexComplete ==
  stage = "query" \/ result = "row" =>
    /\ sealed
    /\ Keywords \subseteq labels
    /\ labels \ Keywords = {Dummy(n) : n \in 1 .. dummies}
    /\ Cardinality(labels) = Capacity(ScheduledItems(attempt - 1))

\* Whatever false candidates a query meets, genuine ones or dummies, it is
\* answered with the documents of its keyword, and from a blind that has not
\* served before: no run ends with "result set mismatch" or "incomplete
\* traversal" (lines 271-282 and 295-298), or with "prepared OPRF blind was
\* reused" (ntl_oprf.cpp:236).
AnswersExact == result \notin {"mismatch", "incomplete", "blind reused"}

\* The row a run writes is one that validate_row accepts
\* (summarize_paired_vs_lse.py:99-108), and its setup counters agree: each
\* attempt but the last was given up at its one failed insert.
RowAccepted ==
  result = "row" =>
    /\ KeywordCount + dummies = Capacity(ScheduledItems(attempt - 1))
    /\ totals.query_successes = Queries
    /\ statistics.failed_setup_attempts = attempt - 1
    /\ statistics.failed_inserts = attempt - 1
    /\ statistics.successful_inserts >= KeywordCount
    /\ statistics.successful_inserts
         <= KeywordCount + (attempt - 1) * (KeywordCount - 1)
=============================================================================
