-------------------------- MODULE CuckooTableProofs --------------------------
(***************************************************************************)
(* Proofs about CuckooTable, for every table size, every assignment of     *)
(* positions and every bound on the walks: Find is exact, the counters     *)
(* tell a failed walk, and the table implements TokenSet.                  *)
(***************************************************************************)
EXTENDS CuckooTable, FiniteSetTheorems, TLAPS

Occupied == {b \in Bins : bins_[b] # Vacant}

\* No token is in two bins.
OneBin == \A b, c \in Bins : bins_[b] # Vacant /\ bins_[b] = bins_[c] => b = c

\* The token of a keyword is in a bin where Find looks for it.
AtHome == \A b \in Bins : bins_[b] \in Keys => b \in PositionsOf(bins_[b])

\* Until the padding begins, the table holds tokens of keywords only, so that
\* no walk ever carries another.
KeysOnly == pc \in {"idle", "walk"} /\ outcome # "filled" => Stored \subseteq Keys

\* A walk holds one token out of the table, and has put in the one it began
\* with unless it still holds that.
WalkInv ==
  pc = "walk" =>
    /\ outcome \in {"none", "stored"}
    /\ token \in Keys
    /\ token \notin Stored
    /\ incoming \in Keys
    /\ incoming \in Stored \cup {token}

\* Padding finds all keywords in the table and leaves no bin behind it free.
FillInv ==
  /\ pc # "fill" => bin = 0
  /\ pc = "fill" => /\ outcome \in {"none", "stored"}
                    /\ Keys \subseteq Stored
                    /\ \A b \in Bins : b < bin => bins_[b] # Vacant

CuckooInv ==
  /\ TypeOK
  /\ OneBin
  /\ AtHome
  /\ KeysOnly
  /\ WalkInv
  /\ FillInv
  /\ CountersAgree

-----------------------------------------------------------------------------
(* Sets of bins and of tokens.                                             *)

\* There are as many bins as the constructor made.
LEMMA BinsFinite == IsFiniteSet(Bins) /\ Cardinality(Bins) = BinCount
BY TableAssumption, FS_Interval DEF Bins

\* The tokens of the keywords are finitely many, and none is the mark of
\* a vacant bin.
LEMMA KeysFinite ==
  /\ IsFiniteSet(Keys)
  /\ Cardinality(Keys) \in Nat
  /\ Keys \subseteq Tokens
  /\ Vacant \notin Keys
<1>1. Keys \subseteq Tokens
  BY DEF Tokens
<1> QED BY <1>1, TableAssumption, FS_Subset, FS_CardinalityType

\* The positions of a token are bins.
LEMMA PositionType ==
  ASSUME NEW t \in Tokens, NEW h \in Hashes
  PROVE  Position[t][h] \in Bins
BY TableAssumption

\* As many tokens are stored as bins are occupied.
LEMMA StoredCounted ==
  ASSUME TypeOK, OneBin
  PROVE  /\ IsFiniteSet(Stored)
         /\ IsFiniteSet(Occupied)
         /\ Cardinality(Stored) = Cardinality(Occupied)
         /\ Cardinality(Occupied) \in Nat
<1> DEFINE F == [b \in Occupied |-> bins_[b]]
<1>1. IsFiniteSet(Occupied) /\ Cardinality(Occupied) \in Nat
  BY BinsFinite, FS_Subset, FS_CardinalityType DEF Occupied
<1>2. F \in [Occupied -> Stored]
  BY DEF Occupied, Stored
<1>3. \A b, c \in Occupied : F[b] = F[c] => b = c
  BY DEF Occupied, OneBin
<1>4. \A t \in Stored : \E b \in Occupied : F[b] = t
  BY DEF Occupied, Stored
<1> HIDE DEF F
<1>5. F \in Bijection(Occupied, Stored)
  BY <1>2, <1>3, <1>4 DEF Bijection, Injection, Surjection, IsInjective
<1> QED BY <1>1, <1>5, FS_Bijection DEF ExistsBijection

\* A token the table does not hold is put in bin c.
LEMMA PutToken ==
  ASSUME TypeOK, OneBin, NEW c \in Bins, NEW t \in Tokens, t \notin Stored,
         bins_' = [bins_ EXCEPT ![c] = t]
  PROVE  /\ bins_' \in [Bins -> Tokens \cup {Vacant}]
         /\ \A b \in Bins : bins_'[b] = IF b = c THEN t ELSE bins_[b]
         /\ OneBin'
         /\ Occupied' = Occupied \cup {c}
         /\ Stored' = (Stored \ {bins_[c]}) \cup {t}
         /\ (bins_[c] # Vacant => bins_[c] \in Stored /\ bins_[c] \notin Stored')
         /\ t # Vacant
<1>1. /\ bins_' \in [Bins -> Tokens \cup {Vacant}]
      /\ \A b \in Bins : bins_'[b] = IF b = c THEN t ELSE bins_[b]
      /\ t # Vacant
  BY TableAssumption DEF TypeOK
<1>2. \A b \in Bins : bins_[b] # t
  BY <1>1 DEF Stored
<1>3. OneBin'
  BY <1>1, <1>2 DEF OneBin
<1>4. Occupied' = Occupied \cup {c}
  BY <1>1 DEF Occupied
<1>5. ASSUME NEW x
      PROVE  x \in Stored' <=> x \in (Stored \ {bins_[c]}) \cup {t}
  BY <1>1, <1>2 DEF Stored, OneBin
<1>6. bins_[c] # Vacant => bins_[c] \in Stored /\ bins_[c] \notin Stored'
  BY <1>2, <1>5 DEF Stored
<1> QED BY <1>1, <1>3, <1>4, <1>5, <1>6

-----------------------------------------------------------------------------
(* The counters.                                                           *)

\* A sum of k walks of at most m steps, and one walk more.
LEMMA WalkSum ==
  ASSUME NEW a \in Nat, NEW m \in Nat, NEW k \in Nat, a <= m * k,
         NEW n \in Nat, NEW M \in Nat, m <= M, n <= M
  PROVE  a + n <= M * (k + 1)
<1>1. m * k <= M * k
  OBVIOUS
<1>2. M * (k + 1) = M * k + M /\ m * k \in Nat /\ M * k \in Nat
  OBVIOUS
<1> QED BY <1>1, <1>2

\* What a walk that ends after n turns, in a success or a failure, adds.
LEMMA WalkCounted ==
  ASSUME TypeOK, CountersAgree,
         NEW successes \in {0, 1}, NEW failures \in {0, 1},
         successes + failures = 1,
         NEW n \in 0 .. MaxRelocations, Count(successes, failures, n)
  PROVE  LET s == statistics_
         IN /\ s'.successful_inserts = s.successful_inserts + successes
            /\ s'.failed_inserts = s.failed_inserts + failures
            /\ s'.relocation_steps \in Nat
            /\ s'.maximum_relocation_chain \in 0 .. MaxRelocations
            /\ s'.maximum_relocation_chain >= n
            /\ s'.relocation_steps <= s'.maximum_relocation_chain
                                * (s'.successful_inserts + s'.failed_inserts)
            /\ s' = [successful_inserts |-> s'.successful_inserts,
                     failed_inserts |-> s'.failed_inserts,
                     relocation_steps |-> s'.relocation_steps,
                     maximum_relocation_chain |-> s'.maximum_relocation_chain]
<1> DEFINE s == statistics_
           a == s.relocation_steps
           m == s.maximum_relocation_chain
           k == s.successful_inserts + s.failed_inserts
           M == Larger(m, n)
<1>1. /\ a \in Nat
      /\ m \in 0 .. MaxRelocations
      /\ s.successful_inserts \in Nat
      /\ s.failed_inserts \in Nat
      /\ a <= m * k
  BY KeysFinite DEF TypeOK, Statistics, CountersAgree
<1>2. /\ s'.successful_inserts = s.successful_inserts + successes
      /\ s'.failed_inserts = s.failed_inserts + failures
      /\ s'.relocation_steps = a + n
      /\ s'.maximum_relocation_chain = M
      /\ s' = [successful_inserts |-> s'.successful_inserts,
               failed_inserts |-> s'.failed_inserts,
               relocation_steps |-> s'.relocation_steps,
               maximum_relocation_chain |-> s'.maximum_relocation_chain]
  BY DEF Count
<1>3. s'.successful_inserts + s'.failed_inserts = k + 1 /\ k \in Nat
  BY <1>1, <1>2
<1> HIDE DEF a, m, k
<1>4. M \in 0 .. MaxRelocations /\ m <= M /\ n <= M
  BY <1>1, TableAssumption DEF Larger
<1> HIDE DEF M
<1>5. a + n <= M * (k + 1)
  BY <1>1, <1>3, <1>4, TableAssumption, WalkSum
<1>6. a + n \in Nat
  BY <1>1
<1> QED BY <1>2, <1>3, <1>4, <1>5, <1>6

-----------------------------------------------------------------------------
(* The invariant is inductive.                                             *)

\* A new table is vacant.
LEMMA CuckooInit == Init => CuckooInv
<1> SUFFICES ASSUME Init PROVE CuckooInv
  OBVIOUS
<1>1. bins_ = [b \in Bins |-> Vacant] /\ Vacant \notin Keys
  BY KeysFinite DEF Init
<1>2. TypeOK
  BY <1>1, KeysFinite, TableAssumption DEF Init, TypeOK, Statistics
<1>3. {b \in Bins : bins_[b] # Vacant} = {} /\ Stored = {}
  BY <1>1 DEF Stored
<1>4. Cardinality({b \in Bins : bins_[b] # Vacant}) = 0
  BY <1>3, FS_EmptySet
<1>5. CountersAgree
  BY <1>4, TableAssumption DEF Init, CountersAgree
<1>6. OneBin /\ AtHome /\ KeysOnly /\ WalkInv /\ FillInv
  BY <1>1, <1>3 DEF Init, OneBin, AtHome, KeysOnly, WalkInv, FillInv
<1> QED BY <1>2, <1>5, <1>6 DEF CuckooInv

\* A walk that finds a free bin.
LEMMA PlacesStep ==
  ASSUME CuckooInv, InsertPlaces
  PROVE  CuckooInv'
<1> DEFINE s == statistics_
<1> USE DEF CuckooInv
<1>1. PICK h \in FreeHashes :
        bins_' = [bins_ EXCEPT ![Position[token][h]] = token]
  BY DEF InsertPlaces
<1> DEFINE c == Position[token][h]
<1>2. /\ pc = "walk"
      /\ relocation \in 0 .. MaxRelocations
      /\ Count(1, 0, relocation)
      /\ pc' = "idle"
      /\ incoming' = Vacant
      /\ token' = Vacant
      /\ relocation' = 0
      /\ bin' = 0
      /\ outcome' = "stored"
  BY DEF InsertPlaces, InWalk, Return, TypeOK
<1>3. /\ outcome \in {"none", "stored"}
      /\ token \in Keys
      /\ token \in Tokens
      /\ token \notin Stored
      /\ Stored \subseteq Keys
  BY <1>2, KeysFinite DEF WalkInv, KeysOnly
<1>4. c \in Bins /\ bins_[c] = Vacant /\ c \in PositionsOf(token)
  BY <1>3, PositionType DEF FreeHashes, PositionsOf
<1> HIDE DEF c
<1>5. /\ bins_' \in [Bins -> Tokens \cup {Vacant}]
      /\ \A b \in Bins : bins_'[b] = IF b = c THEN token ELSE bins_[b]
      /\ OneBin'
      /\ Occupied' = Occupied \cup {c}
      /\ Stored' = (Stored \ {bins_[c]}) \cup {token}
  BY <1>1, <1>3, <1>4, PutToken DEF c
<1>6. Stored' = Stored \cup {token}
  BY <1>4, <1>5 DEF Stored
<1>7. /\ Cardinality(Occupied') = Cardinality(Occupied) + 1
      /\ Cardinality(Occupied) = s.successful_inserts
      /\ Cardinality(Occupied) < Cardinality(Keys)
      /\ Cardinality(Occupied) \in Nat
  <2>1. /\ IsFiniteSet(Stored) /\ IsFiniteSet(Occupied)
        /\ Cardinality(Stored) = Cardinality(Occupied)
        /\ Cardinality(Occupied) \in Nat
    BY StoredCounted
  <2>2. c \notin Occupied
    BY <1>4 DEF Occupied
  <2>3. Cardinality(Occupied') = Cardinality(Occupied) + 1
    BY <1>5, <2>1, <2>2, FS_AddElement
  <2>4. Cardinality(Occupied) = s.successful_inserts
    BY <1>2, <1>3 DEF CountersAgree, Occupied
  <2>5. Cardinality(Stored \cup {token}) = Cardinality(Stored) + 1
    BY <1>3, <2>1, FS_AddElement
  <2>6. Cardinality(Stored \cup {token}) <= Cardinality(Keys)
    BY <1>3, KeysFinite, FS_Subset
  <2> QED BY <2>1, <2>3, <2>4, <2>5, <2>6, KeysFinite
<1>8. /\ s'.successful_inserts = s.successful_inserts + 1
      /\ s'.failed_inserts = s.failed_inserts
      /\ s'.relocation_steps \in Nat
      /\ s'.maximum_relocation_chain \in 0 .. MaxRelocations
      /\ s'.relocation_steps <= s'.maximum_relocation_chain
                          * (s'.successful_inserts + s'.failed_inserts)
      /\ s' = [successful_inserts |-> s'.successful_inserts,
               failed_inserts |-> s'.failed_inserts,
               relocation_steps |-> s'.relocation_steps,
               maximum_relocation_chain |-> s'.maximum_relocation_chain]
  <2>1. s.failed_inserts \in 0 .. 1
    BY DEF TypeOK, Statistics
  <2> QED BY <1>2, <2>1, WalkCounted
<1>9. s.failed_inserts = 0
  BY <1>3 DEF CountersAgree, TypeOK, Statistics
<1>10. s' \in Statistics
  <2>1. s'.successful_inserts \in 0 .. Cardinality(Keys)
    BY <1>7, <1>8, KeysFinite
  <2> QED BY <1>8, <1>9, <2>1 DEF Statistics
<1>11. TypeOK'
  BY <1>2, <1>5, <1>10, TableAssumption DEF TypeOK
<1>12. CountersAgree'
  BY <1>2, <1>7, <1>8, <1>9 DEF CountersAgree, Occupied
<1>13. AtHome'
  BY <1>4, <1>5 DEF AtHome, PositionsOf
<1> QED BY <1>2, <1>3, <1>5, <1>6, <1>11, <1>12, <1>13
        DEF KeysOnly, WalkInv, FillInv

\* A walk that swaps its token for another.
LEMMA SwapsStep ==
  ASSUME CuckooInv, InsertSwaps
  PROVE  /\ CuckooInv'
         /\ pc' = "walk"
         /\ incoming' = incoming
         /\ outcome' = outcome
         /\ Stored' \cup {token'} = Stored \cup {token}
<1> USE DEF CuckooInv
<1>1. PICK h \in Hashes :
        /\ token' = bins_[Position[token][h]]
        /\ bins_' = [bins_ EXCEPT ![Position[token][h]] = token]
  BY DEF InsertSwaps
<1> DEFINE c == Position[token][h]
<1>2. /\ pc = "walk"
      /\ relocation < MaxRelocations
      /\ relocation' = relocation + 1
      /\ FreeHashes = {}
      /\ UNCHANGED <<statistics_, pc, incoming, bin, outcome>>
  BY DEF InsertSwaps, InWalk
<1>3. /\ outcome \in {"none", "stored"}
      /\ token \in Keys
      /\ token \in Tokens
      /\ token \notin Stored
      /\ Stored \subseteq Keys
      /\ incoming \in Keys
      /\ incoming \in Stored \cup {token}
  BY <1>2, KeysFinite DEF WalkInv, KeysOnly
<1>4. c \in Bins /\ bins_[c] # Vacant /\ c \in PositionsOf(token)
  BY <1>2, <1>3, PositionType DEF FreeHashes, PositionsOf
<1> HIDE DEF c
<1>5. /\ bins_' \in [Bins -> Tokens \cup {Vacant}]
      /\ \A b \in Bins : bins_'[b] = IF b = c THEN token ELSE bins_[b]
      /\ OneBin'
      /\ Occupied' = Occupied \cup {c}
      /\ Stored' = (Stored \ {bins_[c]}) \cup {token}
      /\ bins_[c] \in Stored /\ bins_[c] \notin Stored'
  BY <1>1, <1>3, <1>4, PutToken DEF c
<1>6. token' = bins_[c]
  BY <1>1 DEF c
<1>7. Stored' \cup {token'} = Stored \cup {token} /\ Stored' \subseteq Keys
  BY <1>3, <1>5, <1>6
<1>8. Occupied' = Occupied
  BY <1>4, <1>5 DEF Occupied
<1>9. TypeOK'
  BY <1>2, <1>3, <1>5, <1>6, TableAssumption DEF TypeOK
<1>10. CountersAgree'
  BY <1>2, <1>8 DEF CountersAgree, Occupied
<1>11. AtHome'
  BY <1>4, <1>5 DEF AtHome, PositionsOf
<1>12. WalkInv'
  BY <1>2, <1>3, <1>5, <1>6, <1>7 DEF WalkInv
<1> QED BY <1>2, <1>5, <1>7, <1>9, <1>10, <1>11, <1>12 DEF KeysOnly, FillInv

\* A walk that is given up.
LEMMA FailsStep ==
  ASSUME CuckooInv, InsertFails
  PROVE  CuckooInv'
<1> DEFINE s == statistics_
<1> USE DEF CuckooInv
<1>1. /\ pc = "walk"
      /\ Count(0, 1, MaxRelocations)
      /\ MaxRelocations \in 0 .. MaxRelocations
      /\ pc' = "idle"
      /\ incoming' = Vacant
      /\ token' = Vacant
      /\ relocation' = 0
      /\ bin' = 0
      /\ outcome' = "failed"
      /\ bins_' = bins_
  BY TableAssumption DEF InsertFails, Return
<1>2. outcome \in {"none", "stored"} /\ Stored \subseteq Keys
  BY <1>1 DEF WalkInv, KeysOnly
<1>3. s.failed_inserts = 0
  BY <1>2 DEF CountersAgree, TypeOK, Statistics
<1>4. /\ s'.successful_inserts = s.successful_inserts + 0
      /\ s'.failed_inserts = 1
      /\ s'.relocation_steps \in Nat
      /\ s'.maximum_relocation_chain \in 0 .. MaxRelocations
      /\ s'.maximum_relocation_chain >= MaxRelocations
      /\ s'.relocation_steps <= s'.maximum_relocation_chain
                          * (s'.successful_inserts + s'.failed_inserts)
      /\ s' = [successful_inserts |-> s'.successful_inserts,
               failed_inserts |-> s'.failed_inserts,
               relocation_steps |-> s'.relocation_steps,
               maximum_relocation_chain |-> s'.maximum_relocation_chain]
  BY <1>1, <1>3, WalkCounted
<1>5. s'.successful_inserts = s.successful_inserts
  BY <1>4, KeysFinite DEF TypeOK, Statistics
<1>6. s' \in Statistics
  BY <1>4, <1>5 DEF TypeOK, Statistics
<1>7. TypeOK'
  BY <1>1, <1>6, TableAssumption DEF TypeOK
<1>8. CountersAgree'
  <2>1. s'.maximum_relocation_chain = MaxRelocations
    BY <1>4, TableAssumption
  <2>2. Occupied' = Occupied
    BY <1>1 DEF Occupied
  <2>3. Cardinality(Occupied) = s.successful_inserts
    BY <1>1, <1>2 DEF CountersAgree, Occupied
  <2> QED BY <1>1, <1>4, <1>5, <2>1, <2>2, <2>3 DEF CountersAgree, Occupied
<1>9. Stored' = Stored /\ OneBin' /\ AtHome'
  BY <1>1 DEF Stored, OneBin, AtHome, PositionsOf
<1> QED BY <1>1, <1>2, <1>7, <1>8, <1>9 DEF KeysOnly, WalkInv, FillInv

\* Padding a bin: its token is that of no keyword.
LEMMA FillBinStep ==
  ASSUME CuckooInv, FillBin
  PROVE  /\ CuckooInv'
         /\ pc = "fill" /\ pc' = "fill"
         /\ outcome' = outcome
         /\ Stored' \cap Keys = Stored \cap Keys
<1> USE DEF CuckooInv
<1>1. PICK t \in FreshTokens : bins_' = [bins_ EXCEPT ![bin] = t]
  BY DEF FillBin
<1>2. /\ pc = "fill"
      /\ bin \in Bins
      /\ bins_[bin] = Vacant
      /\ bin' = bin + 1
      /\ bin + 1 \in 0 .. BinCount
      /\ UNCHANGED <<statistics_, pc, incoming, token, relocation, outcome>>
  BY TableAssumption DEF FillBin, InFill, Bins, TypeOK
<1>3. /\ outcome \in {"none", "stored"}
      /\ Keys \subseteq Stored
      /\ t \in Tokens
      /\ t \notin Stored
      /\ t \notin Keys
  BY <1>2 DEF FillInv, FreshTokens
<1> DEFINE c == bin
<1>4. /\ bins_' \in [Bins -> Tokens \cup {Vacant}]
      /\ \A b \in Bins : bins_'[b] = IF b = c THEN t ELSE bins_[b]
      /\ OneBin'
      /\ Stored' = (Stored \ {bins_[c]}) \cup {t}
      /\ t # Vacant
  BY <1>1, <1>2, <1>3, PutToken
<1>5. Stored' = Stored \cup {t}
  BY <1>2, <1>4 DEF Stored
<1>6. TypeOK'
  BY <1>2, <1>4, TableAssumption DEF TypeOK
<1>7. AtHome'
  BY <1>3, <1>4 DEF AtHome, PositionsOf
<1>8. CountersAgree'
  BY <1>2, <1>3 DEF CountersAgree
<1>9. \A b \in Bins : b < bin + 1 => bins_'[b] # Vacant
  <2> SUFFICES ASSUME NEW b \in Bins, b < bin + 1 PROVE bins_'[b] # Vacant
    OBVIOUS
  <2>1. CASE b = bin
    BY <1>4, <2>1
  <2>2. CASE b # bin
    <3>1. b < bin
      BY <1>2, <2>2 DEF Bins
    <3> QED BY <1>2, <1>4, <2>2, <3>1 DEF FillInv
  <2> QED BY <2>1, <2>2
<1>10. FillInv'
  BY <1>2, <1>3, <1>5, <1>9 DEF FillInv
<1> QED BY <1>2, <1>3, <1>4, <1>5, <1>6, <1>7, <1>8, <1>10
        DEF KeysOnly, WalkInv

\* A full table holds one token for each bin.
LEMMA FullTable ==
  ASSUME CuckooInv, \A b \in Bins : bins_[b] # Vacant
  PROVE  Cardinality(Stored) = BinCount
<1>1. Occupied = Bins
  BY DEF Occupied
<1> QED BY <1>1, BinsFinite, StoredCounted DEF CuckooInv

\* Every step keeps the invariant.
LEMMA CuckooStep ==
  ASSUME CuckooInv, [Next]_vars
  PROVE  CuckooInv'
<1> USE DEF CuckooInv
<1>1. ASSUME bins_' = bins_
      PROVE  Stored' = Stored /\ OneBin' /\ AtHome'
  BY <1>1 DEF Stored, OneBin, AtHome, PositionsOf
<1>2. ASSUME NEW k \in Keys, InsertBegin(k)
      PROVE  CuckooInv'
  <2>1. /\ pc = "idle" /\ pc' = "walk"
        /\ outcome \in {"none", "stored"}
        /\ k \notin Stored
        /\ incoming' = k /\ token' = k
        /\ UNCHANGED <<bins_, statistics_, relocation, bin, outcome>>
    BY <1>2 DEF InsertBegin, Usable
  <2>2. TypeOK' /\ CountersAgree'
    BY <2>1 DEF TypeOK, CountersAgree
  <2>3. KeysOnly' /\ WalkInv' /\ FillInv'
    BY <1>1, <2>1 DEF KeysOnly, WalkInv, FillInv
  <2> QED BY <1>1, <2>1, <2>2, <2>3
<1>3. CASE FillBegin
  <2>1. /\ pc = "idle" /\ pc' = "fill"
        /\ outcome \in {"none", "stored"}
        /\ Keys \subseteq Stored
        /\ UNCHANGED <<bins_, statistics_, incoming, token, relocation, bin, outcome>>
    BY <1>3 DEF FillBegin, Usable
  <2>2. TypeOK' /\ CountersAgree'
    BY <2>1 DEF TypeOK, CountersAgree
  <2>3. KeysOnly' /\ WalkInv' /\ FillInv'
    BY <1>1, <2>1 DEF KeysOnly, WalkInv, FillInv, Bins
  <2> QED BY <1>1, <2>1, <2>2, <2>3
<1>4. CASE FillSkips
  <2>1. /\ pc = "fill" /\ bin \in Bins
        /\ bins_[bin] # Vacant
        /\ bin' = bin + 1
        /\ bin + 1 \in 0 .. BinCount
        /\ UNCHANGED <<bins_, statistics_, pc, incoming, token, relocation, outcome>>
    BY <1>4, TableAssumption DEF FillSkips, InFill, Bins, TypeOK
  <2>2. TypeOK' /\ CountersAgree'
    BY <2>1 DEF TypeOK, CountersAgree
  <2>3. \A b \in Bins : b < bin + 1 => b < bin \/ b = bin
    BY <2>1 DEF Bins
  <2>4. KeysOnly' /\ WalkInv' /\ FillInv'
    BY <1>1, <2>1, <2>3 DEF KeysOnly, WalkInv, FillInv
  <2> QED BY <1>1, <2>1, <2>2, <2>4
<1>5. CASE FillReturns
  <2>1. /\ pc = "fill" /\ pc' = "idle"
        /\ incoming' = Vacant /\ token' = Vacant
        /\ relocation' = 0 /\ bin' = 0
        /\ outcome' = "filled"
        /\ UNCHANGED <<bins_, statistics_>>
    BY <1>5 DEF FillReturns, Return
  <2>2. TypeOK'
    BY <2>1, TableAssumption DEF TypeOK
  <2>3. CountersAgree'
    BY <2>1 DEF CountersAgree, FillInv
  <2>4. KeysOnly' /\ WalkInv' /\ FillInv'
    BY <2>1 DEF KeysOnly, WalkInv, FillInv
  <2> QED BY <1>1, <2>1, <2>2, <2>3, <2>4
<1>6. CASE UNCHANGED vars
  <2>1. UNCHANGED <<bins_, statistics_, pc, incoming, token, relocation, bin, outcome>>
    BY <1>6 DEF vars
  <2> QED BY <1>1, <2>1 DEF TypeOK, CountersAgree, KeysOnly, WalkInv, FillInv
<1> QED
  BY <1>2, <1>3, <1>4, <1>5, <1>6, PlacesStep, SwapsStep, FailsStep, FillBinStep
     DEF Next, Continue

-----------------------------------------------------------------------------
(* Theorems.                                                               *)

\* Every reachable state satisfies the invariant.
THEOREM CuckooInvariant == Spec => []CuckooInv
<1>1. Init => CuckooInv
  BY CuckooInit
<1>2. CuckooInv /\ [Next]_vars => CuckooInv'
  BY CuckooStep
<1> QED BY <1>1, <1>2, PTL DEF Spec

\* Every variable keeps its type; no walk ever carries a dummy.
THEOREM CuckooTypes == Spec => []TypeOK
<1>1. CuckooInv => TypeOK
  BY DEF CuckooInv
<1> QED BY <1>1, CuckooInvariant, PTL

\* Find finds every stored token of a keyword, which is in one bin only.
THEOREM FindIsExact == Spec => []FindExact
<1>1. CuckooInv => FindExact
  <2> SUFFICES ASSUME CuckooInv, NEW k \in Keys
               PROVE  /\ k \in Stored => Find(k) # {}
                      /\ Cardinality({b \in Bins : bins_[b] = k}) <= 1
    BY DEF FindExact
  <2> DEFINE B == {b \in Bins : bins_[b] = k}
  <2>1. k \in Stored => Find(k) # {}
    BY DEF CuckooInv, AtHome, Stored, Find
  <2>2. CASE B = {}
    <3>1. Cardinality(B) = 0
      BY <2>2, FS_EmptySet
    <3> QED BY <2>1, <3>1
  <2>3. CASE B # {}
    <3>1. PICK b \in Bins : bins_[b] = k
      BY <2>3
    <3>2. B = {b}
      BY <3>1, KeysFinite DEF CuckooInv, OneBin
    <3>3. Cardinality(B) = 1
      BY <3>2, FS_Singleton
    <3> QED BY <2>1, <3>3
  <2> QED BY <2>2, <2>3
<1> QED BY <1>1, CuckooInvariant, PTL

\* One bin per success, and a failure shows in the counters.
THEOREM CountersAreTrue == Spec => []CountersAgree
<1>1. CuckooInv => CountersAgree
  BY DEF CuckooInv
<1> QED BY <1>1, CuckooInvariant, PTL

\* TokenSet counts as this module does: the instance has a Cardinality of its
\* own.
LEMMA SameCardinality ==
  ASSUME NEW S
  PROVE  Set!Cardinality(S) = Cardinality(S)
BY DEF Set!Cardinality, Cardinality

\* To its caller the table is TokenSet: an insert adds its token or, when it
\* fails, costs one token; padding completes the set.
THEOREM CuckooImplementsSet == Spec => ImplementsTokenSet
<1> DEFINE tokens == IF pc = "walk" THEN (Stored \cup {token}) \ {incoming}
                     ELSE IF pc = "fill" THEN Stored \cap Keys
                     ELSE Stored
<1>1. Init => Set!Init
  BY DEF Init, Set!Init, Stored
<1>2. ASSUME CuckooInv, [Next]_vars
      PROVE  [Set!Next]_Set!vars
  <2> SUFFICES \/ \E t \in Keys : Set!Store(t) \/ Set!Lose(t)
               \/ Set!Fill
               \/ tokens' = tokens /\ outcome' = outcome
    BY DEF Set!Next, Set!vars
  <2>1. ASSUME NEW k \in Keys, InsertBegin(k)
        PROVE  tokens' = tokens /\ outcome' = outcome
    BY <2>1 DEF InsertBegin, Usable, Stored
  <2>2. CASE FillBegin
    <3>1. Stored \subseteq Keys
      BY <1>2, <2>2 DEF CuckooInv, KeysOnly, FillBegin, Usable
    <3> QED BY <2>2, <3>1 DEF FillBegin, Usable, Stored
  <2>3. CASE InsertPlaces
    <3>1. PICK h \in FreeHashes :
            bins_' = [bins_ EXCEPT ![Position[token][h]] = token]
      BY <2>3 DEF InsertPlaces
    <3> DEFINE c == Position[token][h]
    <3>2. /\ pc = "walk" /\ pc' = "idle" /\ outcome' = "stored"
          /\ outcome \in {"none", "stored"}
          /\ token \in Tokens /\ token \notin Stored
          /\ incoming \in Keys /\ incoming \in Stored \cup {token}
      BY <1>2, <2>3, KeysFinite
         DEF CuckooInv, WalkInv, InsertPlaces, InWalk, Return
    <3>3. c \in Bins /\ bins_[c] = Vacant
      BY <3>2, PositionType DEF FreeHashes
    <3> HIDE DEF c
    <3>4. Stored' = (Stored \ {bins_[c]}) \cup {token}
      BY <1>2, <3>1, <3>2, <3>3, PutToken DEF CuckooInv, c
    <3>5. Stored' = Stored \cup {token}
      BY <3>3, <3>4 DEF Stored
    <3>6. tokens' = tokens \cup {incoming} /\ incoming \notin tokens
      BY <3>2, <3>5
    <3>7. Set!Store(incoming)
      BY <3>2, <3>6 DEF Set!Store, Set!Usable
    <3> QED BY <3>2, <3>7
  <2>4. CASE InsertSwaps
    BY <1>2, <2>4, SwapsStep DEF InsertSwaps, InWalk
  <2>5. CASE InsertFails
    <3>1. /\ pc = "walk" /\ pc' = "idle" /\ outcome' = "failed"
          /\ outcome \in {"none", "stored"}
          /\ token \notin Stored
          /\ incoming \in Keys /\ incoming \in Stored \cup {token}
          /\ Stored' = Stored
      BY <1>2, <2>5 DEF CuckooInv, WalkInv, InsertFails, Return, Stored
    <3>2. /\ token \in tokens \cup {incoming}
          /\ tokens' = (tokens \cup {incoming}) \ {token}
          /\ incoming \notin tokens
      BY <3>1
    <3>3. Set!Lose(incoming)
      BY <3>1, <3>2 DEF Set!Lose, Set!Usable
    <3> QED BY <3>1, <3>3
  <2>6. CASE FillSkips
    BY <2>6 DEF FillSkips, InFill, Stored
  <2>7. CASE FillBin
    BY <1>2, <2>7, FillBinStep
  <2>8. CASE FillReturns
    <3>1. /\ pc = "fill" /\ pc' = "idle" /\ outcome' = "filled"
          /\ bin = BinCount
          /\ outcome \in {"none", "stored"}
          /\ Stored' = Stored
          /\ Stored \subseteq Tokens
      BY <1>2, <2>8
         DEF CuckooInv, TypeOK, FillInv, FillReturns, Return, Stored
    <3>2. \A b \in Bins : bins_[b] # Vacant
      BY <1>2, <3>1, TableAssumption DEF CuckooInv, FillInv, Bins
    <3>3. Set!Cardinality(Stored) = BinCount
      BY <1>2, <3>2, FullTable, SameCardinality
    <3>4. Set!Fill
      BY <3>1, <3>3 DEF Set!Fill, Set!Usable
    <3> QED BY <3>4
  <2>9. CASE UNCHANGED vars
    BY <2>9 DEF vars, Stored
  <2> QED BY <1>2, <2>1, <2>2, <2>3, <2>4, <2>5, <2>6, <2>7, <2>8, <2>9
          DEF Next, Continue
<1> QED BY <1>1, <1>2, CuckooInvariant, PTL DEF Spec, ImplementsTokenSet, Set!Spec
=============================================================================
