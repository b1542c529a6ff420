-------------------------- MODULE LseProtocolProofs --------------------------
(***************************************************************************)
(* Proofs about LseProtocol, for every number of keywords, of queries and  *)
(* of components, and every set of random tokens: whatever the table loses *)
(* on the way, no query of a run that gets so far fails, and the object    *)
(* the client downloads is whole.                                          *)
(***************************************************************************)
EXTENDS LseProtocol, FiniteSetTheorems, TLAPS

\* The labels of a keyword are its own, and the padding has made up a token of
\* its own for every bin it has filled.
LabelsInv ==
  /\ \A k \in Keywords \cap DOMAIN encrypted_data : encrypted_data[k] = Labels(k)
  /\ dummies \subseteq Randoms
  /\ IsFiniteSet(dummies)
  /\ filled = Cardinality(dummies)

\* What the index and encrypted_data hold at each stage.
ObjectInv ==
  /\ stage = "setup" =>
       /\ tokens = 0 .. item - 1
       /\ DOMAIN encrypted_data = tokens
       /\ dummies = {}
  /\ stage \in {"setup", "pad"} => inserted \in {"none", "stored"}
  /\ stage = "pad" =>
       /\ tokens = Keywords
       /\ DOMAIN encrypted_data = Keywords \cup dummies
  /\ stage = "query" \/ result = "row" =>
       /\ tokens = Keywords \cup dummies
       /\ DOMAIN encrypted_data = tokens
       /\ KeywordCount + filled = BinCount

\* No lookup has failed, and the queries so far have used their blinds.
LookupInv ==
  /\ stage # "end" => result = "none"
  /\ result \in {"none", "row", "insertion failed"}
  /\ consumed = UNION {Blinds(i) : i \in 0 .. query - 1}
  /\ totals = [query_successes |-> query,
               decrypt_component_attempts |-> query * DMax]

LseInv == TypeOK /\ LabelsInv /\ ObjectInv /\ LookupInv

-----------------------------------------------------------------------------

\* The options are numbers, and there is a bin for every keyword.
LEMMA OptionsType ==
  /\ KeywordCount \in Nat \ {0}
  /\ Queries \in Nat /\ Queries <= KeywordCount
  /\ DMax \in Nat \ {0}
  /\ BinCount \in Nat /\ KeywordCount <= BinCount
BY OptionAssumption DEF BinCount

\* There are as many keywords as the options say.
LEMMA KeywordsCounted ==
  /\ IsFiniteSet(Keywords)
  /\ Cardinality(Keywords) = KeywordCount
BY OptionsType, FS_Interval DEF Keywords

\* TokenSet counts as this module does: the instance has a Cardinality of
\* its own.
LEMMA SameCardinality ==
  ASSUME NEW S
  PROVE  Index!Cardinality(S) = Cardinality(S)
BY DEF Index!Cardinality, Cardinality

\* Keywords and dummies are counted apart.
LEMMA KeywordsAndDummies ==
  ASSUME NEW D, D \subseteq Randoms, IsFiniteSet(D)
  PROVE  /\ Cardinality(D) \in Nat
         /\ Cardinality(Keywords \cup D) = KeywordCount + Cardinality(D)
<1>1. Keywords \cap D = {}
  BY RandomAssumption
<1>2. Cardinality(Keywords \cap D) = 0
  BY <1>1, FS_EmptySet
<1>3. Cardinality(Keywords \cup D)
        = Cardinality(Keywords) + Cardinality(D) - Cardinality(Keywords \cap D)
  BY KeywordsCounted, FS_Union
<1>4. Cardinality(D) \in Nat
  BY FS_CardinalityType
<1> QED BY <1>2, <1>3, <1>4, KeywordsCounted, OptionsType

\* emplace adds labels under a new token and keeps those that are there.
LEMMA Emplaced ==
  ASSUME NEW t, NEW labels
  PROVE  /\ DOMAIN Emplace(t, labels) = DOMAIN encrypted_data \cup {t}
         /\ \A u \in DOMAIN encrypted_data :
              Emplace(t, labels)[u] = encrypted_data[u]
         /\ t \notin DOMAIN encrypted_data => Emplace(t, labels)[t] = labels
BY DEF Emplace

\* A run begins with nothing.
LEMMA LseInit == Init => LseInv
<1> SUFFICES ASSUME Init PROVE LseInv
  OBVIOUS
<1>1. /\ stage = "setup" /\ item = 0 /\ tokens = {} /\ inserted = "none"
      /\ DOMAIN encrypted_data = {} /\ filled = 0 /\ dummies = {}
      /\ consumed = {} /\ query = 0
      /\ totals = [query_successes |-> 0, decrypt_component_attempts |-> 0]
      /\ result = "none"
  BY DEF Init, Index!Init
<1>2. TypeOK
  <2>1. Cardinality(tokens \cup dummies) <= BinCount
    BY <1>1, FS_EmptySet, OptionsType
  <2>2. /\ 0 \in 0 .. Queries * DMax /\ 0 \in 0 .. Queries
        /\ 0 \in 0 .. KeywordCount /\ 0 \in 0 .. BinCount
    <3>1. Queries * DMax \in Nat
      BY OptionsType
    <3> QED BY <3>1, OptionsType
  <2> QED BY <1>1, <2>1, <2>2 DEF TypeOK, Results
<1>3. LabelsInv
  BY <1>1, FS_EmptySet DEF LabelsInv
<1>4. ObjectInv
  BY <1>1 DEF ObjectInv
<1>5. LookupInv
  <2>1. 0 = query * DMax /\ 0 .. query - 1 = {}
    BY <1>1, OptionsType
  <2> QED BY <1>1, <2>1 DEF LookupInv
<1> QED BY <1>2, <1>3, <1>4, <1>5 DEF LseInv

-----------------------------------------------------------------------------
(* The steps of setup.                                                     *)

\* What the setup loop has done before its next keyword.
LEMMA AtSetup ==
  ASSUME LseInv, stage = "setup", item < KeywordCount
  PROVE  /\ item \in Nat /\ item \in Keywords
         /\ tokens = 0 .. item - 1
         /\ tokens \cup {item} = 0 .. item
         /\ item \notin tokens
         /\ DOMAIN encrypted_data = tokens
         /\ dummies = {}
         /\ result = "none"
         /\ \A S \in SUBSET (tokens \cup {item}) : Cardinality(S) <= BinCount
<1>1. /\ item \in Nat
      /\ tokens = 0 .. item - 1
      /\ DOMAIN encrypted_data = tokens
      /\ dummies = {}
      /\ result = "none"
  BY DEF LseInv, TypeOK, ObjectInv, LookupInv
<1>2. tokens \cup {item} = 0 .. item /\ item \notin tokens /\ item \in Keywords
  BY <1>1, OptionsType DEF Keywords
<1>3. tokens \cup {item} \subseteq Keywords
  BY <1>1, <1>2, OptionsType DEF Keywords
<1>4. ASSUME NEW S \in SUBSET (tokens \cup {item})
      PROVE  Cardinality(S) <= BinCount
  <2>1. S \in SUBSET Keywords
    BY <1>3
  <2>2. Cardinality(S) \in Nat /\ Cardinality(S) <= KeywordCount
    BY <2>1, KeywordsCounted, FS_Subset, FS_CardinalityType
  <2> QED BY <2>2, OptionsType
<1> QED BY <1>1, <1>2, <1>4

\* A keyword's token and labels go in.
LEMMA InsertKeywordStep ==
  ASSUME LseInv, InsertKeyword
  PROVE  LseInv'
<1> USE DEF LseInv
<1>1. /\ stage = "setup" /\ stage' = "setup"
      /\ item < KeywordCount
      /\ encrypted_data' = Emplace(item, Labels(item))
      /\ tokens' = tokens \cup {item}
      /\ inserted' = "stored"
      /\ item' = item + 1
      /\ UNCHANGED <<filled, dummies, consumed, query, totals, result>>
  BY DEF InsertKeyword, Index!Store
<1>2. /\ item \in Nat /\ item \in Keywords
      /\ tokens' = 0 .. item
      /\ item \notin tokens
      /\ DOMAIN encrypted_data = tokens
      /\ dummies = {}
      /\ result = "none"
      /\ Cardinality(tokens') <= BinCount
  BY <1>1, AtSetup
<1>3. /\ DOMAIN encrypted_data' = tokens'
      /\ \A u \in tokens : encrypted_data'[u] = encrypted_data[u]
      /\ encrypted_data'[item] = Labels(item)
  <2>1. /\ DOMAIN Emplace(item, Labels(item)) = DOMAIN encrypted_data \cup {item}
        /\ \A u \in DOMAIN encrypted_data :
             Emplace(item, Labels(item))[u] = encrypted_data[u]
        /\ item \notin DOMAIN encrypted_data =>
             Emplace(item, Labels(item))[item] = Labels(item)
    BY Emplaced
  <2> QED BY ONLY <1>1, <1>2, <2>1
<1>4. item' \in 0 .. KeywordCount /\ tokens' = 0 .. item' - 1
  BY <1>1, <1>2, OptionsType
<1>5. TypeOK'
  <2>1. tokens' \subseteq Keywords \cup Randoms
    BY <1>1, <1>2 DEF TypeOK
  <2>2. Cardinality(tokens' \cup dummies') <= BinCount
    <3>1. tokens' \cup dummies' = tokens'
      BY <1>1, <1>2
    <3> QED BY <1>2, <3>1
  <2> QED BY <1>1, <1>3, <1>4, <2>1, <2>2 DEF TypeOK
<1>6. LabelsInv'
  BY <1>1, <1>2, <1>3 DEF LabelsInv
<1>7. ObjectInv'
  BY <1>1, <1>2, <1>3, <1>4 DEF ObjectInv
<1>8. LookupInv'
  BY <1>1 DEF LookupInv
<1> QED BY <1>5, <1>6, <1>7, <1>8

\* A token is lost, and the run ends.
LEMMA InsertFailsStep ==
  ASSUME LseInv, InsertFails
  PROVE  LseInv'
<1> USE DEF LseInv
<1>1. /\ stage = "setup" /\ stage' = "end"
      /\ item < KeywordCount
      /\ encrypted_data' = Emplace(item, Labels(item))
      /\ tokens' \subseteq tokens \cup {item}
      /\ inserted' = "failed"
      /\ result' = "insertion failed"
      /\ UNCHANGED <<item, filled, dummies, consumed, query, totals>>
  BY DEF InsertFails, Index!Lose, End
<1>2. /\ item \in Keywords
      /\ item \notin tokens
      /\ DOMAIN encrypted_data = tokens
      /\ dummies = {}
      /\ Cardinality(tokens') <= BinCount
  BY <1>1, AtSetup
<1>3. /\ DOMAIN encrypted_data' = tokens \cup {item}
      /\ \A u \in tokens : encrypted_data'[u] = encrypted_data[u]
      /\ encrypted_data'[item] = Labels(item)
  <2>1. /\ DOMAIN Emplace(item, Labels(item)) = DOMAIN encrypted_data \cup {item}
        /\ \A u \in DOMAIN encrypted_data :
             Emplace(item, Labels(item))[u] = encrypted_data[u]
        /\ item \notin DOMAIN encrypted_data =>
             Emplace(item, Labels(item))[item] = Labels(item)
    BY Emplaced
  <2> QED BY ONLY <1>1, <1>2, <2>1
<1>4. TypeOK'
  <2>1. /\ tokens' \subseteq Keywords \cup Randoms
        /\ DOMAIN encrypted_data' \subseteq Keywords \cup Randoms
    BY <1>1, <1>2, <1>3 DEF TypeOK
  <2>2. Cardinality(tokens' \cup dummies') <= BinCount
    <3>1. tokens' \cup dummies' = tokens'
      BY <1>1, <1>2
    <3> QED BY <1>2, <3>1
  <2> QED BY <1>1, <2>1, <2>2 DEF TypeOK, Results
<1>5. LabelsInv'
  BY <1>1, <1>2, <1>3 DEF LabelsInv
<1>6. ObjectInv' /\ LookupInv'
  BY <1>1 DEF ObjectInv, LookupInv
<1> QED BY <1>4, <1>5, <1>6

\* Every keyword is in.
LEMMA SetupDoneStep ==
  ASSUME LseInv, SetupDone
  PROVE  LseInv'
<1> USE DEF LseInv
<1>1. /\ stage = "setup" /\ stage' = "pad"
      /\ item = KeywordCount
      /\ UNCHANGED <<item, tokens, inserted, encrypted_data, filled, dummies,
                     consumed, query, totals, result>>
  BY DEF SetupDone
<1>2. TypeOK' /\ LabelsInv' /\ LookupInv'
  BY <1>1 DEF TypeOK, LabelsInv, LookupInv
<1>3. ObjectInv'
  BY <1>1 DEF ObjectInv, LookupInv, Keywords
<1> QED BY <1>2, <1>3

-----------------------------------------------------------------------------
(* The steps of padding and the queries.                                   *)

\* What the padding has filled, and what it still has to.
LEMMA AtPad ==
  ASSUME LseInv, stage = "pad"
  PROVE  /\ tokens = Keywords
         /\ DOMAIN encrypted_data = Keywords \cup dummies
         /\ result = "none"
         /\ IsFiniteSet(dummies) /\ dummies \subseteq Randoms
         /\ filled = Cardinality(dummies)
         /\ filled \in Nat
         /\ EmptyBins = BinCount - KeywordCount
<1>1. /\ tokens = Keywords
      /\ DOMAIN encrypted_data = Keywords \cup dummies
      /\ result = "none"
      /\ IsFiniteSet(dummies) /\ dummies \subseteq Randoms
      /\ filled = Cardinality(dummies)
  BY DEF LseInv, ObjectInv, LookupInv, LabelsInv
<1>2. filled \in Nat
  BY <1>1, FS_CardinalityType
<1>3. EmptyBins = BinCount - KeywordCount
  BY <1>1, KeywordsCounted DEF EmptyBins
<1> QED BY <1>1, <1>2, <1>3

\* A dummy is none of the keywords and none of those before.
LEMMA GenerateDummyStep ==
  ASSUME LseInv, GenerateDummy
  PROVE  LseInv'
<1> USE DEF LseInv
<1>1. /\ stage = "pad" /\ stage' = "pad"
      /\ filled < EmptyBins
      /\ filled' = filled + 1
      /\ UNCHANGED <<item, tokens, inserted, consumed, query, totals, result>>
  BY DEF GenerateDummy
<1>2. PICK t \in FreshTokens :
        /\ encrypted_data' = Emplace(t, RandomLabels(t))
        /\ dummies' = dummies \cup {t}
  BY DEF GenerateDummy
<1>3. /\ tokens = Keywords
      /\ DOMAIN encrypted_data = Keywords \cup dummies
      /\ result = "none"
      /\ IsFiniteSet(dummies) /\ dummies \subseteq Randoms
      /\ filled = Cardinality(dummies)
      /\ filled \in Nat
      /\ EmptyBins = BinCount - KeywordCount
  BY <1>1, AtPad
<1>4. t \in Randoms /\ t \notin Keywords /\ t \notin dummies
  BY <1>3 DEF FreshTokens
<1>5. /\ DOMAIN encrypted_data' = Keywords \cup dummies'
      /\ \A k \in Keywords : encrypted_data'[k] = encrypted_data[k]
  <2>1. /\ DOMAIN Emplace(t, RandomLabels(t)) = DOMAIN encrypted_data \cup {t}
        /\ \A u \in DOMAIN encrypted_data :
             Emplace(t, RandomLabels(t))[u] = encrypted_data[u]
    BY DEF Emplace
  <2>2. /\ encrypted_data' = Emplace(t, RandomLabels(t))
        /\ dummies' = dummies \cup {t}
        /\ DOMAIN encrypted_data = Keywords \cup dummies
    BY <1>2, <1>3
  <2> QED BY ONLY <2>1, <2>2
<1>6. IsFiniteSet(dummies') /\ dummies' \subseteq Randoms
      /\ filled' = Cardinality(dummies')
  BY <1>1, <1>2, <1>3, <1>4, FS_AddElement
<1>7. filled' \in 0 .. BinCount /\ KeywordCount + filled' <= BinCount
  BY <1>1, <1>3, OptionsType
<1>8. Cardinality(tokens' \cup dummies') <= BinCount
  <2>1. Cardinality(Keywords \cup dummies') = KeywordCount + filled'
    BY <1>6, KeywordsAndDummies
  <2>2. tokens' \cup dummies' = Keywords \cup dummies'
    BY <1>1, <1>3
  <2> QED BY <1>7, <2>1, <2>2
<1>9. TypeOK'
  BY <1>1, <1>5, <1>6, <1>7, <1>8 DEF TypeOK
<1>10. LabelsInv'
  BY <1>3, <1>5, <1>6 DEF LabelsInv
<1>11. ObjectInv' /\ LookupInv'
  BY <1>1, <1>3, <1>5 DEF ObjectInv, LookupInv
<1> QED BY <1>9, <1>10, <1>11

\* The dummies' tokens take the empty bins, and there are no others.
LEMMA PaddedStep ==
  ASSUME LseInv, Padded
  PROVE  LseInv'
<1> USE DEF LseInv
<1>1. /\ stage = "pad" /\ stage' = "query"
      /\ filled = EmptyBins
      /\ tokens' = tokens \cup dummies
      /\ inserted' = "filled"
      /\ UNCHANGED <<item, encrypted_data, filled, dummies, consumed, query,
                     totals, result>>
  BY DEF Padded
<1>2. /\ tokens = Keywords
      /\ DOMAIN encrypted_data = Keywords \cup dummies
      /\ result = "none"
      /\ EmptyBins = BinCount - KeywordCount
  BY <1>1, AtPad
<1>3. KeywordCount + filled = BinCount
  BY <1>1, <1>2, OptionsType
<1>4. TypeOK'
  <2>1. tokens' \cup dummies' = tokens \cup dummies /\ tokens' \subseteq Keywords \cup Randoms
    BY <1>1, <1>2 DEF TypeOK
  <2> QED BY <1>1, <2>1 DEF TypeOK
<1>5. LabelsInv' /\ LookupInv'
  BY <1>1 DEF LabelsInv, LookupInv
<1>6. ObjectInv'
  BY <1>1, <1>2, <1>3 DEF ObjectInv
<1> QED BY <1>4, <1>5, <1>6

\* When FillEmpty returns, the generator has given it what TokenSet's Fill asks
\* for: as many tokens as there were bins, none of them twice.
LEMMA PaddedFills ==
  ASSUME LseInv, Padded
  PROVE  Index!Fill
<1>1. stage = "pad" /\ filled = EmptyBins /\ tokens' = tokens \cup dummies
      /\ inserted' = "filled"
  BY DEF Padded
<1>2. /\ tokens = Keywords
      /\ dummies \subseteq Randoms /\ IsFiniteSet(dummies)
      /\ filled = Cardinality(dummies)
      /\ EmptyBins = BinCount - KeywordCount
  BY <1>1, AtPad
<1>3. Cardinality(tokens') = BinCount
  <2>1. Cardinality(Keywords \cup dummies) = KeywordCount + filled
    BY <1>2, KeywordsAndDummies
  <2>2. tokens' = Keywords \cup dummies
    BY <1>1, <1>2
  <2>3. KeywordCount + filled = BinCount
    <3>1. filled = BinCount - KeywordCount
      BY <1>1, <1>2
    <3> QED BY ONLY <3>1, OptionsType
  <2> QED BY <2>1, <2>2, <2>3
<1>4. inserted \in {"none", "stored"}
  BY <1>1 DEF LseInv, ObjectInv
<1> QED BY <1>1, <1>2, <1>3, <1>4, SameCardinality DEF Index!Fill, Index!Usable

\* A keyword that is in the index is found with its own documents.
LEMMA LookupFinds ==
  ASSUME LabelsInv, NEW k \in Keywords, k \in tokens, k \in DOMAIN encrypted_data
  PROVE  Lookup(k) = "found"
<1>1. encrypted_data[k] = Labels(k)
  BY DEF LabelsInv
<1>2. \A j \in Components :
        AesDecrypt(LseAesKey(k), encrypted_data[k][j]) = Document(k, j)
  BY <1>1 DEF AesDecrypt, Labels
<1> QED BY <1>2 DEF Lookup

\* A query succeeds and is counted.
LEMMA QueryStep ==
  ASSUME LseInv, Query
  PROVE  LseInv'
<1> USE DEF LseInv
<1>1. /\ stage = "query"
      /\ query < Queries
      /\ query \in Nat
      /\ consumed' = consumed \cup Blinds(query)
      /\ IF Lookup(query) = "found"
         THEN /\ totals' = [query_successes |-> totals.query_successes + 1,
                            decrypt_component_attempts |->
                              totals.decrypt_component_attempts + DMax]
              /\ query' = query + 1
              /\ UNCHANGED <<stage, result>>
         ELSE End(Lookup(query)) /\ UNCHANGED <<totals, query>>
      /\ UNCHANGED <<item, tokens, inserted, encrypted_data, filled, dummies>>
  <2>1. query \in Nat /\ consumed = UNION {Blinds(i) : i \in 0 .. query - 1}
    <3>1. query \in Nat
      BY OptionsType DEF TypeOK
    <3> QED BY <3>1 DEF LookupInv
  <2>2. Blinds(query) \cap consumed = {}
    <3>1. \A i \in 0 .. query - 1 : Blinds(query) \cap Blinds(i) = {}
      BY <2>1 DEF Blinds
    <3> QED BY <2>1, <3>1
  <2>3. stage = "query" /\ query < Queries /\ Answer(query)
        /\ UNCHANGED <<item, tokens, inserted, encrypted_data, filled, dummies>>
    BY <2>2 DEF Query
  <2> QED BY <2>1, <2>3 DEF Answer
<1>2. query \in Nat /\ query \in Keywords
  BY <1>1, OptionsType DEF TypeOK, Keywords
<1>3. query \in tokens /\ query \in DOMAIN encrypted_data
  BY <1>1, <1>2 DEF ObjectInv
<1>4. /\ totals' = [query_successes |-> totals.query_successes + 1,
                    decrypt_component_attempts |->
                      totals.decrypt_component_attempts + DMax]
      /\ query' = query + 1
      /\ UNCHANGED <<stage, result>>
  BY <1>1, <1>2, <1>3, LookupFinds
<1>5. totals' = [query_successes |-> query',
                 decrypt_component_attempts |-> query' * DMax]
  <2>1. query * DMax + DMax = (query + 1) * DMax
    BY <1>2, OptionsType
  <2>2. /\ totals.query_successes = query
        /\ totals.decrypt_component_attempts = query * DMax
    BY DEF LookupInv
  <2> QED BY <1>4, <2>1, <2>2
<1>6. consumed' = UNION {Blinds(i) : i \in 0 .. query' - 1}
  <2>1. 0 .. query' - 1 = 0 .. query - 1 \cup {query}
    BY <1>2, <1>4
  <2>2. consumed = UNION {Blinds(i) : i \in 0 .. query - 1}
    BY DEF LookupInv
  <2> QED BY <1>1, <2>1, <2>2
<1>7. LookupInv'
  BY <1>1, <1>4, <1>5, <1>6 DEF LookupInv
<1>8. TypeOK'
  <2>1. query' \in 0 .. Queries /\ query' \in Nat
    BY <1>1, <1>2, <1>4, OptionsType
  <2>2. query' * DMax \in 0 .. Queries * DMax
    <3> DEFINE q == query'
    <3> HIDE DEF q
    <3>1. q \in Nat /\ q <= Queries
      BY <2>1, OptionsType DEF q
    <3>2. q * DMax \in Nat /\ Queries * DMax \in Nat /\ q * DMax <= Queries * DMax
      BY ONLY <3>1, OptionsType
    <3> QED BY <3>2 DEF q
  <2>3. /\ totals'.query_successes \in 0 .. Queries
        /\ totals'.decrypt_component_attempts \in 0 .. Queries * DMax
    BY <1>5, <2>1, <2>2
  <2>4. consumed' \subseteq UNION {Blinds(i) : i \in 0 .. Queries - 1}
    <3>1. query \in 0 .. Queries - 1
      BY <1>1, <1>2, OptionsType
    <3> QED BY <1>1, <3>1 DEF TypeOK
  <2> QED BY <1>1, <1>4, <2>1, <2>3, <2>4 DEF TypeOK
<1>9. LabelsInv' /\ ObjectInv'
  BY <1>1, <1>4 DEF LabelsInv, ObjectInv
<1> QED BY <1>7, <1>8, <1>9

\* The row is written.
LEMMA FinishStep ==
  ASSUME LseInv, Finish
  PROVE  LseInv'
<1> USE DEF LseInv
<1>1. /\ stage = "query" /\ stage' = "end" /\ result' = "row"
      /\ UNCHANGED <<item, tokens, inserted, encrypted_data, filled, dummies,
                     consumed, query, totals>>
  BY DEF Finish, End
<1>2. TypeOK' /\ LabelsInv' /\ ObjectInv' /\ LookupInv'
  BY <1>1 DEF TypeOK, Results, LabelsInv, ObjectInv, LookupInv
<1> QED BY <1>2

-----------------------------------------------------------------------------
(* The theorems.                                                           *)

\* Every step of the run keeps the invariant.
LEMMA LseStep == LseInv /\ [Next]_vars => LseInv'
<1> SUFFICES ASSUME LseInv, [Next]_vars PROVE LseInv'
  OBVIOUS
<1>1. CASE InsertKeyword
  BY <1>1, InsertKeywordStep
<1>2. CASE InsertFails
  BY <1>2, InsertFailsStep
<1>3. CASE SetupDone
  BY <1>3, SetupDoneStep
<1>4. CASE GenerateDummy
  BY <1>4, GenerateDummyStep
<1>5. CASE Padded
  BY <1>5, PaddedStep
<1>6. CASE Query
  BY <1>6, QueryStep
<1>7. CASE Finish
  BY <1>7, FinishStep
<1>8. CASE UNCHANGED vars
  BY <1>8 DEF vars, LseInv, TypeOK, LabelsInv, ObjectInv, LookupInv
<1> QED BY <1>1, <1>2, <1>3, <1>4, <1>5, <1>6, <1>7, <1>8 DEF Next

\* The invariant holds throughout every run.
THEOREM LseInvariant == Spec => []LseInv
BY LseInit, LseStep, PTL DEF Spec

\* Every variable has its type, and every token that is in the table or
\* waits to be padded in has a bin.
THEOREM LseTypes == Spec => []TypeOK
<1>1. LseInv => TypeOK
  BY DEF LseInv
<1> QED BY <1>1, LseInvariant, PTL

\* No query fails, whatever the table has lost: a run that has lost a token
\* does not query.
THEOREM EveryLookupSucceeds == Spec => []LookupsSucceed
<1>1. LseInv => LookupsSucceed
  BY DEF LseInv, LookupInv, LookupsSucceed
<1> QED BY <1>1, LseInvariant, PTL

\* The object that is queried has a token in every bin and labels for
\* exactly those, and the counts of the row are those of its queries.
THEOREM ObjectIsComplete == Spec => []ObjectComplete
<1>1. LseInv => ObjectComplete
  <2> SUFFICES ASSUME LseInv, stage = "query" \/ result = "row"
               PROVE  ObjectComplete
    BY DEF ObjectComplete
  <2>1. /\ tokens = Keywords \cup dummies
        /\ DOMAIN encrypted_data = tokens
        /\ KeywordCount + filled = BinCount
        /\ filled = Cardinality(dummies)
        /\ dummies \subseteq Randoms /\ IsFiniteSet(dummies)
    BY DEF LseInv, LabelsInv, ObjectInv
  <2>2. Cardinality(tokens) = BinCount
    BY <2>1, KeywordsAndDummies
  <2> QED BY <2>1, <2>2 DEF ObjectComplete, LseInv, LookupInv
<1> QED BY <1>1, LseInvariant, PTL
=============================================================================
