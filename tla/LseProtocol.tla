----------------------------- MODULE LseProtocol ----------------------------
(***************************************************************************)
(* One run of lse_protocol_benchmark (Run): the tokens of the keywords go  *)
(* into the index and their labels into encrypted_data, both are padded    *)
(* with random ones, and the client finds its token and decrypts what is   *)
(* stored under it.  Labels are not authenticated here: a key decrypts     *)
(* another key's label to something else, and the run compares.            *)
(*                                                                         *)
(* The index is TokenSet, which CuckooTable implements.                    *)
(***************************************************************************)
EXTENDS Integers, FiniteSets

CONSTANTS
  KeywordCount,   \* options.keywords
  Queries,        \* options.queries
  DMax,           \* options.dmax
  Randoms         \* what RandomToken may draw besides the keywords' tokens

ASSUME OptionAssumption ==
  /\ KeywordCount \in Nat \ {0}
  /\ Queries \in 1 .. KeywordCount
  /\ DMax \in Nat \ {0}

\* The OPRF's output for a keyword is its token: the keyword stands for it.
Keywords == 0 .. KeywordCount - 1

BinCount == (KeywordCount * 3 + 1) \div 2

ASSUME RandomAssumption ==
  /\ Randoms \cap Keywords = {}
  /\ IsFiniteSet(Randoms) /\ Cardinality(Randoms) >= BinCount - KeywordCount

VARIABLES
  stage,            \* "setup", "pad", "query" or "end"
  item,             \* the loop variable of the setup
  tokens,           \* the tokens in the index
  inserted,         \* what the last call of the index returned
  encrypted_data,   \* token -> its labels
  filled,           \* the bins the padding has filled: filled of FillEmpty
  dummies,          \* the tokens it has filled them with
  consumed,         \* the blinds used, of the token pool and the key pool
  query,            \* the loop variable of the queries
  totals,           \* over the queries: successes, component attempts
  result            \* "none", "row", or why the run threw

vars == <<stage, item, tokens, inserted, encrypted_data, filled, dummies,
          consumed, query, totals, result>>

Index == INSTANCE TokenSet WITH
  Genuine <- Keywords, Random <- Keywords \cup Randoms, Size <- BinCount,
  outcome <- inserted

Components == 0 .. DMax - 1
Document(k, j) == k * DMax + j + 1

\* A key is cut from the output of an OPRF of its own.
LseAesKey(k) == <<"key", k>>

\* AesEncrypt of the documents of keyword k, and random blocks for a dummy.
Labels(k) ==
  [j \in Components |-> [key |-> LseAesKey(k), document |-> Document(k, j)]]
RandomLabels(t) == [j \in Components |-> [key |-> <<"random", t>>, document |-> 0]]

\* AesDecrypt under another key gives some other document, here 0.
AesDecrypt(key, label) == IF label.key = key THEN label.document ELSE 0

\* emplace keeps the labels that are there.
Emplace(t, labels) ==
  [u \in DOMAIN encrypted_data \cup {t} |->
     IF u \in DOMAIN encrypted_data THEN encrypted_data[u] ELSE labels]

-----------------------------------------------------------------------------

Init ==
  /\ stage = "setup"
  /\ item = 0
  /\ Index!Init
  /\ encrypted_data = [t \in {} |-> 0]
  /\ filled = 0
  /\ dummies = {}
  /\ consumed = {}
  /\ query = 0
  /\ totals = [query_successes |-> 0, decrypt_component_attempts |-> 0]
  /\ result = "none"

End(why) ==
  /\ stage' = "end"
  /\ result' = why

InsertKeyword ==
  /\ stage = "setup"
  /\ item < KeywordCount
  /\ encrypted_data' = Emplace(item, Labels(item))
  /\ Index!Store(item)
  /\ item' = item + 1
  /\ UNCHANGED <<stage, filled, dummies, consumed, query, totals, result>>

\* Mutant: what Insert returns is not looked at.
InsertFailsIgnored ==
  /\ stage = "setup"
  /\ item < KeywordCount
  /\ encrypted_data' = Emplace(item, Labels(item))
  /\ \E lost \in tokens \cup {item} : tokens' = (tokens \cup {item}) \ {lost}
  /\ item' = item + 1
  /\ UNCHANGED <<stage, inserted, filled, dummies, consumed, query, totals,
                 result>>

\* The walk needs three occupied bins to fail, or fewer that coincide.
InsertFails ==
  /\ stage = "setup"
  /\ item < KeywordCount
  /\ tokens # {}
  /\ encrypted_data' = Emplace(item, Labels(item))
  /\ Index!Lose(item)
  /\ End("insertion failed")
  /\ UNCHANGED <<item, filled, dummies, consumed, query, totals>>

SetupDone ==
  /\ stage = "setup"
  /\ item = KeywordCount
  /\ stage' = "pad"
  /\ UNCHANGED <<item, tokens, inserted, encrypted_data, filled, dummies,
                 consumed, query, totals, result>>

\* Mutant: one bin too many is padded.
EmptyBinsTooMany == BinCount + 1 - Cardinality(tokens)

EmptyBins == BinCount - Cardinality(tokens)

\* Mutant: the first token drawn is taken.
FreshTokensAny == Keywords \cup Randoms

\* The generator draws until encrypted_data does not know the token; a draw
\* that is thrown away changes nothing and is no step.
FreshTokens == (Keywords \cup Randoms) \ DOMAIN encrypted_data

\* Mutant: the token is emplaced before it is looked up, so that encrypted_data
\* knows every token that is drawn.
GenerateDummyEmplacing ==
  /\ stage = "pad"
  /\ filled < EmptyBins
  /\ \E t \in Keywords \cup Randoms :
       encrypted_data' = Emplace(t, RandomLabels(t))
  /\ UNCHANGED <<stage, item, tokens, inserted, filled, dummies, consumed,
                 query, totals, result>>

\* The next empty bin gets a token of the generator, whatever that is.
GenerateDummy ==
  /\ stage = "pad"
  /\ filled < EmptyBins
  /\ filled' = filled + 1
  /\ \E t \in FreshTokens :
       /\ encrypted_data' = Emplace(t, RandomLabels(t))
       /\ dummies' = dummies \cup {t}
  /\ UNCHANGED <<stage, item, tokens, inserted, consumed, query, totals, result>>

\* FillEmpty returns.  It does not look at the tokens it was given; that this
\* is a Fill of the index (PaddedFills) is up to the generator.
Padded ==
  /\ stage = "pad"
  /\ filled = EmptyBins
  /\ tokens' = tokens \cup dummies
  /\ inserted' = "filled"
  /\ stage' = "query"
  /\ UNCHANGED <<item, encrypted_data, filled, dummies, consumed, query,
                 totals, result>>

\* Find, the lookup of the payload and the comparison of what it decrypts to.
Lookup(k) ==
  CASE k \notin tokens -> "lookup failed"
    [] k \in tokens \ DOMAIN encrypted_data -> "payload failed"
    [] k \in tokens \cap DOMAIN encrypted_data ->
         IF \A j \in Components : AesDecrypt(LseAesKey(k), encrypted_data[k][j])
                                    = Document(k, j)
         THEN "found" ELSE "mismatch"

Blinds(i) == {<<"token", i>>, <<"key", i>>}

\* The blinds are spent and the keyword is looked up.
Answer(i) ==
  /\ consumed' = consumed \cup Blinds(i)
  /\ IF Lookup(i) = "found"
     THEN /\ totals' = [query_successes |-> totals.query_successes + 1,
                        decrypt_component_attempts |->
                          totals.decrypt_component_attempts + DMax]
          /\ query' = i + 1
          /\ UNCHANGED <<stage, result>>
     ELSE End(Lookup(i)) /\ UNCHANGED <<totals, query>>

\* One query: token and key are evaluated, each with a blind of its own pool;
\* EvaluatePrepared throws where the blind has served before.
Query ==
  /\ stage = "query"
  /\ query < Queries
  /\ IF Blinds(query) \cap consumed # {}
     THEN End("blind reused") /\ UNCHANGED <<consumed, totals, query>>
     ELSE Answer(query)
  /\ UNCHANGED <<item, tokens, inserted, encrypted_data, filled, dummies>>

Finish ==
  /\ stage = "query"
  /\ query = Queries
  /\ End("row")
  /\ UNCHANGED <<item, tokens, inserted, encrypted_data, filled, dummies,
                 consumed, query, totals>>

Next ==
  \/ InsertKeyword
  \/ InsertFails
  \/ SetupDone
  \/ GenerateDummy
  \/ Padded
  \/ Query
  \/ Finish

\* The run goes on until it ends: nothing in it waits, and RandomToken does not
\* draw known tokens for ever.
Spec == Init /\ [][Next]_vars /\ WF_vars(Next)

-----------------------------------------------------------------------------

Results == {"none", "row", "insertion failed", "lookup failed",
            "payload failed", "mismatch", "blind reused"}

\* Every variable has its type, and the table has a bin for every token that
\* is in it or waits for the padding to end.
TypeOK ==
  /\ stage \in {"setup", "pad", "query", "end"}
  /\ item \in 0 .. KeywordCount
  /\ tokens \subseteq Keywords \cup Randoms
  /\ Cardinality(tokens \cup dummies) <= BinCount
  /\ inserted \in {"none", "stored", "failed", "filled"}
  /\ DOMAIN encrypted_data \subseteq Keywords \cup Randoms
  /\ filled \in 0 .. BinCount
  /\ dummies \subseteq Keywords \cup Randoms
  /\ consumed \subseteq UNION {Blinds(i) : i \in 0 .. Queries - 1}
  /\ query \in 0 .. Queries
  /\ totals.query_successes \in 0 .. Queries
  /\ totals.decrypt_component_attempts \in 0 .. Queries * DMax
  /\ result \in Results

\* An insertion that fails has lost a token the index had taken, and undoes
\* nothing; that the run ends there is what keeps every later query right:
\* none fails, whatever was evicted on the way (lines 293-296 and 328-342).
LookupsSucceed == result \in {"none", "row", "insertion failed"}

\* The object a client downloads is whole: a token of its own in every bin,
\* also in those whose token the generator made up, and labels for exactly
\* those, which is what its size is computed from (line 365); and the counts
\* of its row are those validate_row asks for.
ObjectComplete ==
  stage = "query" \/ result = "row" =>
    /\ Cardinality(tokens) = BinCount
    /\ DOMAIN encrypted_data = tokens
    /\ KeywordCount + filled = BinCount
    /\ totals = [query_successes |-> query,
                 decrypt_component_attempts |-> query * DMax]

\* Every run ends, with its row or with what it throws: also the generator's
\* loop, which goes by the map it adds to.
Ends == <>(stage = "end")
=============================================================================
