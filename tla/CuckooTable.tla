----------------------------- MODULE CuckooTable ----------------------------
(***************************************************************************)
(* CuckooTable, the index of the LSE baseline                              *)
(* (src/benchmarks/lse_protocol_benchmark.cpp): bins of one token each,    *)
(* three positions per token.  Insert walks: where none of the three bins  *)
(* is free it swaps its token for that of one of them and goes on with     *)
(* that, a bounded number of times.  Unlike VacuumFilter it undoes nothing *)
(* when it gives up; its caller inserts nothing afterwards.                *)
(***************************************************************************)
EXTENDS Integers, FiniteSets

CONSTANTS
  Keys,             \* the tokens of the keywords
  Randoms,          \* the other tokens the generator may draw
  BinCount,         \* bins_.size()
  MaxRelocations,   \* 1500
  Position,         \* of a token: its positions by number of the hash
  Vacant            \* no token: occupied_ is false

Bins == 0 .. BinCount - 1
Hashes == 0 .. 2
Tokens == Keys \cup Randoms

ASSUME TableAssumption ==
  /\ IsFiniteSet(Tokens)
  /\ BinCount \in Nat \ {0}
  /\ Cardinality(Keys) <= BinCount
  /\ Cardinality(Randoms \ Keys) >= BinCount - Cardinality(Keys)
  /\ MaxRelocations \in Nat \ {0}
  /\ Position \in [Tokens -> [Hashes -> Bins]]
  /\ Vacant \notin Tokens

VARIABLES
  bins_,         \* bin -> the token in it, or Vacant
  statistics_,
  pc,            \* "idle", "walk" in Insert or "fill" in FillEmpty
  incoming,      \* the token Insert was called with
  token,         \* the token the walk has in hand
  relocation,    \* the walk's loop variable
  bin,           \* FillEmpty's loop variable
  outcome        \* how the last call ended

vars == <<bins_, statistics_, pc, incoming, token, relocation, bin, outcome>>

Stored == {bins_[b] : b \in Bins} \ {Vacant}
PositionsOf(t) == {Position[t][h] : h \in Hashes}

\* Mutant: only the first two positions are looked at.
FindInTwo(t) == {b \in {Position[t][0], Position[t][1]} : bins_[b] = t}

\* Find: the bins of the token that hold it; the empty set is nullptr.
Find(t) == {b \in PositionsOf(t) : bins_[b] = t}

-----------------------------------------------------------------------------

Init ==
  /\ bins_ = [b \in Bins |-> Vacant]
  /\ statistics_ = [successful_inserts |-> 0, failed_inserts |-> 0,
                    relocation_steps |-> 0, maximum_relocation_chain |-> 0]
  /\ pc = "idle"
  /\ incoming = Vacant
  /\ token = Vacant
  /\ relocation = 0
  /\ bin = 0
  /\ outcome = "none"

Return(result) ==
  /\ pc' = "idle"
  /\ incoming' = Vacant
  /\ token' = Vacant
  /\ relocation' = 0
  /\ bin' = 0
  /\ outcome' = result

Larger(m, n) == IF m >= n THEN m ELSE n

Count(successes, failures, steps) ==
  statistics_' = [successful_inserts |-> statistics_.successful_inserts + successes,
                  failed_inserts |-> statistics_.failed_inserts + failures,
                  relocation_steps |-> statistics_.relocation_steps + steps,
                  maximum_relocation_chain |->
                    Larger(statistics_.maximum_relocation_chain, steps)]

Usable == pc = "idle" /\ outcome \in {"none", "stored"}

InsertBegin(k) ==
  /\ Usable
  /\ k \notin Stored
  /\ pc' = "walk"
  /\ incoming' = k
  /\ token' = k
  /\ UNCHANGED <<bins_, statistics_, relocation, bin, outcome>>

\* Mutant: one turn too many.
InWalkOneMore == pc = "walk" /\ relocation <= MaxRelocations

InWalk == pc = "walk" /\ relocation < MaxRelocations

\* The hash of the first free position, if there is one.
FreeHashes == {h \in Hashes : bins_[Position[token][h]] = Vacant}

\* Mutant: the free bin gets the token the call began with.
InsertPlacesIncoming ==
  /\ InWalk
  /\ \E h \in FreeHashes :
       /\ \A g \in FreeHashes : h <= g
       /\ bins_' = [bins_ EXCEPT ![Position[token][h]] = incoming]
  /\ Count(1, 0, relocation)
  /\ Return("stored")

InsertPlaces ==
  /\ InWalk
  /\ \E h \in FreeHashes :
       /\ \A g \in FreeHashes : h <= g
       /\ bins_' = [bins_ EXCEPT ![Position[token][h]] = token]
  /\ Count(1, 0, relocation)
  /\ Return("stored")

\* Mutant: the walk does not count its turns.
InsertSwapsForever ==
  /\ InWalk
  /\ FreeHashes = {}
  /\ \E h \in Hashes :
       /\ token' = bins_[Position[token][h]]
       /\ bins_' = [bins_ EXCEPT ![Position[token][h]] = token]
  /\ UNCHANGED <<statistics_, pc, incoming, relocation, bin, outcome>>

\* All are taken: the token changes places with that of a random one.
InsertSwaps ==
  /\ InWalk
  /\ FreeHashes = {}
  /\ \E h \in Hashes :
       /\ token' = bins_[Position[token][h]]
       /\ bins_' = [bins_ EXCEPT ![Position[token][h]] = token]
  /\ relocation' = relocation + 1
  /\ UNCHANGED <<statistics_, pc, incoming, bin, outcome>>

\* Mutant: a walk that failed is not counted at its length.
InsertFailsUncounted ==
  /\ pc = "walk"
  /\ relocation = MaxRelocations
  /\ Count(0, 1, 0)
  /\ Return("failed")
  /\ UNCHANGED bins_

InsertFails ==
  /\ pc = "walk"
  /\ relocation = MaxRelocations
  /\ Count(0, 1, MaxRelocations)
  /\ Return("failed")
  /\ UNCHANGED bins_

\* The keywords are all inserted before the padding begins.
FillBegin ==
  /\ Usable
  /\ Keys \subseteq Stored
  /\ pc' = "fill"
  /\ UNCHANGED <<bins_, statistics_, incoming, token, relocation, bin, outcome>>

InFill == pc = "fill" /\ bin < BinCount

FillSkips ==
  /\ InFill
  /\ bins_[bin] # Vacant
  /\ bin' = bin + 1
  /\ UNCHANGED <<bins_, statistics_, pc, incoming, token, relocation, outcome>>

\* What the generator's loop lets pass: tokens that encrypted_data, which
\* holds all those in the table, does not know.
FreshTokens == Tokens \ Stored

FillBin ==
  /\ InFill
  /\ bins_[bin] = Vacant
  /\ \E t \in FreshTokens : bins_' = [bins_ EXCEPT ![bin] = t]
  /\ bin' = bin + 1
  /\ UNCHANGED <<statistics_, pc, incoming, token, relocation, outcome>>

FillReturns ==
  /\ pc = "fill"
  /\ bin = BinCount
  /\ Return("filled")
  /\ UNCHANGED <<bins_, statistics_>>

Continue ==
  \/ InsertPlaces
  \/ InsertSwaps
  \/ InsertFails
  \/ FillSkips
  \/ FillBin
  \/ FillReturns

Next ==
  \/ \E k \in Keys : InsertBegin(k)
  \/ FillBegin
  \/ Continue

Spec == Init /\ [][Next]_vars /\ WF_vars(Continue)

-----------------------------------------------------------------------------

Statistics ==
  [successful_inserts : 0 .. Cardinality(Keys), failed_inserts : 0 .. 1,
   relocation_steps : Nat, maximum_relocation_chain : 0 .. MaxRelocations]

\* Every variable has its type; dummies are never carried by a walk.
TypeOK ==
  /\ bins_ \in [Bins -> Tokens \cup {Vacant}]
  /\ statistics_ \in Statistics
  /\ pc \in {"idle", "walk", "fill"}
  /\ incoming \in Keys \cup {Vacant}
  /\ token \in Keys \cup {Vacant}
  /\ relocation \in 0 .. MaxRelocations
  /\ bin \in 0 .. BinCount
  /\ outcome \in {"none", "stored", "failed", "filled"}

\* However a walk has moved them, and whatever pads the bins around them,
\* Find finds every token of a keyword that is in the table, and in one bin.
FindExact ==
  \A k \in Keys :
    /\ k \in Stored => Find(k) # {}
    /\ Cardinality({b \in Bins : bins_[b] = k}) <= 1

\* One bin per successful insert: a walk that failed has put its token in and
\* lost another, so that the number of tokens tells nothing of the failure;
\* the counters do.
CountersAgree ==
  LET s == statistics_
  IN /\ pc \in {"idle", "walk"} /\ outcome # "filled" =>
          Cardinality({b \in Bins : bins_[b] # Vacant}) = s.successful_inserts
     /\ s.failed_inserts = 1 <=> outcome = "failed"
     /\ outcome = "failed" => s.maximum_relocation_chain = MaxRelocations
     /\ s.relocation_steps <= s.maximum_relocation_chain
                               * (s.successful_inserts + s.failed_inserts)

\* Callers see a set of tokens.  In a walk the table and the token in hand
\* are what the table was and the token that came in; the tokens of a padding
\* count when it is done.
Set == INSTANCE TokenSet WITH
  Genuine <- Keys, Random <- Tokens, Size <- BinCount,
  tokens <- IF pc = "walk" THEN (Stored \cup {token}) \ {incoming}
            ELSE IF pc = "fill" THEN Stored \cap Keys
            ELSE Stored

ImplementsTokenSet == Set!Spec

\* Every call returns: a walk gives up after its last turn.
CallReturns == (pc # "idle") ~> (pc = "idle")
=============================================================================
