------------------------------ MODULE TokenSet ------------------------------
(***************************************************************************)
(* What CuckooTable (lse_protocol_benchmark.cpp) promises its caller: a    *)
(* set of tokens that Insert extends by its token, or from which a failed  *)
(* Insert has lost one, not necessarily its own; the caller stops then.    *)
(* FillEmpty completes it with tokens of the generator.                    *)
(* CuckooTable is shown to implement this module.                          *)
(***************************************************************************)
EXTENDS Naturals, FiniteSets

CONSTANTS
  Genuine,   \* the tokens of the keywords
  Random,    \* the tokens the generator may draw
  Size       \* the number of bins: capacity()

VARIABLES
  tokens,    \* the tokens Find finds, and those that pad
  outcome    \* what the last call told its caller

vars == <<tokens, outcome>>

Init ==
  /\ tokens = {}
  /\ outcome = "none"

Usable == outcome \in {"none", "stored"}

\* Insert returns true.
Store(t) ==
  /\ Usable
  /\ t \notin tokens
  /\ tokens' = tokens \cup {t}
  /\ outcome' = "stored"

\* Insert returns false: nothing is undone, one token has no bin.
Lose(t) ==
  /\ Usable
  /\ t \notin tokens
  /\ \E lost \in tokens \cup {t} : tokens' = (tokens \cup {t}) \ {lost}
  /\ outcome' = "failed"

\* FillEmpty returns the number of bins that were empty.
Fill ==
  /\ Usable
  /\ tokens \subseteq tokens'
  /\ tokens' \ tokens \subseteq Random
  /\ Cardinality(tokens') = Size
  /\ outcome' = "filled"

Next ==
  \/ \E t \in Genuine : Store(t) \/ Lose(t)
  \/ Fill

Spec == Init /\ [][Next]_vars
=============================================================================
