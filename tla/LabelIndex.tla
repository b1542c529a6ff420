----------------------------- MODULE LabelIndex -----------------------------
(***************************************************************************)
(* What PairedVacuumFilter (paired_vacuum_filter.h) promises its callers,  *)
(* with no buckets, no eviction chain and no journal: a set of records     *)
(* that Insert extends by exactly one record or leaves exactly as it was,  *)
(* until FillEmptySlots pads it to its capacity and seals it for good.     *)
(* VacuumFilter is shown to implement this module.                         *)
(***************************************************************************)
EXTENDS Naturals, FiniteSets

CONSTANTS
  Genuine,   \* the records callers may insert
  Dummies,   \* the records padding may add
  Size       \* the number of slots of the index: capacity()

VARIABLES
  labels,    \* the records in the index
  sealed,    \* padded(): no record enters any more
  outcome    \* what the last call told its caller

vars == <<labels, sealed, outcome>>

Init ==
  /\ labels = {}
  /\ sealed = FALSE
  /\ outcome = "none"

\* Insert returns true: there was a free slot, and the record, and nothing
\* else, has been added.
Store(r) ==
  /\ ~sealed
  /\ r \notin labels
  /\ Cardinality(labels) < Size
  /\ labels' = labels \cup {r}
  /\ outcome' = "stored"
  /\ UNCHANGED sealed

\* Insert returns false: the caller sees the index it had before.
Refuse ==
  /\ ~sealed
  /\ outcome' = "refused"
  /\ UNCHANGED <<labels, sealed>>

\* FillEmptySlots returns: every slot holds a record, the new ones dummies.
Seal ==
  /\ ~sealed
  /\ labels \subseteq labels'
  /\ labels' \ labels \subseteq Dummies
  /\ Cardinality(labels') = Size
  /\ sealed' = TRUE
  /\ outcome' = "padded"

\* FillEmptySlots throws: nothing was added and genuine inserts may go on.
Abort ==
  /\ ~sealed
  /\ outcome' = "threw"
  /\ UNCHANGED <<labels, sealed>>

Next ==
  \/ \E r \in Genuine : Store(r)
  \/ Refuse
  \/ Seal
  \/ Abort

Spec == Init /\ [][Next]_vars
=============================================================================
