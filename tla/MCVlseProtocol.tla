--------------------------- MODULE MCVlseProtocol ---------------------------
(***************************************************************************)
(* VlseProtocol for TLC.  The capacity is what FilterLayout's              *)
(* InitializeLayout gives fewer than 256 buckets at the target load of     *)
(* 0.95: four slots in each of a power of two of buckets.                  *)
(***************************************************************************)
EXTENDS VlseProtocol, FiniteSetsExt

MCCapacity(items) ==
  4 * Min({n \in {1, 2, 4, 8} : 95 * 4 * n >= 100 * items})
=============================================================================
