--------------------------- MODULE MCVacuumFilter ---------------------------
(***************************************************************************)
(* VacuumFilter on tables small enough for TLC.  The alternate bucket is   *)
(* the code's own for fewer than 256 buckets (lines 447-453 and 493-500):  *)
(* all four masks are BucketCount - 1, and the hash of the fingerprint is  *)
(* its product with 0x5bd1e995, of which only the low bits matter here.    *)
(***************************************************************************)
EXTENDS VacuumFilter, Bitwise, TLC

CONSTANTS a1, a2, a3, a4, a5, b1, b2, b3, b4, b5, c1, d1, d2, e1, e2

HashFactor == 1540483477

MCAlternate(b, f) == b ^^ ((f * (HashFactor % BucketCount)) % BucketCount)

\* Buckets 0-3.  Keys of one letter have the same metadata: they stand for
\* labels of one keyword, or for a collision.  With a key's candidates:
\* a: {0, 1}, b: {0, 2}, c: {1}, d: {1, 2}, e: {2, 3}.
MCFingerprint ==
  [k \in Keys |-> CASE k \in {a1, a2, a3, a4, a5} -> 1
                    [] k \in {b1, b2, b3, b4, b5} -> 2
                    [] k \in {d1, d2} -> 3
                    [] k = c1 -> 4
                    [] k \in {e1, e2} -> 5]

MCFirstBucket ==
  [k \in Keys |-> CASE k \in {a1, a2, a3, a4, a5, b1, b2, b3, b4, b5} -> 0
                    [] k \in {c1, d1, d2} -> 1
                    [] k \in {e1, e2} -> 2]

\* Keys of one letter may be exchanged.
Symmetry ==
  {p @@ q @@ r @@ s : p \in Permutations({a1, a2, a3, a4, a5} \cap Keys),
                      q \in Permutations({b1, b2, b3, b4, b5} \cap Keys),
                      r \in Permutations({d1, d2} \cap Keys),
                      s \in Permutations({e1, e2} \cap Keys)}
=============================================================================
