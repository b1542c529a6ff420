--------------------------- MODULE MCCuckooTable ----------------------------
(***************************************************************************)
(* CuckooTable for TLC: five keywords in (5 * 3 + 1) / 2 = 8 bins, as the  *)
(* constructor sizes it (line 150), of which four share four bins, so      *)
(* that walks come back to where they were and unlucky ones fail.          *)
(***************************************************************************)
EXTENDS CuckooTable, Sequences

MCBinCount == (5 * 3 + 1) \div 2

Triples == <<<<0, 1, 2>>, <<2, 1, 0>>, <<0, 1, 1>>, <<0, 0, 3>>, <<2, 3, 4>>,
             <<0, 5, 6>>, <<1, 5, 7>>, <<2, 6, 7>>, <<3, 3, 3>>>>

MCPosition == [t \in Tokens |-> [h \in Hashes |-> Triples[t][h + 1]]]
=============================================================================
