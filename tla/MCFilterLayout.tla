--------------------------- MODULE MCFilterLayout ---------------------------
(***************************************************************************)
(* FilterLayout for TLC: the values ProperAlternateRange returns for the   *)
(* bucket counts of the runs, whose computation is in floating point.      *)
(***************************************************************************)
EXTENDS FilterLayout

\* Ranges of classes 0-3 at the target load of the run, by bucket count:
\* class 0 is asked of the requested count, the others of the rounded one.
MCRanges ==
  CASE LoadPercent = 95 ->
         {<<17247, 0, 4096>>, <<34493, 0, 8192>>, <<68986, 0, 8192>>,
          <<20480, 1, 128>>, <<20480, 2, 16>>, <<20480, 3, 8>>,
          <<40960, 1, 128>>, <<40960, 2, 32>>, <<40960, 3, 8>>,
          <<73728, 1, 128>>, <<73728, 2, 32>>, <<73728, 3, 16>>}
    [] LoadPercent = 90 ->
         {<<10245, 0, 1024>>,
          <<11264, 1, 64>>, <<11264, 2, 16>>, <<11264, 3, 8>>}

\* The layouts of Items ask for no other count; 8 is the least range the loop
\* of the code returns.
MCProperAlternateRange(count, class) ==
  LET known == {r \in MCRanges : r[1] = count /\ r[2] = class}
  IN IF known = {} THEN 8 ELSE (CHOOSE r \in known : TRUE)[3]

\* The layouts at the load in use meet the condition of the theorems.
ASSUME RangesFitAtDefaultLoad ==
  LoadPercent = 95 => \A items \in Items : RangesFit(items)
=============================================================================
