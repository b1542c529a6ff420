--------------------------- MODULE MCLseProtocol ----------------------------
(***************************************************************************)
(* LseProtocol for TLC.  The tokens RandomToken may draw are numbers after *)
(* those of the keywords, two more than the padding needs.                 *)
(***************************************************************************)
EXTENDS LseProtocol

MCRandoms == KeywordCount .. BinCount + 1
=============================================================================
