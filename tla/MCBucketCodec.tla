--------------------------- MODULE MCBucketCodec ----------------------------
(***************************************************************************)
(* BucketCodec for TLC.  At five bits two records share a fingerprint; the *)
(* other widths have fingerprints at both ends and in the middle.  The     *)
(* code of the nibbles has no constants: TLC evaluates all of it.          *)
(***************************************************************************)
EXTENDS BucketCodec

MCRecords(bits) ==
  {[fingerprint |-> 1, payload |-> "a"],
   [fingerprint |-> IF bits = 5 THEN 1 ELSE 7 * 2 ^ (bits - 4),
    payload |-> "b"],
   [fingerprint |-> 2 ^ bits - 1, payload |-> "c"]}

ASSUME CodecOfEveryNibbles == CodecIsBijective
=============================================================================
