------------------------ MODULE MCExperimentRunner --------------------------
(***************************************************************************)
(* ExperimentRunner for TLC: three sizes, three rounds, three samples.     *)
(***************************************************************************)
EXTENDS ExperimentRunner

MCSizes == <<256, 512, 1024>>
=============================================================================
