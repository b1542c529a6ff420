------------------------------ MODULE MCNtlOprf -----------------------------
(***************************************************************************)
(* NtlOprf for TLC, in the subgroup of order 5 modulo 31.  The candidates  *)
(* 5, 6, 25 and 26 give its identity: input "b" meets one of them before   *)
(* it hashes to an element, input "c" two.                                 *)
(***************************************************************************)
EXTENDS NtlOprf

MCPowers ==
  [x \in 0 .. 30 |->
     LET power[e \in 0 .. 7] == IF e = 0 THEN 1 ELSE (power[e - 1] * x) % 31
     IN [e \in 0 .. 7 |-> power[e]]]

MCPowerMod(x, e, m) == MCPowers[x][e]

MCWide(x, c) == [a |-> <<0, 7, 9>>, b |-> <<3, 33, 9>>, c |-> <<32, 23, 29>>][x][c + 1]
=============================================================================
