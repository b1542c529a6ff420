---------------------------- MODULE ObliviousPrf ----------------------------
(***************************************************************************)
(* What NtlOprf promises its callers: one function, fixed with the key,    *)
(* that keeps apart what the hash into the group keeps apart.  The owner   *)
(* evaluates it directly; the client evaluates it by spending a prepared   *)
(* blind, and a blind once spent is refused.                               *)
(***************************************************************************)
CONSTANTS
  Inputs,     \* what callers evaluate
  Outputs,    \* OprfOutput
  Blinds,     \* names of the blinds
  Hashed(_),  \* the group element an input hashes to
  Unkeyed     \* stands for the function before there is a key

VARIABLES
  keyed,      \* whether there is a key
  oracle,     \* the function it fixes
  fresh,      \* blinds prepared and not spent
  spent,      \* blinds that have served
  outcome     \* what the last call returned or threw

Init ==
  /\ keyed = FALSE
  /\ oracle = Unkeyed
  /\ fresh = {}
  /\ spent = {}
  /\ outcome = <<"none">>

Faithful(f) == \A x, y \in Inputs : f[x] = f[y] <=> Hashed(x) = Hashed(y)

\* A key fixes the function, once.
Key ==
  /\ ~keyed
  /\ keyed' = TRUE
  /\ oracle' \in [Inputs -> Outputs]
  /\ Faithful(oracle')
  /\ outcome' = <<"keyed">>
  /\ UNCHANGED <<fresh, spent>>

RejectKey ==
  /\ ~keyed
  /\ outcome' = <<"rejected">>
  /\ UNCHANGED <<keyed, oracle, fresh, spent>>

Prepare(b) ==
  /\ keyed
  /\ b \notin fresh \cup spent
  /\ fresh' = fresh \cup {b}
  /\ UNCHANGED <<keyed, oracle, spent, outcome>>

Direct(x) ==
  /\ keyed
  /\ outcome' = <<"value", x, oracle[x]>>
  /\ UNCHANGED <<keyed, oracle, fresh, spent>>

Interactive(x, b) ==
  /\ b \in fresh
  /\ fresh' = fresh \ {b}
  /\ spent' = spent \cup {b}
  /\ outcome' = <<"value", x, oracle[x]>>
  /\ UNCHANGED <<keyed, oracle>>

Reused(b) ==
  /\ b \in spent
  /\ outcome' = <<"reused">>
  /\ UNCHANGED <<keyed, oracle, fresh, spent>>

Next ==
  \/ Key
  \/ RejectKey
  \/ \E x \in Inputs : Direct(x)
  \/ \E b \in Blinds : Prepare(b) \/ Reused(b)
  \/ \E x \in Inputs, b \in Blinds : Interactive(x, b)

vars == <<keyed, oracle, fresh, spent, outcome>>

Spec == Init /\ [][Next]_vars
=============================================================================
