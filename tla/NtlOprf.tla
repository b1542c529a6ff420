------------------------------ MODULE NtlOprf -------------------------------
(***************************************************************************)
(* The OPRF of ntl_oprf.{h,cpp}: the hash into the subgroup of order q of  *)
(* the integers modulo p, the owner's key, the client's pool of prepared   *)
(* blinds, the direct evaluation of setup and the three steps of the       *)
(* interactive one.  The group is a parameter: what the code relies on is  *)
(* GroupAssumption, the laws of exponents in a group of prime order.       *)
(***************************************************************************)
EXTENDS Integers, Sequences

CONSTANTS
  Modulus,             \* p
  SubgroupOrder,       \* q
  Generator,           \* g
  PowerMod(_, _, _),   \* NTL::PowerMod
  Inputs,              \* the strings callers evaluate
  Counters,            \* bound: the counters HashToGroup may reach
  Wide(_, _),          \* SHAKE256 of an input and a counter, as an integer
  ScalarDraws,         \* what kScalarBytes random bytes may spell
  Base,                \* the values of a byte of OprfOutput
  OutputBytes,         \* kGroupElementBytes
  PoolSize             \* bound: blinds prepared

Cofactor == (Modulus - 1) \div SubgroupOrder

\* PublicParameters::Validate, without its probabilistic primality tests,
\* which stand behind GroupAssumption, and without the sizes in bits.
Validate ==
  /\ (Modulus - 1) % SubgroupOrder = 0
  /\ Cofactor * SubgroupOrder = Modulus - 1
  /\ Generator > 1
  /\ Generator < Modulus
  /\ PowerMod(Generator, SubgroupOrder, Modulus) = 1

Scalars == 1 .. SubgroupOrder - 1

Power(x, e) == PowerMod(x, e, Modulus)

\* The elements of the subgroup that an input may hash to.
Elements == {Power(Generator, e) : e \in Scalars}

\* RandomScalar draws until one of these comes up.
RandomScalar == {s \in ScalarDraws : s > 0 /\ s < SubgroupOrder}

InvMod(s) == CHOOSE i \in Scalars : (s * i) % SubgroupOrder = 1

\* Mutant: the reduction lets 0 and p - 1 through.
CandidateUnshifted(x, c) == Wide(x, c) % Modulus

Candidate(x, c) == (Wide(x, c) % (Modulus - 3)) + 2

ElementAt(x, c) == Power(Candidate(x, c), Cofactor)

\* Mutant: the first counter's element is taken, the identity or not.
HashToGroupFirst(x) == ElementAt(x, 0)

\* HashToGroup: the element of the first counter that is not the identity.
HashToGroup(x) ==
  ElementAt(x, CHOOSE c \in Counters :
                 /\ ElementAt(x, c) # 1
                 /\ \A d \in Counters : d < c => ElementAt(x, d) = 1)

\* ToBigEndian: OutputBytes bytes, the most significant one first; it throws
\* for a value outside the field and for one the bytes cannot hold.
ToBigEndian(v) ==
  IF v \in 0 .. Modulus - 1 /\ v < Base ^ OutputBytes
  THEN [i \in 1 .. OutputBytes |-> (v \div Base ^ (OutputBytes - i)) % Base]
  ELSE <<>>

\* The laws of a group of prime order q, as far as they are used: every
\* candidate lands in the subgroup, exponents commute, inverse exponents
\* cancel, each element but the identity generates all the others.
ASSUME GroupAssumption ==
  /\ Modulus \in Nat /\ Modulus > 3
  /\ SubgroupOrder \in Nat /\ Generator \in Nat
  /\ Validate
  /\ Scalars \subseteq ScalarDraws
  /\ ScalarDraws \subseteq Nat
  /\ 1 \notin Elements
  /\ \A x \in 2 .. Modulus - 2 : Power(x, Cofactor) \in Elements \cup {1}
  /\ \A y \in Elements, r \in Scalars : Power(y, r) \in Elements
  /\ \A y \in Elements, r, s \in Scalars :
       /\ Power(Power(y, r), s) = Power(Power(y, s), r)
       /\ (r * s) % SubgroupOrder = 1 => Power(Power(y, r), s) = y
  /\ \A y, z \in Elements : \E r \in Scalars : Power(y, r) = z
  /\ \A r \in Scalars : \E i \in Scalars : (r * i) % SubgroupOrder = 1

\* Every input has a counter whose element is not the identity, or the loop
\* of HashToGroup would not end.
ASSUME HashAssumption ==
  /\ Counters \subseteq Nat
  /\ \A x \in Inputs, c \in Counters : Wide(x, c) \in Nat
  /\ \A x \in Inputs : \E c \in Counters :
       /\ ElementAt(x, c) # 1
       /\ \A d \in Counters : d < c => ElementAt(x, d) = 1

\* The encoding has room for the field and tells its elements apart.
ASSUME EncodingAssumption ==
  /\ PoolSize \in Nat
  /\ \A v, w \in Elements : ToBigEndian(v) = ToBigEndian(w) => v = w
  /\ \A v \in Elements : ToBigEndian(v) # <<>>

VARIABLES
  key,      \* the scalar of SecretKey; 0 before there is one
  pool,     \* the prepared blinds
  call,     \* the EvaluatePrepared in progress, or Idle
  wire,     \* the requests the owner has been sent, with their blind
  outcome   \* what the last call returned or threw

vars == <<key, pool, call, wire, outcome>>

Idle == [step |-> "idle"]

Init ==
  /\ key = 0
  /\ pool = <<>>
  /\ call = Idle
  /\ wire = <<>>
  /\ outcome = <<"none">>

\* SecretKey(): a key is drawn.
GenerateKey ==
  /\ key = 0
  /\ key' \in RandomScalar
  /\ outcome' = <<"keyed">>
  /\ UNCHANGED <<pool, call, wire>>

\* SecretKey(scalar): it throws unless the scalar is in [1, q - 1].
SetKey(s) ==
  /\ key = 0
  /\ s > 0 /\ s < SubgroupOrder
  /\ key' = s
  /\ outcome' = <<"keyed">>
  /\ UNCHANGED <<pool, call, wire>>

RejectKey(s) ==
  /\ key = 0
  /\ s <= 0 \/ s >= SubgroupOrder
  /\ outcome' = <<"rejected">>
  /\ UNCHANGED <<key, pool, call, wire>>

Ready == key # 0 /\ call = Idle

\* PrepareBlind, as PrepareBlindPool repeats it.
PrepareBlind ==
  /\ Ready
  /\ Len(pool) < PoolSize
  /\ \E s \in RandomScalar :
       pool' = Append(pool, [scalar |-> s, inverse |-> InvMod(s),
                             consumed |-> FALSE])
  /\ UNCHANGED <<key, call, wire, outcome>>

DirectEvaluate(x) ==
  /\ Ready
  /\ outcome' = <<"value", x, ToBigEndian(Power(HashToGroup(x), key))>>
  /\ UNCHANGED <<key, pool, call, wire>>

\* EvaluatePrepared throws for a blind that was consumed...
RefuseReused(b) ==
  /\ Ready
  /\ pool[b].consumed
  /\ outcome' = <<"reused">>
  /\ UNCHANGED <<key, pool, call, wire>>

\* Mutant: a blind may be used again.
SendRequestAgain(x, b) ==
  /\ Ready
  /\ LET request == Power(HashToGroup(x), pool[b].scalar)
     IN /\ call' = [step |-> "owner", input |-> x, blind |-> b,
                    value |-> request]
        /\ wire' = Append(wire, [blind |-> b, request |-> request])
  /\ pool' = [pool EXCEPT ![b].consumed = TRUE]
  /\ UNCHANGED <<key, outcome>>

\* ... else it consumes it before anything is computed, and blinds.
SendRequest(x, b) ==
  /\ Ready
  /\ ~pool[b].consumed
  /\ LET request == Power(HashToGroup(x), pool[b].scalar)
     IN /\ call' = [step |-> "owner", input |-> x, blind |-> b,
                    value |-> request]
        /\ wire' = Append(wire, [blind |-> b, request |-> request])
  /\ pool' = [pool EXCEPT ![b].consumed = TRUE]
  /\ UNCHANGED <<key, outcome>>

\* The owner's step, which sees the request and the key only.
Respond ==
  /\ call.step = "owner"
  /\ call' = [call EXCEPT !.step = "unblind", !.value = Power(@, key)]
  /\ UNCHANGED <<key, pool, wire, outcome>>

Unblind ==
  /\ call.step = "unblind"
  /\ outcome' = <<"value", call.input,
                  ToBigEndian(Power(call.value, pool[call.blind].inverse))>>
  /\ call' = Idle
  /\ UNCHANGED <<key, pool, wire>>

Next ==
  \/ GenerateKey
  \/ \E s \in ScalarDraws : SetKey(s) \/ RejectKey(s)
  \/ PrepareBlind
  \/ \E x \in Inputs : DirectEvaluate(x)
  \/ \E b \in DOMAIN pool : RefuseReused(b)
  \/ \E x \in Inputs, b \in DOMAIN pool : SendRequest(x, b)
  \/ Respond
  \/ Unblind

Spec == Init /\ [][Next]_vars

-----------------------------------------------------------------------------
(* What is promised.                                                       *)

Outputs == {ToBigEndian(v) : v \in Elements}

Blind == [scalar : Scalars, inverse : Scalars, consumed : BOOLEAN]

Outcomes == {<<"none">>, <<"keyed">>, <<"rejected">>, <<"reused">>}
              \cup ({"value"} \X Inputs \X Outputs)

\* Every variable has its type: a key and a blind are invertible scalars, and
\* what crosses the wire, and what is returned, encodes an element of the
\* subgroup that is not its identity.
TypeOK ==
  /\ key \in {0} \cup Scalars
  /\ pool \in Seq(Blind)
  /\ call \in {Idle} \cup [step : {"owner", "unblind"}, input : Inputs,
                           blind : DOMAIN pool, value : Elements]
  /\ wire \in Seq([blind : DOMAIN pool, request : Elements])
  /\ outcome \in Outcomes

\* Blinding hides the inputs: for all the requests the owner has ever been
\* sent, any inputs whatever would have sent them, under some draw of the
\* blinds.  It needs the identity rejected (HashToGroup, lines 150-154), zero
\* never drawn (RandomScalar), and each blind used once (lines 236-239).
RequestsHide ==
  \A inputs \in [DOMAIN wire -> Inputs] :
    \E scalars \in [DOMAIN pool -> Scalars] :
      \A n \in DOMAIN wire :
        Power(HashToGroup(inputs[n]), scalars[wire[n].blind]) = wire[n].request

Unkeyed == <<>>

InCall == IF call = Idle THEN {} ELSE {call.blind}

Consumed == {b \in DOMAIN pool : pool[b].consumed}

Prf == INSTANCE ObliviousPrf WITH
  Blinds <- 1 .. PoolSize, Hashed <- HashToGroup,
  keyed <- key # 0,
  oracle <- IF key = 0 THEN Unkeyed
            ELSE [x \in Inputs |-> ToBigEndian(Power(HashToGroup(x), key))],
  fresh <- DOMAIN pool \ (Consumed \ InCall),
  spent <- Consumed \ InCall

\* Owner and client evaluate one function (oprf_consistency_test.cpp:32),
\* which never changes once there is a key and keeps apart what the hash keeps
\* apart; a blind serves one evaluation and is refused ever after (lines
\* 36-41), however the calls are ordered.
ImplementsPrf == Prf!Spec
=============================================================================
