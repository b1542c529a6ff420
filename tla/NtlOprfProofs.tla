--------------------------- MODULE NtlOprfProofs ----------------------------
(***************************************************************************)
(* NtlOprf in every group that obeys GroupAssumption: its types, that      *)
(* blinding hides the inputs, and that it implements ObliviousPrf.         *)
(***************************************************************************)
EXTENDS NtlOprf, TLAPS

-----------------------------------------------------------------------------
(* The group and the hash into it.                                         *)

\* A candidate is neither 0, 1 nor p - 1, nor more.
LEMMA CandidateRange ==
  ASSUME NEW x \in Inputs, NEW c \in Counters
  PROVE  Candidate(x, c) \in 2 .. Modulus - 2
<1> DEFINE w == Wide(x, c)
           m == Modulus - 3
<1>1. w \in Nat
  BY HashAssumption
<1>2. m \in Nat /\ m > 0
  BY GroupAssumption
<1>3. w % m \in 0 .. m - 1
  <2> HIDE DEF w, m
  <2> QED BY <1>1, <1>2
<1>4. Candidate(x, c) = (w % m) + 2
  BY DEF Candidate
<1> QED BY <1>2, <1>3, <1>4, GroupAssumption

\* What an input hashes to is in the subgroup and not its identity.
LEMMA HashInElements ==
  ASSUME NEW x \in Inputs
  PROVE  HashToGroup(x) \in Elements
<1> DEFINE First(c) == /\ ElementAt(x, c) # 1
                       /\ \A d \in Counters : d < c => ElementAt(x, d) = 1
           c0 == CHOOSE c \in Counters : First(c)
<1>1. \E c \in Counters : First(c)
  BY HashAssumption
<1>2. c0 \in Counters /\ First(c0)
  <2> HIDE DEF First
  <2> QED BY <1>1
<1>3. HashToGroup(x) = ElementAt(x, c0)
  BY DEF HashToGroup
<1>4. ElementAt(x, c0) \in Elements \cup {1}
  <2> HIDE DEF c0
  <2>1. Candidate(x, c0) \in 2 .. Modulus - 2
    BY <1>2, CandidateRange
  <2> QED BY <2>1, GroupAssumption DEF ElementAt
<1> QED BY <1>2, <1>3, <1>4

\* Exponents commute, inverses cancel, and no scalar leaves the subgroup.
LEMMA ScalarLaws ==
  ASSUME NEW y \in Elements, NEW r \in Scalars, NEW s \in Scalars
  PROVE  /\ Power(y, r) \in Elements
         /\ Power(Power(y, r), s) = Power(Power(y, s), r)
         /\ (r * s) % SubgroupOrder = 1 => Power(Power(y, r), s) = y
BY GroupAssumption

\* InvMod inverts.
LEMMA InverseOfScalar ==
  ASSUME NEW s \in Scalars
  PROVE  InvMod(s) \in Scalars /\ (s * InvMod(s)) % SubgroupOrder = 1
<1>1. \E i \in Scalars : (s * i) % SubgroupOrder = 1
  BY GroupAssumption
<1> QED BY <1>1 DEF InvMod

\* A draw of RandomScalar is a scalar.
LEMMA RandomScalarRange == RandomScalar \subseteq Scalars
<1> SUFFICES ASSUME NEW s \in RandomScalar PROVE s \in Scalars
  OBVIOUS
<1>1. s \in Nat /\ s > 0 /\ s < SubgroupOrder
  BY GroupAssumption DEF RandomScalar
<1> QED BY <1>1, GroupAssumption DEF Scalars

\* Blinding, evaluating and unblinding is evaluating.
LEMMA UnblindedIsDirect ==
  ASSUME NEW y \in Elements, NEW k \in Scalars, NEW s \in Scalars,
         NEW i \in Scalars, (s * i) % SubgroupOrder = 1
  PROVE  Power(Power(Power(y, s), k), i) = Power(y, k)
<1>1. Power(Power(y, s), k) = Power(Power(y, k), s)
  BY ScalarLaws
<1>2. Power(y, k) \in Elements
  BY ScalarLaws
<1>3. Power(Power(Power(y, k), s), i) = Power(y, k)
  BY <1>2, ScalarLaws
<1> QED BY <1>1, <1>3

\* A key keeps elements apart: it has an inverse.
LEMMA KeyIsInjective ==
  ASSUME NEW y \in Elements, NEW z \in Elements, NEW k \in Scalars,
         Power(y, k) = Power(z, k)
  PROVE  y = z
<1>1. PICK i \in Scalars : (k * i) % SubgroupOrder = 1
  BY GroupAssumption
<1>2. Power(Power(y, k), i) = y /\ Power(Power(z, k), i) = z
  BY <1>1, ScalarLaws
<1> QED BY <1>2

-----------------------------------------------------------------------------
(* Sequences.                                                              *)

\* A sequence over a set is one over any larger set.
LEMMA SeqWidens ==
  ASSUME NEW S, NEW T, S \subseteq T, NEW s \in Seq(S)
  PROVE  s \in Seq(T)
<1>1. s \in [1 .. Len(s) -> S] /\ Len(s) \in Nat
  OBVIOUS
<1>2. s \in [1 .. Len(s) -> T]
  BY <1>1
<1> QED BY <1>1, <1>2

\* What a sequence over a set holds is in the set.
LEMMA SeqElement ==
  ASSUME NEW S, NEW s \in Seq(S), NEW n \in DOMAIN s
  PROVE  s[n] \in S
OBVIOUS

-----------------------------------------------------------------------------
(* The inductive invariant.                                                *)

\* Every blind of the pool can be undone.
Invertible ==
  \A b \in DOMAIN pool :
    (pool[b].scalar * pool[b].inverse) % SubgroupOrder = 1

\* What a call in progress has computed so far, with a blind that is consumed.
CallComputed ==
  call # Idle =>
    /\ key # 0
    /\ pool[call.blind].consumed
    /\ LET request == Power(HashToGroup(call.input), pool[call.blind].scalar)
       IN call.value = IF call.step = "owner" THEN request
                       ELSE Power(request, key)

\* Each request was sent with a blind of its own, which is consumed.
OneRequestPerBlind ==
  /\ \A n \in DOMAIN wire : pool[wire[n].blind].consumed
  /\ \A m, n \in DOMAIN wire : wire[m].blind = wire[n].blind => m = n

\* The pool is within its bound, and there is none before there is a key.
PoolBounded == Len(pool) <= PoolSize /\ (key = 0 => pool = <<>>)

IInv == TypeOK /\ Invertible /\ CallComputed /\ OneRequestPerBlind /\ PoolBounded

\* It holds before there is a key.
LEMMA InitIInv == Init => IInv
BY GroupAssumption, EncodingAssumption
   DEF Init, IInv, TypeOK, Invertible, CallComputed, OneRequestPerBlind,
       PoolBounded, Idle, Outcomes

\* The requests on the wire name blinds of the pool.
LEMMA WireBlind ==
  ASSUME TypeOK
  PROVE  \A n \in DOMAIN wire : /\ wire[n].blind \in DOMAIN pool
                                /\ wire[n].request \in Elements
<1>1. wire \in Seq([blind : DOMAIN pool, request : Elements])
  BY DEF TypeOK
<1>2. \A n \in DOMAIN wire : wire[n] \in [blind : DOMAIN pool, request : Elements]
  BY <1>1, SeqElement
<1> QED BY <1>2

\* The first key there is.
LEMMA KeyPreserves ==
  ASSUME IInv, key = 0, key' \in {0} \cup Scalars,
         outcome' \in {<<"keyed">>, <<"rejected">>},
         UNCHANGED <<pool, call, wire>>
  PROVE  IInv'
BY DEF IInv, TypeOK, Invertible, CallComputed, OneRequestPerBlind,
       PoolBounded, Outcomes

\* A new blind can be undone, and has no request.
LEMMA PreparePreserves == IInv /\ PrepareBlind => IInv'
<1> SUFFICES ASSUME IInv, PrepareBlind PROVE IInv'
  OBVIOUS
<1> USE DEF IInv
<1>1. PICK s \in RandomScalar :
        pool' = Append(pool, [scalar |-> s, inverse |-> InvMod(s),
                              consumed |-> FALSE])
  BY DEF PrepareBlind
<1> DEFINE new == [scalar |-> s, inverse |-> InvMod(s), consumed |-> FALSE]
<1>2. s \in Scalars /\ InvMod(s) \in Scalars /\ (s * InvMod(s)) % SubgroupOrder = 1
  BY RandomScalarRange, InverseOfScalar
<1>3. new \in Blind
  BY <1>2 DEF Blind
<1>4. /\ pool' \in Seq(Blind)
      /\ DOMAIN pool' = DOMAIN pool \cup {Len(pool) + 1}
      /\ \A b \in DOMAIN pool : pool'[b] = pool[b]
      /\ pool'[Len(pool) + 1] = new
      /\ Len(pool') = Len(pool) + 1
  <2> HIDE DEF new
  <2> QED BY <1>1, <1>3 DEF TypeOK, new
<1>5. UNCHANGED <<key, call, wire, outcome>> /\ key # 0 /\ call = Idle
      /\ Len(pool) < PoolSize
  BY DEF PrepareBlind, Ready
<1>6. wire \in Seq([blind : DOMAIN pool', request : Elements])
  <2>1. [blind : DOMAIN pool, request : Elements]
          \subseteq [blind : DOMAIN pool', request : Elements]
    BY <1>4
  <2>2. wire \in Seq([blind : DOMAIN pool, request : Elements])
    BY DEF TypeOK
  <2> QED BY <2>1, <2>2, SeqWidens
<1>7. TypeOK'
  BY <1>4, <1>5, <1>6 DEF TypeOK, Outcomes
<1>8. Invertible'
  BY <1>2, <1>4 DEF Invertible
<1>9. CallComputed'
  BY <1>5 DEF CallComputed
<1>10. OneRequestPerBlind'
  <2>1. \A n \in DOMAIN wire : wire[n].blind \in DOMAIN pool
    BY WireBlind
  <2> QED BY <2>1, <1>4, <1>5 DEF OneRequestPerBlind
<1>11. PoolBounded'
  BY <1>4, <1>5, EncodingAssumption DEF PoolBounded, TypeOK
<1> QED BY <1>7, <1>8, <1>9, <1>10, <1>11

\* A value encodes to an output.
LEMMA EncodedInOutputs ==
  ASSUME NEW v \in Elements PROVE ToBigEndian(v) \in Outputs
BY DEF Outputs

\* A direct evaluation changes the outcome only.
LEMMA DirectPreserves ==
  ASSUME IInv, NEW x \in Inputs, DirectEvaluate(x) PROVE IInv'
<1> USE DEF IInv
<1>1. key \in Scalars
  BY DEF DirectEvaluate, Ready, TypeOK
<1>2. ToBigEndian(Power(HashToGroup(x), key)) \in Outputs
  BY <1>1, HashInElements, ScalarLaws, EncodedInOutputs
<1>3. UNCHANGED <<key, pool, call, wire>>
  BY DEF DirectEvaluate
<1>4. outcome' \in Outcomes
  BY <1>2 DEF DirectEvaluate, Outcomes
<1> QED BY <1>3, <1>4
        DEF TypeOK, Invertible, CallComputed, OneRequestPerBlind, PoolBounded,
            Outcomes

\* The request is the first of its blind.
LEMMA SendPreserves ==
  ASSUME IInv, NEW x \in Inputs, NEW b \in DOMAIN pool, SendRequest(x, b)
  PROVE  IInv'
<1> USE DEF IInv
<1> DEFINE request == Power(HashToGroup(x), pool[b].scalar)
           message == [blind |-> b, request |-> request]
<1>1. pool[b] \in Blind /\ DOMAIN pool \subseteq Nat
  BY DEF TypeOK
<1>2. request \in Elements
  BY <1>1, HashInElements, ScalarLaws DEF Blind
<1>3. /\ pool' \in Seq(Blind)
      /\ DOMAIN pool' = DOMAIN pool
      /\ Len(pool') = Len(pool)
      /\ pool'[b].consumed
      /\ \A d \in DOMAIN pool :
           /\ pool'[d].scalar = pool[d].scalar
           /\ pool'[d].inverse = pool[d].inverse
           /\ pool[d].consumed => pool'[d].consumed
  <2>1. pool' = [pool EXCEPT ![b].consumed = TRUE]
    BY DEF SendRequest
  <2> DEFINE spent == [pool[b] EXCEPT !.consumed = TRUE]
  <2>2. pool' = [pool EXCEPT ![b] = spent]
    BY <2>1
  <2>3. /\ spent \in Blind
        /\ spent.consumed
        /\ spent.scalar = pool[b].scalar
        /\ spent.inverse = pool[b].inverse
    BY <1>1 DEF Blind
  <2>4. pool \in Seq(Blind)
    BY DEF TypeOK
  <2>5. /\ pool' \in Seq(Blind) /\ Len(pool') = Len(pool)
        /\ DOMAIN pool' = DOMAIN pool
        /\ pool'[b] = spent
        /\ \A d \in DOMAIN pool : d # b => pool'[d] = pool[d]
    <3> HIDE DEF spent
    <3> QED BY <2>2, <2>3, <2>4
  <2> QED BY <2>3, <2>5
<1>4. /\ call' = [step |-> "owner", input |-> x, blind |-> b,
                  value |-> request]
      /\ wire' = Append(wire, message)
      /\ UNCHANGED <<key, outcome>>
      /\ key # 0
      /\ ~pool[b].consumed
  BY DEF SendRequest, Ready
<1>5. message \in [blind : DOMAIN pool, request : Elements]
  BY <1>2
<1>6. /\ wire' \in Seq([blind : DOMAIN pool, request : Elements])
      /\ DOMAIN wire' = DOMAIN wire \cup {Len(wire) + 1}
      /\ \A n \in DOMAIN wire : wire'[n] = wire[n]
      /\ wire'[Len(wire) + 1] = message
  <2> HIDE DEF message
  <2> QED BY <1>4, <1>5 DEF TypeOK
<1>7. TypeOK'
  <2>1. call' \in [step : {"owner", "unblind"}, input : Inputs,
                   blind : DOMAIN pool, value : Elements]
    BY <1>2, <1>4
  <2> QED BY <2>1, <1>3, <1>4, <1>6 DEF TypeOK, Outcomes
<1>8. Invertible'
  BY <1>3 DEF Invertible
<1>9. CallComputed'
  <2>1. /\ call'.step = "owner" /\ call'.input = x
        /\ call'.blind = b /\ call'.value = request
    BY <1>4
  <2> QED BY <2>1, <1>3, <1>4 DEF CallComputed
<1>10. OneRequestPerBlind'
  <2>1. \A n \in DOMAIN wire : wire[n].blind \in DOMAIN pool /\ wire[n].blind # b
    BY <1>4, WireBlind DEF OneRequestPerBlind
  <2>2. \A n \in DOMAIN wire' : pool'[wire'[n].blind].consumed
    <3>1. \A n \in DOMAIN wire : pool'[wire[n].blind].consumed
      BY <2>1, <1>3 DEF OneRequestPerBlind
    <3>2. wire'[Len(wire) + 1].blind = b
      BY <1>6
    <3> QED BY <3>1, <3>2, <1>3, <1>6
  <2>3. ASSUME NEW m \in DOMAIN wire', NEW n \in DOMAIN wire',
               wire'[m].blind = wire'[n].blind
        PROVE  m = n
    BY <2>1, <2>3, <1>6 DEF OneRequestPerBlind
  <2> QED BY <2>2, <2>3 DEF OneRequestPerBlind
<1>11. PoolBounded'
  BY <1>3, <1>4 DEF PoolBounded
<1> QED BY <1>7, <1>8, <1>9, <1>10, <1>11

\* The owner raises the request to its key.
LEMMA RespondPreserves == IInv /\ Respond => IInv'
<1> SUFFICES ASSUME IInv, Respond PROVE IInv'
  OBVIOUS
<1> USE DEF IInv
<1>1. /\ call.step = "owner"
      /\ call' = [call EXCEPT !.step = "unblind", !.value = Power(@, key)]
      /\ UNCHANGED <<key, pool, wire, outcome>>
  BY DEF Respond
<1>2. /\ call # Idle
      /\ call \in [step : {"owner", "unblind"}, input : Inputs,
                   blind : DOMAIN pool, value : Elements]
  BY <1>1 DEF TypeOK, Idle
<1>3. key \in Scalars
  BY <1>2 DEF TypeOK, CallComputed
<1>4. Power(call.value, key) \in Elements
  BY <1>2, <1>3, ScalarLaws
<1>5. call' = [step |-> "unblind", input |-> call.input, blind |-> call.blind,
               value |-> Power(call.value, key)]
  BY <1>1, <1>2
<1>6. TypeOK'
  BY <1>1, <1>2, <1>4, <1>5 DEF TypeOK, Outcomes
<1>7. CallComputed'
  BY <1>1, <1>2, <1>5 DEF CallComputed
<1> QED BY <1>1, <1>6, <1>7 DEF Invertible, OneRequestPerBlind, PoolBounded

\* What Unblind returns is what DirectEvaluate would have returned.
LEMMA UnblindReturnsDirect ==
  ASSUME IInv, Unblind
  PROVE  /\ call # Idle /\ call.input \in Inputs /\ call.blind \in DOMAIN pool
         /\ pool[call.blind].consumed
         /\ key \in Scalars
         /\ outcome' = <<"value", call.input,
                         ToBigEndian(Power(HashToGroup(call.input), key))>>
<1> USE DEF IInv
<1>1. /\ call.step = "unblind"
      /\ outcome' = <<"value", call.input,
             ToBigEndian(Power(call.value, pool[call.blind].inverse))>>
  BY DEF Unblind
<1>2. /\ call # Idle
      /\ call \in [step : {"owner", "unblind"}, input : Inputs,
                   blind : DOMAIN pool, value : Elements]
  BY <1>1 DEF TypeOK, Idle
<1>3. /\ key \in Scalars
      /\ pool[call.blind].consumed
      /\ call.value = Power(Power(HashToGroup(call.input),
                                  pool[call.blind].scalar), key)
  BY <1>1, <1>2 DEF TypeOK, CallComputed
<1>4. pool[call.blind] \in Blind
  BY <1>2, SeqElement DEF TypeOK
<1>5. Power(call.value, pool[call.blind].inverse)
        = Power(HashToGroup(call.input), key)
  <2> DEFINE y == HashToGroup(call.input)
             r == pool[call.blind].scalar
             i == pool[call.blind].inverse
  <2>1. y \in Elements
    BY <1>2, HashInElements
  <2>2. r \in Scalars /\ i \in Scalars
    BY <1>4 DEF Blind
  <2>3. (r * i) % SubgroupOrder = 1
    BY <1>2 DEF Invertible
  <2>4. call.value = Power(Power(y, r), key)
    BY <1>3
  <2> HIDE DEF y, r, i
  <2>5. Power(Power(Power(y, r), key), i) = Power(y, key)
    BY <1>3, <2>1, <2>2, <2>3, UnblindedIsDirect
  <2> QED BY <2>4, <2>5 DEF y, i
<1> QED BY <1>1, <1>2, <1>3, <1>5

\* So it is an output.
LEMMA UnblindPreserves == IInv /\ Unblind => IInv'
<1> SUFFICES ASSUME IInv, Unblind PROVE IInv'
  OBVIOUS
<1>1. /\ call.input \in Inputs
      /\ key \in Scalars
      /\ outcome' = <<"value", call.input,
                      ToBigEndian(Power(HashToGroup(call.input), key))>>
  BY UnblindReturnsDirect
<1>2. ToBigEndian(Power(HashToGroup(call.input), key)) \in Outputs
  BY <1>1, HashInElements, ScalarLaws, EncodedInOutputs
<1>3. call' = Idle /\ UNCHANGED <<key, pool, wire>>
  BY DEF Unblind
<1>4. outcome' \in Outcomes
  BY <1>1, <1>2 DEF Outcomes
<1> QED BY <1>3, <1>4
        DEF IInv, TypeOK, Invertible, CallComputed, OneRequestPerBlind,
            PoolBounded

\* Each action, in turn.
LEMMA NextIInv == IInv /\ [Next]_vars => IInv'
<1> SUFFICES ASSUME IInv, [Next]_vars PROVE IInv'
  OBVIOUS
<1>1. CASE GenerateKey
  BY <1>1, KeyPreserves, RandomScalarRange DEF GenerateKey
<1>2. ASSUME NEW s \in ScalarDraws, SetKey(s) PROVE IInv'
  <2>1. s \in Scalars
    BY <1>2, GroupAssumption DEF SetKey, Scalars
  <2> QED BY <1>2, <2>1, KeyPreserves DEF SetKey
<1>3. ASSUME NEW s \in ScalarDraws, RejectKey(s) PROVE IInv'
  BY <1>3, KeyPreserves DEF RejectKey
<1>4. CASE PrepareBlind
  BY <1>4, PreparePreserves
<1>5. ASSUME NEW x \in Inputs, DirectEvaluate(x) PROVE IInv'
  BY <1>5, DirectPreserves
<1>6. ASSUME NEW b \in DOMAIN pool, RefuseReused(b) PROVE IInv'
  BY <1>6 DEF RefuseReused, IInv, TypeOK, Invertible, CallComputed,
              OneRequestPerBlind, PoolBounded, Outcomes
<1>7. ASSUME NEW x \in Inputs, NEW b \in DOMAIN pool, SendRequest(x, b)
      PROVE  IInv'
  BY <1>7, SendPreserves
<1>8. CASE Respond
  BY <1>8, RespondPreserves
<1>9. CASE Unblind
  BY <1>9, UnblindPreserves
<1>10. CASE UNCHANGED vars
  BY <1>10 DEF vars, IInv, TypeOK, Invertible, CallComputed,
               OneRequestPerBlind, PoolBounded
<1> QED BY <1>1, <1>2, <1>3, <1>4, <1>5, <1>6, <1>7, <1>8, <1>9, <1>10 DEF Next

\* The invariant is one of the specification.
LEMMA InvariantHolds == Spec => []IInv
BY InitIInv, NextIInv, PTL DEF Spec

\* Types: whatever is drawn, sent or returned is a scalar, or an element of the
\* subgroup that is not its identity.
THEOREM TypeCorrect == Spec => []TypeOK
<1>1. IInv => TypeOK
  BY DEF IInv
<1> QED BY <1>1, InvariantHolds, PTL

-----------------------------------------------------------------------------
(* Blinding hides the inputs.                                              *)

\* Elements generate one another, and no blind has two requests to explain.
LEMMA InvariantHides == IInv => RequestsHide
<1> SUFFICES ASSUME IInv, NEW inputs \in [DOMAIN wire -> Inputs]
             PROVE  \E scalars \in [DOMAIN pool -> Scalars] :
                      \A n \in DOMAIN wire :
                        Power(HashToGroup(inputs[n]), scalars[wire[n].blind])
                          = wire[n].request
  BY DEF RequestsHide
<1> DEFINE Explains(n, s) ==
             Power(HashToGroup(inputs[n]), s) = wire[n].request
           SentWith(b) == CHOOSE n \in DOMAIN wire : wire[n].blind = b
           scalars == [b \in DOMAIN pool |->
                         IF \E n \in DOMAIN wire : wire[n].blind = b
                         THEN CHOOSE s \in Scalars : Explains(SentWith(b), s)
                         ELSE pool[b].scalar]
<1>1. \A n \in DOMAIN wire : /\ wire[n].blind \in DOMAIN pool
                             /\ wire[n].request \in Elements
  BY WireBlind DEF IInv
<1>2. \A n \in DOMAIN wire : \E s \in Scalars : Explains(n, s)
  <2> TAKE n \in DOMAIN wire
  <2>1. HashToGroup(inputs[n]) \in Elements
    BY HashInElements
  <2> QED BY <1>1, <2>1, GroupAssumption
<1>3. \A n \in DOMAIN wire : SentWith(wire[n].blind) = n
  BY DEF IInv, OneRequestPerBlind
<1> HIDE DEF Explains, SentWith
<1>4. \A n \in DOMAIN wire :
        /\ scalars[wire[n].blind] \in Scalars
        /\ Explains(n, scalars[wire[n].blind])
  <2> TAKE n \in DOMAIN wire
  <2>1. scalars[wire[n].blind] = CHOOSE s \in Scalars : Explains(n, s)
    BY <1>1, <1>3
  <2> QED BY <1>2, <2>1
<1>5. scalars \in [DOMAIN pool -> Scalars]
  <2> SUFFICES ASSUME NEW b \in DOMAIN pool PROVE scalars[b] \in Scalars
    OBVIOUS
  <2>1. CASE \E n \in DOMAIN wire : wire[n].blind = b
    BY <1>4, <2>1
  <2>2. CASE ~ \E n \in DOMAIN wire : wire[n].blind = b
    <3>1. pool[b] \in Blind
      BY SeqElement DEF IInv, TypeOK
    <3> QED BY <2>2, <3>1 DEF Blind
  <2> QED BY <2>1, <2>2
<1> HIDE DEF scalars
<1> QED BY <1>4, <1>5 DEF Explains

\* Whatever the owner has been sent, any inputs explain it, in every group of
\* prime order: the owner learns nothing of the client's queries.
THEOREM BlindingHides == Spec => []RequestsHide
BY InvariantHides, InvariantHolds, PTL

-----------------------------------------------------------------------------
(* NtlOprf implements ObliviousPrf.                                        *)

\* Nothing is prepared at first.
LEMMA InitRefines == Init => Prf!Init
BY DEF Init, Prf!Init, Consumed, InCall, Idle

\* A key fixes a function that keeps apart what the hash keeps apart.
LEMMA KeyRefines ==
  ASSUME key = 0, key' \in Scalars, outcome' = <<"keyed">>,
         UNCHANGED <<pool, call, wire>>
  PROVE  Prf!Key
<1> DEFINE f == [x \in Inputs |-> ToBigEndian(Power(HashToGroup(x), key'))]
<1>1. 0 \notin Scalars
  BY GroupAssumption DEF Scalars
<1>2. f \in [Inputs -> Outputs]
  BY HashInElements, ScalarLaws, EncodedInOutputs
<1>3. ASSUME NEW x \in Inputs, NEW y \in Inputs
      PROVE  f[x] = f[y] <=> HashToGroup(x) = HashToGroup(y)
  <2>1. /\ HashToGroup(x) \in Elements /\ HashToGroup(y) \in Elements
        /\ Power(HashToGroup(x), key') \in Elements
        /\ Power(HashToGroup(y), key') \in Elements
    BY HashInElements, ScalarLaws
  <2>2. CASE f[x] = f[y]
    <3>1. Power(HashToGroup(x), key') = Power(HashToGroup(y), key')
      BY <2>1, <2>2, EncodingAssumption
    <3> QED BY <2>1, <2>2, <3>1, KeyIsInjective
  <2>3. CASE HashToGroup(x) = HashToGroup(y)
    BY <2>3
  <2> QED BY <2>2, <2>3
<1> HIDE DEF f
<1> QED BY <1>1, <1>2, <1>3 DEF Prf!Key, Prf!Faithful, Consumed, InCall, f

\* A blind appended to the pool is fresh.
LEMMA PrepareRefines == IInv /\ PrepareBlind => Prf!Next
<1> SUFFICES ASSUME IInv, PrepareBlind PROVE Prf!Next
  OBVIOUS
<1> DEFINE b == Len(pool) + 1
<1>1. PICK s \in RandomScalar :
        pool' = Append(pool, [scalar |-> s, inverse |-> InvMod(s),
                              consumed |-> FALSE])
  BY DEF PrepareBlind
<1> DEFINE new == [scalar |-> s, inverse |-> InvMod(s), consumed |-> FALSE]
<1>2. pool \in Seq(Blind) /\ Len(pool) \in Nat
  BY DEF IInv, TypeOK
<1>3. /\ DOMAIN pool = 1 .. Len(pool)
      /\ DOMAIN pool' = DOMAIN pool \cup {b}
      /\ \A d \in DOMAIN pool : pool'[d] = pool[d]
      /\ pool'[b] = new
      /\ b \notin DOMAIN pool
  <2> HIDE DEF new
  <2> QED BY <1>1, <1>2 DEF new
<1>4. UNCHANGED <<key, call, outcome>> /\ key # 0 /\ call = Idle
      /\ Len(pool) < PoolSize
  BY DEF PrepareBlind, Ready
<1>5. b \in 1 .. PoolSize
  BY <1>2, <1>4, EncodingAssumption
<1>6. ~pool'[b].consumed
  BY <1>3
<1> HIDE DEF b, new
<1>7. Consumed' = Consumed /\ Consumed \subseteq DOMAIN pool
  BY <1>3, <1>6 DEF Consumed
<1>8. InCall' = InCall /\ InCall = {}
  BY <1>4 DEF InCall
<1>9. Prf!Prepare(b)
  BY <1>3, <1>4, <1>7, <1>8 DEF Prf!Prepare
<1> QED BY <1>5, <1>9 DEF Prf!Next

\* The blind of a call in progress still counts as fresh: sending is a stutter.
LEMMA SendRefines ==
  ASSUME IInv, NEW x \in Inputs, NEW b \in DOMAIN pool, SendRequest(x, b)
  PROVE  UNCHANGED Prf!vars
<1>1. /\ key' = key /\ outcome' = outcome
      /\ call = Idle
      /\ ~pool[b].consumed
      /\ pool' = [pool EXCEPT ![b].consumed = TRUE]
      /\ call'.step = "owner" /\ call'.blind = b
  BY DEF SendRequest, Ready
<1>2. call' # Idle
  BY <1>1 DEF Idle
<1>3. InCall = {} /\ InCall' = {b}
  BY <1>1, <1>2 DEF InCall
<1>4. pool[b] \in Blind
  BY SeqElement DEF IInv, TypeOK
<1>5. /\ DOMAIN pool' = DOMAIN pool
      /\ pool'[b].consumed
      /\ \A d \in DOMAIN pool : d # b => pool'[d] = pool[d]
  <2> DEFINE spent == [pool[b] EXCEPT !.consumed = TRUE]
  <2>1. pool' = [pool EXCEPT ![b] = spent] /\ spent.consumed
    BY <1>1, <1>4 DEF Blind
  <2>2. pool \in Seq(Blind)
    BY DEF IInv, TypeOK
  <2> HIDE DEF spent
  <2> QED BY <2>1, <2>2
<1>6. Consumed' = Consumed \cup {b} /\ b \notin Consumed
  BY <1>1, <1>5 DEF Consumed
<1>7. Consumed' \ InCall' = Consumed \ InCall
  BY <1>3, <1>6
<1> QED BY <1>1, <1>5, <1>7 DEF Prf!vars

\* So is the owner's step.
LEMMA RespondRefines == IInv /\ Respond => UNCHANGED Prf!vars
<1> SUFFICES ASSUME IInv, Respond PROVE UNCHANGED Prf!vars
  OBVIOUS
<1>1. /\ call.step = "owner"
      /\ call' = [call EXCEPT !.step = "unblind", !.value = Power(@, key)]
      /\ UNCHANGED <<key, pool, wire, outcome>>
  BY DEF Respond
<1>2. /\ call # Idle
      /\ call \in [step : {"owner", "unblind"}, input : Inputs,
                   blind : DOMAIN pool, value : Elements]
  BY <1>1 DEF IInv, TypeOK, Idle
<1>3. call'.step = "unblind" /\ call'.blind = call.blind
  BY <1>1, <1>2
<1>4. InCall' = InCall
  BY <1>2, <1>3 DEF InCall, Idle
<1>5. Consumed' = Consumed
  BY <1>1 DEF Consumed
<1> QED BY <1>1, <1>4, <1>5 DEF Prf!vars

\* The answer spends the blind and is the function's value.
LEMMA UnblindRefines == IInv /\ Unblind => Prf!Next
<1> SUFFICES ASSUME IInv, Unblind PROVE Prf!Next
  OBVIOUS
<1> DEFINE b == call.blind
           x == call.input
<1>1. /\ call # Idle /\ x \in Inputs /\ b \in DOMAIN pool
      /\ pool[b].consumed
      /\ outcome' = <<"value", x, ToBigEndian(Power(HashToGroup(x), key))>>
  BY UnblindReturnsDirect
<1>2. call' = Idle /\ UNCHANGED <<key, pool>>
  BY DEF Unblind
<1>3. DOMAIN pool \subseteq 1 .. PoolSize
  <2>1. pool \in Seq(Blind) /\ Len(pool) <= PoolSize
    BY DEF IInv, TypeOK, PoolBounded
  <2> QED BY <2>1, EncodingAssumption
<1> HIDE DEF b, x
<1>4. InCall = {b} /\ InCall' = {}
  BY <1>1, <1>2 DEF InCall, b
<1>5. Consumed' = Consumed /\ b \in Consumed
  BY <1>1, <1>2 DEF Consumed
<1>6. Prf!Interactive(x, b)
  <2>1. b \in DOMAIN pool \ (Consumed \ InCall)
    BY <1>1, <1>4
  <2>2. DOMAIN pool' \ (Consumed' \ InCall')
          = (DOMAIN pool \ (Consumed \ InCall)) \ {b}
    BY <1>2, <1>4, <1>5
  <2>3. Consumed' \ InCall' = (Consumed \ InCall) \cup {b}
    BY <1>4, <1>5
  <2>4. key # 0
    BY <1>1 DEF IInv, CallComputed
  <2> QED BY <1>1, <1>2, <2>1, <2>2, <2>3, <2>4 DEF Prf!Interactive
<1> QED BY <1>1, <1>3, <1>6 DEF Prf!Next

\* Each step is one of ObliviousPrf or a stutter.
LEMMA StepRefines == IInv /\ [Next]_vars => [Prf!Next]_(Prf!vars)
<1> SUFFICES ASSUME IInv, [Next]_vars PROVE [Prf!Next]_(Prf!vars)
  OBVIOUS
<1>0. DOMAIN pool \subseteq 1 .. PoolSize
  <2>1. pool \in Seq(Blind) /\ Len(pool) <= PoolSize
    BY DEF IInv, TypeOK, PoolBounded
  <2> QED BY <2>1, EncodingAssumption
<1>1. CASE GenerateKey
  BY <1>1, KeyRefines, RandomScalarRange DEF GenerateKey, Prf!Next
<1>2. ASSUME NEW s \in ScalarDraws, SetKey(s) PROVE Prf!Next
  <2>1. s \in Scalars
    BY <1>2, GroupAssumption DEF SetKey, Scalars
  <2> QED BY <1>2, <2>1, KeyRefines DEF SetKey, Prf!Next
<1>3. ASSUME NEW s \in ScalarDraws, RejectKey(s) PROVE Prf!Next
  <2>1. Prf!RejectKey
    BY <1>3 DEF RejectKey, Prf!RejectKey, Consumed, InCall
  <2> QED BY <2>1 DEF Prf!Next
<1>4. CASE PrepareBlind
  BY <1>4, PrepareRefines
<1>5. ASSUME NEW x \in Inputs, DirectEvaluate(x) PROVE Prf!Next
  <2>1. Prf!Direct(x)
    BY <1>5 DEF DirectEvaluate, Ready, Prf!Direct, Consumed, InCall
  <2> QED BY <2>1 DEF Prf!Next
<1>6. ASSUME NEW b \in DOMAIN pool, RefuseReused(b) PROVE Prf!Next
  <2>1. Prf!Reused(b)
    BY <1>6 DEF RefuseReused, Ready, Prf!Reused, Consumed, InCall
  <2> QED BY <1>0, <2>1 DEF Prf!Next
<1>7. ASSUME NEW x \in Inputs, NEW b \in DOMAIN pool, SendRequest(x, b)
      PROVE  UNCHANGED Prf!vars
  BY <1>7, SendRefines
<1>8. CASE Respond
  BY <1>8, RespondRefines
<1>9. CASE Unblind
  BY <1>9, UnblindRefines
<1>10. CASE UNCHANGED vars
  BY <1>10 DEF vars, Prf!vars, Consumed, InCall
<1> QED BY <1>1, <1>2, <1>3, <1>4, <1>5, <1>6, <1>7, <1>8, <1>9, <1>10 DEF Next

\* Direct and interactive evaluation are one fixed function, and a blind
\* serves once, in every group of prime order and for every pool.
THEOREM RefinesPrf == Spec => ImplementsPrf
<1>1. Init => Prf!Init
  BY InitRefines
<1>2. IInv /\ [Next]_vars => [Prf!Next]_(Prf!vars)
  BY StepRefines
<1> QED BY <1>1, <1>2, InvariantHolds, PTL DEF Spec, ImplementsPrf, Prf!Spec
=============================================================================
