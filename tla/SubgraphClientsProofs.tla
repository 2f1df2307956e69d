----------------------- MODULE SubgraphClientsProofs -----------------------
(***************************************************************************)
(* Theorems about SubgraphClients, for any accounts, subgraphs, stakes,    *)
(* networks, block numbers, lengths of answers and monotone rounding.      *)
(***************************************************************************)
EXTENDS SubgraphClients, FiniteSetTheorems, WellFoundedInduction, TLAPS

Steps == {"build", "sent", "replied", "done"}
Results == {"none", "ok", "panic", "Transport", "IndexingError", "Other", "ParseResponseError"}

TypeOK == /\ client \in Clients
          /\ asked \in Arguments(client)
          /\ step \in Steps
          /\ result \in Results
          /\ step = "replied" \/ result = "ok" =>
               reply \in [errors : Errors, data : Data(client) \cup {NoData}]

(* A query has a result exactly when it is done; a value was extracted     *)
(* from data of a reply that this client does not reject for its errors,   *)
(* and a panic is the conversion of an argument or an empty list.          *)
Settled == step = "done" <=> result # "none"
Extracted == result = "ok" => /\ ~looks_at_errors(reply)
                              /\ reply.data # NoData
                              /\ has_value(reply.data)
Panicked == result = "panic" => \/ client = "block_hash" /\ ~fits(asked)
                                \/ looks_at_errors(reply) /\ reply.errors = "empty"

IInv == TypeOK /\ Settled /\ Extracted /\ Panicked

-----------------------------------------------------------------------------
(* Every query begins without a result.                                    *)
LEMMA InitIInv == Init => IInv
BY DEF Init, IInv, TypeOK, Steps, Results, Settled, Extracted, Panicked

(* A query ends with a value only by Extract, and panics only by Build and *)
(* CheckErrors.                                                            *)
LEMMA InvStep == IInv /\ [Next]_vars => IInv'
<1> SUFFICES ASSUME IInv, [Next]_vars PROVE IInv'
  OBVIOUS
<1> USE DEF IInv, TypeOK, Steps, Results, Settled, Extracted, Panicked
<1>1. CASE Build
  BY <1>1 DEF Build, Return
<1>2. CASE Transport
  BY <1>2 DEF Transport, Return
<1>3. CASE Reply
  BY <1>3 DEF Reply
<1>4. CASE CheckErrors
  BY <1>4 DEF CheckErrors, Return, looks_at_errors
<1>5. CASE CheckData
  BY <1>5 DEF CheckData, Return
<1>6. CASE Extract
  BY <1>6 DEF Extract, Return, looks_at_errors, has_value, has_account, has_hash
<1>7. CASE UNCHANGED vars
  BY <1>7 DEF vars, looks_at_errors, has_value, has_account, has_hash
<1> QED
  BY <1>1, <1>2, <1>3, <1>4, <1>5, <1>6, <1>7 DEF Next

LEMMA Invariance == Spec => []IInv
<1>1. IInv /\ [Next]_vars => IInv'
  BY InvStep
<1> QED BY InitIInv, <1>1, PTL DEF Spec

(* Every variable of a query stays in its range.                           *)
THEOREM TypeCorrect == Spec => []TypeOK
BY Invariance, PTL DEF IInv

(* Data beside errors is never an answer of the network subgraph, and      *)
(* every panic is one of the two that the code allows.                     *)
THEOREM NoAnswerWithErrors == Spec => []NoAnswerBesideErrors
<1>1. IInv => NoAnswerBesideErrors
  <2> SUFFICES ASSUME IInv PROVE NoAnswerBesideErrors
    OBVIOUS
  <2>1. result = "ok" /\ client \in OfNetworkSubgraph => reply.errors = "absent"
    BY DEF IInv, Extracted, looks_at_errors
  <2>2. ASSUME client = "block_hash", ~fits(asked) PROVE asked > MaxI64
    <3>1. asked \in Nat
      BY <2>2, BlocksAssumption DEF IInv, TypeOK, Arguments
    <3> QED BY <2>2, <3>1, BlocksAssumption DEF fits
  <2> QED BY <2>1, <2>2 DEF NoAnswerBesideErrors, IInv, Panicked, looks_at_errors
<1> QED BY <1>1, Invariance, PTL

-----------------------------------------------------------------------------
(* The natural numbers are well founded.                                   *)
LEMMA LeastElement ==
  ASSUME NEW S \in SUBSET Nat, S # {}
  PROVE  \E i \in S : \A j \in S : i <= j
<1> DEFINE R == OpToRel(<, Nat)
<1>1. IsWellFoundedOn(R, Nat)
  BY NatLessThanWellFounded
<1>2. \A i, j \in Nat : i < j => <<i, j>> \in R
  BY DEF OpToRel
<1> HIDE DEF R
<1>3. PICK i \in S : \A j \in S : ~(<<j, i>> \in R)
  BY <1>1, WFMin
<1>4. ASSUME NEW j \in S PROVE i <= j
  <2>1. i \in Nat /\ j \in Nat /\ ~(j < i)
    BY <1>2, <1>3
  <2> QED BY <2>1
<1> QED BY <1>4

(* Induction, with the set of the numbers that have the property.          *)
LEMMA Induction ==
  ASSUME NEW S, 0 \in S, \A k \in Nat : k \in S => k + 1 \in S
  PROVE  Nat \subseteq S
<1> DEFINE T == Nat \ S
<1> SUFFICES ASSUME T # {} PROVE FALSE
  OBVIOUS
<1>1. PICK i \in T : \A j \in T : i <= j
  BY LeastElement
<1> QED BY <1>1, i - 1 \in Nat \/ i = 0

(* A bounded set of numbers has a greatest element: the one nearest to the *)
(* bound.                                                                  *)
LEMMA GreatestElement ==
  ASSUME NEW n \in Nat, NEW S \in SUBSET (0 .. n), S # {}
  PROVE  \E i \in S : \A j \in S : j <= i
<1> DEFINE T == {n - i : i \in S}
<1>1. T \subseteq Nat /\ T # {}
  <2>1. \A i \in S : n - i \in Nat
    OBVIOUS
  <2>2. PICK i \in S : TRUE
    OBVIOUS
  <2>3. n - i \in T
    BY <2>2
  <2> QED BY <2>1, <2>3
<1>2. PICK d \in T : \A e \in T : d <= e
  <2> HIDE DEF T
  <2> QED BY <1>1, LeastElement
<1>3. PICK i \in S : d = n - i
  BY <1>2
<1>4. ASSUME NEW j \in S PROVE j <= i
  <2>1. n - i <= n - j
    BY <1>2, <1>3
  <2>2. i \in 0 .. n /\ j \in 0 .. n
    OBVIOUS
  <2> QED BY <2>1, <2>2
<1> QED BY <1>4

-----------------------------------------------------------------------------
(* Power is the function that its recursive definition says: for every     *)
(* bound there is one.                                                     *)
LEMMA PowerDefined == Power = [k \in 0 .. Decimals |-> IF k = 0 THEN 1 ELSE 10 * Power[k - 1]]
<1> DEFINE Def(n, f) == f = [k \in 0 .. n |-> IF k = 0 THEN 1 ELSE 10 * f[k - 1]]
           S == {n \in Nat : \E f : Def(n, f)}
<1>1. 0 \in S
  <2>1. Def(0, [k \in 0 .. 0 |-> 1])
    OBVIOUS
  <2> QED BY <2>1
<1>2. ASSUME NEW n \in Nat, n \in S PROVE n + 1 \in S
  <2>1. PICK f : Def(n, f)
    BY <1>2
  <2>2. Def(n + 1, [k \in 0 .. n + 1 |-> IF k = n + 1 THEN 10 * f[n] ELSE f[k]])
    BY <2>1
  <2> HIDE DEF Def
  <2> QED BY <2>2
<1>3. Decimals \in S
  <2> HIDE DEF S
  <2> QED BY <1>1, <1>2, Induction, AmountsAssumption
<1>4. \E f : Def(Decimals, f)
  BY <1>3
<1> QED BY <1>4 DEF Power

LEMMA PowerStep ==
  /\ Power[0] = 1
  /\ \A k \in 1 .. Decimals : Power[k] = 10 * Power[k - 1]
<1>1. \A k \in 0 .. Decimals : Power[k] = IF k = 0 THEN 1 ELSE 10 * Power[k - 1]
  BY PowerDefined
<1> QED BY <1>1, AmountsAssumption

LEMMA PowerPositive == \A k \in 0 .. Decimals : Power[k] \in Nat \ {0}
<1> DEFINE S == {k \in Nat : k <= Decimals => Power[k] \in Nat \ {0}}
<1>1. 0 \in S
  BY PowerStep
<1>2. ASSUME NEW k \in Nat, k \in S PROVE k + 1 \in S
  <2> SUFFICES ASSUME k + 1 <= Decimals PROVE Power[k + 1] \in Nat \ {0}
    OBVIOUS
  <2>1. k + 1 \in 1 .. Decimals /\ (k + 1) - 1 = k /\ Power[k] \in Nat \ {0}
    BY <1>2, AmountsAssumption
  <2> QED BY <2>1, PowerStep
<1>3. Nat \subseteq S
  <2> HIDE DEF S
  <2> QED BY <1>1, <1>2, Induction
<1> QED BY <1>3, AmountsAssumption

(* Digits before and after the point make up a GRT.                        *)
LEMMA PowerSplit == \A k \in 0 .. Decimals : Power[k] * Power[Decimals - k] = GRT
<1> DEFINE S == {k \in Nat : k <= Decimals => Power[k] * Power[Decimals - k] = GRT}
<1>1. 0 \in S
  BY PowerStep, PowerPositive, AmountsAssumption DEF GRT
<1>2. ASSUME NEW k \in Nat, k \in S PROVE k + 1 \in S
  <2> SUFFICES ASSUME k + 1 <= Decimals
               PROVE  Power[k + 1] * Power[Decimals - (k + 1)] = GRT
    OBVIOUS
  <2> DEFINE p == Power[k]
             q == Power[Decimals - (k + 1)]
  <2>1. k + 1 \in 1 .. Decimals /\ (k + 1) - 1 = k
    BY AmountsAssumption
  <2>2. Decimals - k \in 1 .. Decimals /\ (Decimals - k) - 1 = Decimals - (k + 1)
    BY AmountsAssumption
  <2>3. Power[k + 1] = 10 * p /\ Power[Decimals - k] = 10 * q
    BY <2>1, <2>2, PowerStep
  <2>4. p \in Nat /\ q \in Nat
    BY <2>1, <2>2, PowerPositive, AmountsAssumption
  <2>5. p * (10 * q) = GRT
    BY <1>2, <2>3, AmountsAssumption
  <2> HIDE DEF p, q
  <2>6. (10 * p) * q = p * (10 * q)
    BY <2>4
  <2> QED BY <2>3, <2>5, <2>6 DEF q
<1>3. Nat \subseteq S
  <2> HIDE DEF S
  <2> QED BY <1>1, <1>2, Induction
<1> QED BY <1>3, AmountsAssumption

-----------------------------------------------------------------------------
Distance(x, y) == IF x <= y THEN y - x ELSE x - y

(* F32Assumption is what parse::<f32> gives: a choice of the nearest among *)
(* the floating point numbers, with ties either way, keeps the order.  An  *)
(* amount is worth `unit' of the fractions that floats are multiples of.   *)
THEOREM NearestKeepsOrder ==
  ASSUME NEW Floats \in SUBSET Nat, NEW unit \in Nat \ {0},
         NEW nearest \in [0 .. MaxAmount -> Floats],
         \A x \in 0 .. MaxAmount : \A f \in Floats :
           Distance(nearest[x], x * unit) <= Distance(f, x * unit)
  PROVE  /\ nearest \in [0 .. MaxAmount -> Nat]
         /\ \A x \in 1 .. MaxAmount : nearest[x - 1] <= nearest[x]
<1> SUFFICES ASSUME NEW x \in 1 .. MaxAmount PROVE nearest[x - 1] <= nearest[x]
  OBVIOUS
<1> DEFINE p == nearest[x - 1]
           q == nearest[x]
           u == (x - 1) * unit
           v == x * unit
<1>1. x - 1 \in 0 .. MaxAmount /\ x \in 0 .. MaxAmount
  BY AmountsAssumption
<1>2. p \in Floats /\ q \in Floats /\ p \in Nat /\ q \in Nat
  BY <1>1
<1>3. u \in Nat /\ v \in Nat /\ u < v
  <2>1. x - 1 \in Nat /\ x \in Nat /\ v = u + unit
    BY <1>1
  <2> QED BY <2>1
<1>4. Distance(p, u) <= Distance(q, u) /\ Distance(q, v) <= Distance(p, v)
  BY <1>1, <1>2
<1> HIDE DEF p, q, u, v
<1>5. p <= q
  BY <1>2, <1>3, <1>4 DEF Distance
<1> QED BY <1>5 DEF p, q

(* Rounding that keeps the order of neighbours keeps the order.            *)
LEMMA F32Monotone ==
  ASSUME NEW x \in 0 .. MaxAmount, NEW y \in 0 .. MaxAmount, x <= y
  PROVE  F32[x] <= F32[y]
<1> DEFINE S == {k \in Nat : x + k <= MaxAmount => F32[x] <= F32[x + k]}
<1>1. 0 \in S
  <2>1. F32[x] \in Nat /\ x + 0 = x
    BY F32Assumption
  <2> QED BY <2>1
<1>2. ASSUME NEW k \in Nat, k \in S PROVE k + 1 \in S
  <2> SUFFICES ASSUME x + (k + 1) <= MaxAmount PROVE F32[x] <= F32[x + (k + 1)]
    OBVIOUS
  <2>1. x + (k + 1) \in 1 .. MaxAmount /\ x + k \in 0 .. MaxAmount
    BY AmountsAssumption
  <2>2. (x + (k + 1)) - 1 = x + k
    OBVIOUS
  <2>3. F32[x + k] <= F32[x + (k + 1)]
    BY <2>1, <2>2, F32Assumption
  <2>4. F32[x] <= F32[x + k]
    BY <1>2, <2>1, AmountsAssumption
  <2>5. F32[x] \in Nat /\ F32[x + k] \in Nat /\ F32[x + (k + 1)] \in Nat
    BY <2>1, AmountsAssumption, F32Assumption
  <2> QED BY <2>3, <2>4, <2>5
<1>3. y - x \in S
  <2>1. y - x \in Nat
    OBVIOUS
  <2> HIDE DEF S
  <2> QED BY <1>1, <1>2, <2>1, Induction
<1>4. x + (y - x) = y /\ y <= MaxAmount
  BY AmountsAssumption
<1> QED BY <1>3, <1>4

LEMMA GRTType == GRT \in Nat \ {0} /\ GRT \in 0 .. MaxAmount
BY PowerPositive, AmountsAssumption DEF GRT

(* A short amount has a number of digits.                                  *)
LEMMA DigitsDefined ==
  ASSUME NEW a \in Nat, a < GRT
  PROVE  digits(a) \in 1 .. Decimals /\ a < Power[digits(a)]
<1> DEFINE S == {k \in 1 .. Decimals : a < Power[k]}
<1>1. S \subseteq Nat /\ Decimals \in S
  BY AmountsAssumption DEF GRT
<1>2. PICK k \in S : \A l \in S : k <= l
  <2> HIDE DEF S
  <2> QED BY <1>1, LeastElement
<1>3. ASSUME NEW l \in 1 .. k - 1 PROVE a >= Power[l]
  <2>1. l \in 1 .. Decimals /\ ~(k <= l)
    BY AmountsAssumption
  <2>2. Power[l] \in Nat
    BY <2>1, PowerPositive
  <2> QED BY <1>2, <2>1, <2>2
<1>4. \E d \in 1 .. Decimals : a < Power[d] /\ \A l \in 1 .. d - 1 : a >= Power[l]
  BY <1>3
<1> QED BY <1>4 DEF digits

(* An amount of less than a GRT may be read as a larger one, but as less   *)
(* than a GRT and never as a smaller one; an amount of a GRT or more is    *)
(* read as it is.                                                          *)
THEOREM AddDecimal ==
  ASSUME NEW a \in Nat
  PROVE  /\ a < GRT => add_decimal(a) \in a .. GRT - 1
         /\ a >= GRT => add_decimal(a) = a
<1>1. ASSUME a < GRT PROVE add_decimal(a) \in a .. GRT - 1
  <2> DEFINE p == Power[digits(a)]
             q == Power[Decimals - digits(a)]
  <2>1. digits(a) \in 0 .. Decimals /\ Decimals - digits(a) \in 0 .. Decimals /\ a < p
    BY <1>1, DigitsDefined, AmountsAssumption
  <2>2. p \in Nat \ {0} /\ q \in Nat \ {0} /\ p * q = GRT
    BY <2>1, PowerPositive, PowerSplit
  <2>3. add_decimal(a) = a * q
    BY <1>1 DEF add_decimal
  <2> HIDE DEF p, q
  <2>4. a * q \in Nat /\ a * q < p * q /\ a <= a * q
    BY <2>1, <2>2
  <2> QED BY <2>2, <2>3, <2>4, GRTType
<1>2. ASSUME a >= GRT PROVE add_decimal(a) = a
  BY <1>2, GRTType DEF add_decimal
<1> QED BY <1>1, <1>2

(* An answer about stakes with a value has a minimum.                      *)
LEMMA NetworkData ==
  ASSUME IInv, Given("network")
  PROVE  /\ reply.data.minimum \in 0 .. MaxAmount
         /\ is_indexer(reply.data.indexer) =>
              reply.data.indexer.staked_tokens \in 0 .. MaxAmount
<1>1. reply.data \in [indexer : Maybe(Indexer), minimum : Amounts \cup {Unparsable}]
  BY DEF IInv, TypeOK, Given, Data, Extracted
<1>2. reply.data.minimum # Unparsable
  BY DEF IInv, Given, Extracted, has_value
<1> QED BY <1>1, <1>2, AmountsAssumption DEF Maybe, Indexer, is_indexer

(* The minimum stake passes, to the wei, whatever the decimals and the     *)
(* rounding.                                                               *)
THEOREM EnoughPasses == Spec => []EnoughStakePasses
<1>1. IInv => EnoughStakePasses
  <2> DEFINE min == reply.data.minimum
             staked == reply.data.indexer.staked_tokens
  <2> SUFFICES ASSUME IInv, Given("network"), min >= GRT,
                      is_indexer(reply.data.indexer), staked >= min
               PROVE  stake_satisfy_requirement(reply.data)
    BY DEF EnoughStakePasses
  <2>1. min \in 0 .. MaxAmount /\ staked \in 0 .. MaxAmount
    BY NetworkData
  <2>2. add_decimal(min) = min /\ add_decimal(staked) = staked
    <3>1. staked >= GRT /\ min \in Nat /\ staked \in Nat
      BY <2>1, GRTType, AmountsAssumption
    <3> QED BY <3>1, AddDecimal
  <2>3. F32[min] <= F32[staked]
    BY <2>1, F32Monotone
  <2>4. F32[min] \in Nat /\ F32[staked] \in Nat
    BY <2>1, F32Assumption
  <2> QED BY <2>2, <2>3, <2>4
          DEF stake_satisfy_requirement, indexer_stake, grt_gwei_string_to_f32
<1> QED BY <1>1, Invariance, PTL

(* Who passes a minimum of a GRT or more has it, as far as a floating      *)
(* point number can tell: a stake of less than a GRT, although it is read  *)
(* as a larger one, does not pass, nor does an incomplete entry.           *)
THEOREM ShortFails == Spec => []ShortStakeFails
<1>1. IInv => ShortStakeFails
  <2> DEFINE min == reply.data.minimum
             indexer == reply.data.indexer
             staked == indexer.staked_tokens
  <2> SUFFICES ASSUME IInv, Given("network"), min >= GRT, F32[min] > 0,
                      stake_satisfy_requirement(reply.data)
               PROVE  /\ is_indexer(indexer)
                      /\ staked >= min \/ F32[add_decimal(staked)] = F32[min]
    BY DEF ShortStakeFails
  <2>1. min \in 0 .. MaxAmount /\ add_decimal(min) = min
    <3>1. min \in 0 .. MaxAmount /\ min \in Nat
      BY NetworkData
    <3> QED BY <3>1, AddDecimal
  <2>2. F32[min] \in Nat /\ indexer_stake(indexer) >= F32[min]
    BY <2>1, F32Assumption DEF stake_satisfy_requirement, grt_gwei_string_to_f32
  <2>3. is_indexer(indexer)
    BY <2>2 DEF indexer_stake
  <2>4. ASSUME ~(staked >= min) PROVE F32[add_decimal(staked)] = F32[min]
    <3>1. staked \in 0 .. MaxAmount /\ staked \in Nat
      BY <2>3, NetworkData
    <3>2. add_decimal(staked) \in 0 .. MaxAmount /\ add_decimal(staked) <= min
      <4>1. CASE staked < GRT
        <5>1. add_decimal(staked) \in Nat /\ add_decimal(staked) < GRT
          BY <3>1, <4>1, AddDecimal, GRTType
        <5> QED BY <2>1, <5>1, GRTType, AmountsAssumption
      <4>2. CASE staked >= GRT
        <5>1. add_decimal(staked) = staked
          BY <3>1, <4>2, AddDecimal
        <5> QED BY <2>1, <2>4, <3>1, <5>1
      <4> QED BY <3>1, <4>1, <4>2, GRTType
    <3>3. F32[add_decimal(staked)] <= F32[min]
      BY <2>1, <3>2, F32Monotone
    <3>4. F32[add_decimal(staked)] >= F32[min]
      BY <2>2, <2>3 DEF indexer_stake, grt_gwei_string_to_f32
    <3>5. F32[add_decimal(staked)] \in Nat
      BY <3>2, F32Assumption
    <3> QED BY <2>2, <3>3, <3>4, <3>5
  <2> QED BY <2>3, <2>4
<1> QED BY <1>1, Invariance, PTL

-----------------------------------------------------------------------------
(* Of the entries that say something there is a first and a last one.      *)
LEMMA LeastIs ==
  ASSUME NEW S \in SUBSET Nat, S # {}
  PROVE  Least(S) \in S /\ \A i \in S : Least(S) <= i
BY LeastElement DEF Least

LEMMA GreatestIs ==
  ASSUME NEW n \in Nat, NEW S \in SUBSET (0 .. n), S # {}
  PROVE  Greatest(S) \in S /\ \A i \in S : i <= Greatest(S)
BY GreatestElement DEF Greatest

(* The head that network_chainheads keeps for the name of an entry that    *)
(* has one is not behind it, if the network has the name to itself.        *)
LEMMA HeadOfNetwork ==
  ASSUME NEW n \in Nat, NEW es \in [1 .. n -> Entry], Coherent(es),
         NEW i \in 1 .. n, es[i].chain_head_block # Nothing
  PROVE  LET name == from_string(es[i].network) IN
         /\ name \in DOMAIN network_chainheads(es)
         /\ network_chainheads(es)[name] \in Nat
         /\ SoleOfItsName(es, es[i].network) =>
              es[i].chain_head_block <= network_chainheads(es)[name]
<1> DEFINE name == from_string(es[i].network)
           named == heads_named(es, name)
           last == Greatest(named)
<1>1. i \in named /\ named \subseteq 0 .. n
  BY DEF heads_named, head_of
<1>2. last \in named /\ \A j \in named : j <= last
  BY <1>1, GreatestIs
<1>3. /\ last \in 1 .. n /\ i <= last
      /\ from_string(es[last].network) = name
      /\ es[last].chain_head_block # Nothing
  BY <1>1, <1>2 DEF heads_named, head_of
<1>4. name \in Supported \cup {Unknown}
  BY DEF from_string
<1>5. /\ name \in DOMAIN network_chainheads(es)
      /\ network_chainheads(es)[name] = number(es[last].chain_head_block)
  BY <1>1, <1>4 DEF network_chainheads, kept, head_of
<1>6. number(es[last].chain_head_block) = es[last].chain_head_block
  BY <1>3 DEF Coherent, number
<1>7. ASSUME SoleOfItsName(es, es[i].network)
      PROVE  es[i].chain_head_block <= es[last].chain_head_block
  <2>1. es[last].network = es[i].network
    BY <1>3, <1>7 DEF SoleOfItsName
  <2> HIDE DEF last
  <2> QED BY <1>3, <2>1 DEF Coherent
<1>8. es[last].chain_head_block \in Nat
  <2>1. es[last] \in Entry
    BY <1>3
  <2> HIDE DEF last
  <2> QED BY <1>3, <2>1, BlocksAssumption DEF Coherent, Entry, Maybe
<1> QED BY <1>5, <1>6, <1>7, <1>8

(* A network that from_string knows shares its NetworkName with no other.  *)
LEMMA SupportedIsSole ==
  ASSUME NEW n \in Nat, NEW es \in [1 .. n -> Entry], NEW network \in Supported
  PROVE  SoleOfItsName(es, network)
BY NetworksAssumption DEF SoleOfItsName, from_string

(* In an answer whose statuses were taken one after the other, of any      *)
(* length, every subgraph finds a head under the name of its network, and  *)
(* its block is not beyond it unless another network has that name too.    *)
THEOREM MapsFit == Spec => []BlocksFit
<1>1. IInv => BlocksFit
  <2> DEFINE es == reply.data
             heads == network_chainheads(es)
             blocks == subgraph_network_blocks(es)
             name(s) == from_string(blocks[s].network)
  <2> SUFFICES ASSUME IInv, Given("statuses"), Coherent(es), NEW s \in DOMAIN blocks
               PROVE  /\ name(s) \in DOMAIN heads
                      /\ blocks[s].network \in Supported \/ SoleOfItsName(es, blocks[s].network)
                           => blocks[s].block <= heads[name(s)]
    BY DEF BlocksFit
  <2>1. PICK n \in 0 .. MaxEntries : es \in [1 .. n -> Entry]
    BY DEF IInv, TypeOK, Given, Data, Extracted
  <2> DEFINE latest == {i \in DOMAIN es : es[i].subgraph = s /\ es[i].latest_block # Nothing}
             first == Least(latest)
  <2>2. latest # {} /\ blocks[s] = [network |-> es[first].network,
                                    block |-> number(es[first].latest_block)]
    BY DEF subgraph_network_blocks
  <2>3. first \in latest
    <3>1. latest \subseteq Nat
      BY <2>1
    <3> HIDE DEF latest
    <3> QED BY <2>2, <3>1, LeastIs
  <2>4. first \in 1 .. n /\ es[first].latest_block # Nothing
    BY <2>1, <2>3
  <2> HIDE DEF first, es
  <2>5. /\ es[first].chain_head_block \in Blocks
        /\ number(es[first].latest_block) <= es[first].chain_head_block
        /\ number(es[first].latest_block) \in Nat
    <3>1. es[first] \in Entry
      BY <2>1, <2>4
    <3> QED BY <2>1, <2>4, <3>1, BlocksAssumption DEF Coherent, Entry, Maybe, number
  <2>6. /\ from_string(es[first].network) \in DOMAIN heads
        /\ heads[from_string(es[first].network)] \in Nat
        /\ SoleOfItsName(es, es[first].network) =>
             es[first].chain_head_block <= heads[from_string(es[first].network)]
    BY <2>1, <2>4, <2>5, BlocksAssumption, HeadOfNetwork
  <2>7. es[first].network \in Supported => SoleOfItsName(es, es[first].network)
    BY <2>1, SupportedIsSole
  <2> HIDE DEF heads, blocks
  <2>8. /\ blocks[s].network = es[first].network
        /\ blocks[s].block = number(es[first].latest_block)
    BY <2>2
  <2>9. ASSUME SoleOfItsName(es, es[first].network)
        PROVE  blocks[s].block <= heads[from_string(es[first].network)]
    <3>1. es[first].chain_head_block \in Nat
      BY <2>5, BlocksAssumption
    <3>2. es[first].chain_head_block <= heads[from_string(es[first].network)]
      BY <2>6, <2>9
    <3> QED BY <2>5, <2>6, <2>8, <3>1, <3>2
  <2> QED BY <2>6, <2>7, <2>8, <2>9
<1> QED BY <1>1, Invariance, PTL
=============================================================================
