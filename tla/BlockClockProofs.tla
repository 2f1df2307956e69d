-------------------------- MODULE BlockClockProofs --------------------------
(***************************************************************************)
(* Type correctness of BlockClock, and that radios whose graph nodes see   *)
(* heads of one interval speak about the same block, for any networks,     *)
(* intervals and radios and chains of any length.                          *)
(***************************************************************************)
EXTENDS BlockClock, FiniteSetTheorems, WellFoundedInduction, TLAPS

USE NetworksAssumption, IntervalAssumption, HeadsAssumption, ResultsAssumption

(* Rounding down, in terms of the interval that a block lies in.           *)
LEMMA RoundedIs ==
  ASSUME NEW b \in Nat, NEW i \in Nat \ {0}
  PROVE /\ rounded(b, i) \in Nat
        /\ rounded(b, i) = i * (b \div i)
        /\ rounded(b, i) <= b
        /\ b < rounded(b, i) + i
        /\ b \div i \in Nat
BY DEF rounded

(* Blocks are rounded to the same one exactly within an interval.          *)
LEMMA RoundedAgree ==
  ASSUME NEW a \in Nat, NEW b \in Nat, NEW i \in Nat \ {0}
  PROVE rounded(a, i) = rounded(b, i) <=> a \div i = b \div i
<1> DEFINE p == a \div i
           q == b \div i
<1>1. p \in Nat /\ q \in Nat /\ rounded(a, i) = i * p /\ rounded(b, i) = i * q
  BY RoundedIs
<1> HIDE DEF p, q
<1>2. p = q => i * p = i * q
  OBVIOUS
<1>3. ASSUME p # q PROVE i * p # i * q
  <2>1. CASE p < q
    <3>1. i * (q - p) >= 1 BY <1>1, <2>1
    <3> QED BY <1>1, <3>1
  <2>2. CASE q < p
    <3>1. i * (p - q) >= 1 BY <1>1, <2>2
    <3> QED BY <1>1, <3>1
  <2> QED BY <1>1, <1>3, <2>1, <2>2
<1> QED BY <1>1, <1>2, <1>3 DEF p, q

(* Heads less than an interval apart.                                      *)
LEMMA RoundedClose ==
  ASSUME NEW a \in Nat, NEW b \in Nat, NEW i \in Nat \ {0}, a <= b, b < a + i
  PROVE rounded(b, i) \in {rounded(a, i), rounded(a, i) + i}
<1> DEFINE p == a \div i
           q == b \div i
<1>1. /\ p \in Nat /\ q \in Nat /\ rounded(a, i) = i * p /\ rounded(b, i) = i * q
      /\ i * p <= a /\ a < i * p + i /\ i * q <= b /\ b < i * q + i
  BY RoundedIs
<1> HIDE DEF p, q
<1>2. i * (q + 1) > i * p /\ i * q < i * (p + 2)
  BY <1>1
<1>3. q + 1 > p
  <2>1. ASSUME q + 1 <= p PROVE FALSE
    <3>1. i * (p - (q + 1)) >= 0 BY <1>1, <2>1
    <3> QED BY <1>1, <1>2, <3>1
  <2> QED BY <1>1, <2>1
<1>4. q < p + 2
  <2>1. ASSUME q >= p + 2 PROVE FALSE
    <3>1. i * (q - (p + 2)) >= 0 BY <1>1, <2>1
    <3> QED BY <1>1, <1>2, <3>1
  <2> QED BY <1>1, <2>1
<1>5. CASE q = p BY <1>1, <1>5
<1>6. CASE q = p + 1
  <2>1. i * q = i * p + i BY <1>1, <1>6
  <2> QED BY <1>1, <2>1
<1> QED BY <1>1, <1>3, <1>4, <1>5, <1>6

(* A higher head is not rounded to a lower block.                          *)
LEMMA RoundedMonotone ==
  ASSUME NEW a \in Nat, NEW b \in Nat, NEW i \in Nat \ {0}, a <= b
  PROVE rounded(a, i) <= rounded(b, i)
<1> DEFINE p == a \div i
           q == b \div i
<1>1. /\ p \in Nat /\ q \in Nat /\ rounded(a, i) = i * p /\ rounded(b, i) = i * q
      /\ i * p <= a /\ b < i * q + i
  BY RoundedIs
<1> HIDE DEF p, q
<1>2. p <= q
  <2>1. ASSUME p >= q + 1 PROVE FALSE
    <3>1. i * (p - (q + 1)) >= 0 BY <1>1, <2>1
    <3> QED BY <1>1, <3>1
  <2> QED BY <1>1, <2>1
<1>3. i * (q - p) >= 0
  BY <1>1, <1>2
<1> QED BY <1>1, <1>3

-----------------------------------------------------------------------------
(* Among the statuses that report a head for a network there is a last.    *)
LEMMA LastReporting ==
  ASSUME NEW k \in Nat, NEW T \in SUBSET (1 .. k), T # {}
  PROVE \E i \in T : \A j \in T : j <= i
<1> DEFINE After(i) == (i + 1) .. k
           F == {After(i) : i \in T}
           R == StrictSubsetOrdering(1 .. k)
<1>1. IsFiniteSet(1 .. k)
  BY FS_Interval
<1>2. IsWellFoundedOn(R, SUBSET (1 .. k))
  BY <1>1, FS_StrictSubsetOrderingWellFounded, FS_FiniteSubsetsOfFinite
<1>3. F \subseteq SUBSET (1 .. k) /\ F # {}
  <2>1. \A i \in T : After(i) \in SUBSET (1 .. k)
    OBVIOUS
  <2>2. PICK i \in T : TRUE
    OBVIOUS
  <2> HIDE DEF After
  <2>3. F \subseteq SUBSET (1 .. k)
    BY <2>1
  <2>4. After(i) \in F
    BY <2>2
  <2> QED BY <2>3, <2>4
<1>4. \E x \in F : \A y \in F : ~(<<y, x>> \in R)
  <2> HIDE DEF F, R
  <2> QED BY <1>2, <1>3, WFMin
<1>5. PICK i \in T : \A j \in T : ~(<<After(j), After(i)>> \in R)
  BY <1>4
<1>6. ASSUME NEW j \in T, ~(j <= i) PROVE FALSE
  <2>1. j \in After(i) /\ j \notin After(j) /\ After(j) \subseteq After(i)
    BY <1>6
  <2>2. After(i) \subseteq 1 .. k /\ After(j) \subseteq 1 .. k
    OBVIOUS
  <2> HIDE DEF After
  <2> QED BY <1>5, <2>1, <2>2 DEF StrictSubsetOrdering
<1> QED BY <1>6

(* What update_network_chainheads makes of an answer.                      *)
HeadOf(r, n) == {followed[r][n], 0, NoHead}

(* What it returns for a listed network is where the radio's node stands,  *)
(* 0 if that was not a number, or no head.                                 *)
LEMMA UpdatedHeads ==
  ASSUME NEW r \in Radios, followed \in [Radios -> [Networks -> Blocks]],
         NEW ss \in Statuses(r), NEW name \in NetworkNames
  PROVE LET head == update_network_chainheads(ss)[name]
        IN  /\ head \in Heads
            /\ name \in Supported => head \in HeadOf(r, name)
<1> DEFINE reporting == Reporting(ss, name)
           last == CHOOSE i \in reporting : \A j \in reporting : j <= i
<1>1. PICK k \in 0 .. MaxStatuses : ss \in [1 .. k -> Status(r)]
  BY DEF Statuses
<1>2. CASE reporting = {}
  BY <1>2 DEF update_network_chainheads, Heads, HeadOf
<1>3. CASE reporting # {}
  <2>1. reporting \in SUBSET (1 .. k) /\ k \in Nat
    BY <1>1 DEF Reporting
  <2>2. last \in reporting
    <3>1. \E i \in reporting : \A j \in reporting : j <= i
      <4> HIDE DEF reporting
      <4> QED BY <2>1, <1>3, LastReporting
    <3> QED BY <3>1
  <2>3. /\ ss[last] \in Status(r)
        /\ from_string(ss[last].network) = name
        /\ ss[last].head # NoHead
    BY <1>1, <2>1, <2>2 DEF Reporting
  <2>4. PICK n \in Networks : /\ ss[last].network = n
                              /\ ss[last].head \in {followed[r][n], NoHead, Unparsable}
    <3>1. \E n \in Networks :
             ss[last] \in [network : {n}, head : {followed[r][n], NoHead, Unparsable}]
      <4> HIDE DEF last
      <4> QED BY <2>3 DEF Status
    <3> HIDE DEF last
    <3> QED BY <3>1
  <2>5. update_network_chainheads(ss)[name] = number(ss[last].head)
    BY <1>3 DEF update_network_chainheads
  <2>6. followed[r][n] \in Nat
    BY DEF Blocks
  <2>7. name \in Supported => n = name
    BY <2>3, <2>4 DEF from_string
  <2> HIDE DEF last, reporting
  <2> QED BY <2>3, <2>4, <2>5, <2>6, <2>7 DEF number, Heads, Blocks, HeadOf
<1> QED BY <1>2, <1>3

-----------------------------------------------------------------------------
(* The inductive invariant: nodes follow their chains, kept heads and      *)
(* heads used are at most what the node has reached, a head used is at     *)
(* most the one kept since unless that one could not be parsed, and an     *)
(* answer is the head used, rounded.                                       *)
NodesFollow == \A r \in Radios : \A n \in Networks : followed[r][n] <= chain[n]

HeadsReached ==
  \A r \in Radios : \A name \in Supported :
    /\ network_chainheads[r][name] \in Blocks =>
         network_chainheads[r][name] <= followed[r][name]
    /\ used[r][name] \in Blocks => used[r][name] <= followed[r][name]

UsedBeforeKept ==
  \A r \in Radios : \A name \in Supported :
    /\ used[r][name] \in Blocks
    /\ network_chainheads[r][name] \in Blocks
    /\ network_chainheads[r][name] # 0
    => used[r][name] <= network_chainheads[r][name]

AnswersRounded ==
  \A r \in Radios : \A name \in NetworkNames :
    Answered(r, name) =>
      /\ name \in Supported
      /\ used[r][name] \in Blocks
      /\ message_block[r][name] = rounded(used[r][name], Interval[name])

IInv == TypeOK /\ NodesFollow /\ HeadsReached /\ UsedBeforeKept /\ AnswersRounded

(* The invariant holds before any radio has asked its node.                *)
LEMMA InitIInv == Init => IInv
BY DEF Init, IInv, TypeOK, NodesFollow, HeadsReached, UsedBeforeKept, AnswersRounded,
       Answered, Blocks, Heads, Results, NetworkNames

(* determine_message_block returns a block or one of its two errors.       *)
LEMMA DeterminedType ==
  ASSUME NEW heads \in [NetworkNames -> Heads], NEW name \in NetworkNames
  PROVE LET b == determine_message_block(heads, name)
        IN  /\ b \in Results
            /\ b \in Blocks => /\ name \in Supported
                               /\ heads[name] \in Blocks
                               /\ b = rounded(heads[name], Interval[name])
<1>1. CASE name \in Supported /\ heads[name] # NoHead
  <2>1. heads[name] \in Nat /\ Interval[name] \in Nat \ {0}
    BY <1>1 DEF Heads, Blocks
  <2>2. rounded(heads[name], Interval[name]) \in Nat
    BY <2>1, RoundedIs
  <2> QED BY <1>1, <2>1, <2>2 DEF determine_message_block, Results, Blocks
<1>2. CASE ~(name \in Supported /\ heads[name] # NoHead)
  BY <1>2 DEF determine_message_block, Results, Blocks
<1> QED BY <1>1, <1>2

(* Every step of a chain, of a node or of a radio keeps the invariant.     *)
LEMMA NextIInv == IInv /\ [Next]_vars => IInv'
<1> SUFFICES ASSUME IInv, [Next]_vars PROVE IInv'
  OBVIOUS
<1> USE DEF IInv, TypeOK, NodesFollow, HeadsReached, UsedBeforeKept, AnswersRounded,
            Answered, Blocks, Heads
<1>1. ASSUME NEW n \in Networks, Mine(n) PROVE IInv'
  BY <1>1 DEF Mine
<1>2. ASSUME NEW r \in Radios, NEW n \in Networks, Follow(r, n) PROVE IInv'
  BY <1>2 DEF Follow
<1>3. ASSUME NEW r \in Radios, AskIndexingStatuses(r) PROVE IInv'
  <2>1. PICK ss \in Statuses(r) :
          network_chainheads' = [network_chainheads EXCEPT ![r] = update_network_chainheads(ss)]
    BY <1>3 DEF AskIndexingStatuses
  <2>2. UNCHANGED <<chain, followed, message_block, used>>
    BY <1>3 DEF AskIndexingStatuses
  <2>3. update_network_chainheads(ss) \in [NetworkNames -> Heads]
    <3>1. \A name \in NetworkNames : update_network_chainheads(ss)[name] \in Heads
      BY UpdatedHeads
    <3> QED BY <3>1 DEF update_network_chainheads
  <2>4. \A name \in Supported :
          update_network_chainheads(ss)[name] \in {followed[r][name], 0, NoHead}
    BY UpdatedHeads DEF NetworkNames, HeadOf
  <2>5. \A s \in Radios :
          network_chainheads'[s] = IF s = r THEN update_network_chainheads(ss)
                                   ELSE network_chainheads[s]
    BY <2>1
  <2>6. TypeOK'
    BY <2>1, <2>2, <2>3
  <2>7. \A s \in Radios : \A name \in Supported :
          \/ network_chainheads'[s][name] = network_chainheads[s][name]
          \/ network_chainheads'[s][name] \in {followed[s][name], 0, NoHead}
    BY <2>4, <2>5
  <2>8. HeadsReached' /\ UsedBeforeKept'
    <3> SUFFICES ASSUME NEW s \in Radios, NEW name \in Supported
                 PROVE /\ network_chainheads'[s][name] \in Nat =>
                            network_chainheads'[s][name] <= followed[s][name]
                       /\ used[s][name] \in Nat => used[s][name] <= followed[s][name]
                       /\ /\ used[s][name] \in Nat
                          /\ network_chainheads'[s][name] \in Nat
                          /\ network_chainheads'[s][name] # 0
                          => used[s][name] <= network_chainheads'[s][name]
      BY <2>2
    <3>1. followed[s][name] \in Nat
      OBVIOUS
    <3>2. CASE network_chainheads'[s][name] = network_chainheads[s][name]
      BY <3>2
    <3>3. CASE network_chainheads'[s][name] \in {followed[s][name], 0, NoHead}
      BY <3>1, <3>3
    <3> QED BY <2>7, <3>2, <3>3
  <2>9. NodesFollow' /\ AnswersRounded'
    BY <2>2
  <2> QED BY <2>6, <2>8, <2>9
<1>4. ASSUME NEW r \in Radios, NEW name \in NetworkNames, Determine(r, name) PROVE IInv'
  <2> DEFINE b == determine_message_block(network_chainheads[r], name)
  <2>1. /\ b \in Results
        /\ b \in Nat => /\ name \in Supported
                        /\ network_chainheads[r][name] \in Nat
                        /\ b = rounded(network_chainheads[r][name], Interval[name])
    BY DeterminedType
  <2>2. /\ message_block' = [message_block EXCEPT ![r][name] = b]
        /\ used' = [used EXCEPT ![r][name] = network_chainheads[r][name]]
        /\ UNCHANGED <<chain, followed, network_chainheads>>
    BY <1>4 DEF Determine
  <2> HIDE DEF b
  <2>3. \A s \in Radios : \A n \in NetworkNames :
          /\ message_block'[s][n] = IF s = r /\ n = name THEN b ELSE message_block[s][n]
          /\ used'[s][n] = IF s = r /\ n = name THEN network_chainheads[r][name]
                           ELSE used[s][n]
    BY <2>2
  <2>4. TypeOK'
    <3>1. network_chainheads[r][name] \in Heads
      OBVIOUS
    <3>2. /\ message_block[r] \in [NetworkNames -> Results]
          /\ used[r] \in [NetworkNames -> Heads]
      OBVIOUS
    <3>3. /\ [message_block[r] EXCEPT ![name] = b] \in [NetworkNames -> Results]
          /\ [used[r] EXCEPT ![name] = network_chainheads[r][name]] \in [NetworkNames -> Heads]
      BY <2>1, <3>1, <3>2
    <3>4. /\ message_block' = [message_block EXCEPT ![r] = [message_block[r] EXCEPT ![name] = b]]
          /\ used' = [used EXCEPT ![r] = [used[r] EXCEPT ![name] = network_chainheads[r][name]]]
      BY <2>2
    <3> QED BY <2>2, <3>3, <3>4
  <2>5. NodesFollow'
    BY <2>2
  <2>6. Supported \subseteq NetworkNames
    BY DEF NetworkNames
  <2>7. HeadsReached'
    BY <2>2, <2>3, <2>6
  <2>8. UsedBeforeKept'
    <3> SUFFICES ASSUME NEW s \in Radios, NEW n \in Supported,
                        used'[s][n] \in Nat, network_chainheads[s][n] \in Nat,
                        network_chainheads[s][n] # 0
                 PROVE used'[s][n] <= network_chainheads[s][n]
      BY <2>2
    <3>1. CASE s = r /\ n = name
      BY <2>3, <2>6, <3>1
    <3>2. CASE ~(s = r /\ n = name)
      BY <2>3, <2>6, <3>2
    <3> QED BY <3>1, <3>2
  <2>9. AnswersRounded'
    <3> SUFFICES ASSUME NEW s \in Radios, NEW n \in NetworkNames, message_block'[s][n] \in Nat
                 PROVE /\ n \in Supported
                       /\ used'[s][n] \in Nat
                       /\ message_block'[s][n] = rounded(used'[s][n], Interval[n])
      BY DEF rounded
    <3>1. CASE s = r /\ n = name
      BY <2>1, <2>3, <3>1
    <3>2. CASE ~(s = r /\ n = name)
      BY <2>3, <3>2
    <3> QED BY <3>1, <3>2
  <2> QED BY <2>4, <2>5, <2>7, <2>8, <2>9
<1>5. CASE UNCHANGED vars
  BY <1>5 DEF vars
<1> QED BY <1>1, <1>2, <1>3, <1>4, <1>5 DEF Next

(* The invariant holds always.                                             *)
LEMMA Invariance == Spec => []IInv
BY InitIInv, NextIInv, PTL DEF Spec

(* What radios keep, use and answer are numbers or one of the results that *)
(* determine_message_block has.                                            *)
THEOREM TypeCorrect == Spec => []TypeOK
<1>1. IInv => TypeOK BY DEF IInv
<1> QED BY <1>1, Invariance, PTL

(* Radios agree on a block exactly when their heads share an interval      *)
(* (determine_message_block).                                              *)
THEOREM RadiosAgree == Spec => []BlocksAgree
<1>1. IInv => BlocksAgree
  <2> SUFFICES ASSUME IInv, NEW r \in Radios, NEW s \in Radios, NEW name \in Supported,
                      Answered(r, name), Answered(s, name)
               PROVE LET i == Interval[name] IN
                     /\ message_block[r][name] = message_block[s][name]
                          <=> used[r][name] \div i = used[s][name] \div i
                     /\ used[r][name] <= used[s][name] /\ used[s][name] < used[r][name] + i
                          => message_block[s][name] \in {message_block[r][name],
                                                        message_block[r][name] + i}
    BY DEF BlocksAgree
  <2>1. /\ message_block[r][name] = rounded(used[r][name], Interval[name])
        /\ message_block[s][name] = rounded(used[s][name], Interval[name])
        /\ used[r][name] \in Nat /\ used[s][name] \in Nat
        /\ Interval[name] \in Nat \ {0}
    BY DEF IInv, AnswersRounded, NetworkNames, Blocks
  <2>2. PICK a \in Nat, b \in Nat, i \in Nat \ {0} :
          a = used[r][name] /\ b = used[s][name] /\ i = Interval[name]
    BY <2>1
  <2>3. rounded(a, i) = rounded(b, i) <=> a \div i = b \div i
    BY RoundedAgree
  <2>4. a <= b /\ b < a + i => rounded(b, i) \in {rounded(a, i), rounded(a, i) + i}
    BY RoundedClose
  <2> QED BY <2>1, <2>2, <2>3, <2>4
<1> QED BY <1>1, Invariance, PTL

(* A message block lies on a listed network, at or below what the radio's  *)
(* own node has reached.                                                   *)
THEOREM ReachedByNode == Spec => []BlockReached
<1>1. IInv => BlockReached
  <2> SUFFICES ASSUME IInv, NEW r \in Radios, NEW name \in NetworkNames, Answered(r, name)
               PROVE /\ name \in Supported
                     /\ message_block[r][name] <= followed[r][name]
                     /\ followed[r][name] <= chain[name]
    BY DEF BlockReached
  <2>1. /\ name \in Supported
        /\ used[r][name] \in Nat
        /\ message_block[r][name] = rounded(used[r][name], Interval[name])
    BY DEF IInv, AnswersRounded, Blocks
  <2>2. used[r][name] <= followed[r][name] /\ followed[r][name] <= chain[name]
    BY <2>1 DEF IInv, HeadsReached, NodesFollow, Blocks
  <2>3. followed[r][name] \in Nat /\ Interval[name] \in Nat \ {0}
    BY <2>1 DEF IInv, TypeOK, Blocks
  <2>4. rounded(used[r][name], Interval[name]) <= used[r][name]
        /\ rounded(used[r][name], Interval[name]) \in Nat
    BY <2>1, <2>3, RoundedIs
  <2> QED BY <2>1, <2>2, <2>3, <2>4
<1> QED BY <1>1, Invariance, PTL

(* A radio goes from one message block to a later one, but for heads that  *)
(* cannot be parsed.                                                       *)
THEOREM NeverBack == Spec => BlocksNeverBack
<1>1. IInv /\ [Next]_vars =>
        [\A r \in Radios : \A name \in NetworkNames :
           Answered(r, name) /\ Answered(r, name)' /\ message_block'[r][name] # 0 =>
             message_block[r][name] <= message_block'[r][name]]_vars
  <2> SUFFICES ASSUME IInv, Next, NEW r \in Radios, NEW name \in NetworkNames,
                      Answered(r, name), Answered(r, name)', message_block'[r][name] # 0
               PROVE message_block[r][name] <= message_block'[r][name]
    OBVIOUS
  <2>1. /\ name \in Supported
        /\ message_block[r][name] \in Nat
        /\ used[r][name] \in Nat
        /\ message_block[r][name] = rounded(used[r][name], Interval[name])
        /\ network_chainheads \in [Radios -> [NetworkNames -> Heads]]
        /\ message_block \in [Radios -> [NetworkNames -> Results]]
    BY DEF IInv, TypeOK, AnswersRounded, Answered, Blocks
  <2>2. ASSUME NEW q \in Radios, NEW n \in NetworkNames, Determine(q, n)
        PROVE message_block[r][name] <= message_block'[r][name]
    <3>1. CASE r = q /\ name = n
      <4> DEFINE head == network_chainheads[r][name]
      <4>1. message_block'[r][name] = determine_message_block(network_chainheads[r], name)
        BY <2>1, <2>2, <3>1 DEF Determine
      <4>2. message_block'[r][name] \in Blocks
        BY DEF Answered
      <4>3. head \in Nat /\ message_block'[r][name] = rounded(head, Interval[name])
        BY <2>1, <4>1, <4>2, DeterminedType DEF Blocks
      <4>4. Interval[name] \in Nat \ {0}
        BY <2>1
      <4>5. head # 0
        <5> HIDE DEF head
        <5>1. rounded(head, Interval[name]) \in Nat /\ rounded(head, Interval[name]) <= head
          BY <4>3, <4>4, RoundedIs
        <5> QED BY <4>3, <5>1
      <4>6. used[r][name] <= head
        BY <2>1, <4>3, <4>5 DEF IInv, UsedBeforeKept, Blocks
      <4> HIDE DEF head
      <4> QED BY <2>1, <4>3, <4>4, <4>6, RoundedMonotone
    <3>2. CASE ~(r = q /\ name = n)
      <4>1. message_block'[r][name] = message_block[r][name]
        BY <2>1, <2>2, <3>2 DEF Determine
      <4> QED BY <2>1, <4>1
    <3> QED BY <3>1, <3>2
  <2>3. CASE UNCHANGED message_block
    BY <2>1, <2>3
  <2> QED BY <2>2, <2>3 DEF Next, Mine, Follow, AskIndexingStatuses
<1> QED BY <1>1, Invariance, PTL DEF Spec, BlocksNeverBack
=============================================================================
