--------------------------- MODULE NodePeersProofs ---------------------------
(***************************************************************************)
(* The type invariant and the safety of network_check, for any peers and   *)
(* any number of concurrent checks.  Convergence is a liveness property    *)
(* and left to TLC.                                                        *)
(***************************************************************************)
EXTENDS NodePeers, TLAPS

(* A check that nothing has disturbed knows the relay peers as they are;   *)
(* the peers it has visited are as they should be, and no check has cut    *)
(* off a relay peer that it found connected.                               *)
Fresh(c) ==
  c \in undisturbed /\ pc[c] = "checking" =>
    /\ seen[c].relaying = relaying
    /\ \A p \in Peers :
         /\ p \notin todo[c] => (p \in connected <=> p \in relaying /\ p \in reachable)
         /\ p \in todo[c] /\ p \in relaying /\ p \in seen[c].connected => p \in connected

Ended(c) == c \in undisturbed /\ pc[c] = "done" => Settled

(* A check that has the node to itself sees the peers that it has not yet  *)
(* visited as they were listed.                                            *)
Unshared(c) ==
  c \in alone /\ pc[c] = "checking" =>
    \A p \in todo[c] : p \in table /\ (p \in connected <=> p \in seen[c].connected)

PanicExplained(c) ==
  pc[c] = "panic" /\ c \in alone =>
    \E p \in Peers : p \in table /\ p \notin seen[c].relaying \cup seen[c].connected

IInv == /\ TypeOK
        /\ \A c \in Checkers : Fresh(c) /\ Ended(c) /\ Unshared(c) /\ PanicExplained(c)

-----------------------------------------------------------------------------
LEMMA InitType == Init => TypeOK
BY LocalAssumption, MovesAssumption DEF Init, TypeOK, nothing_seen

LEMMA MoveType ==
  ASSUME TypeOK, Environment PROVE TypeOK'
<1> USE LocalAssumption, MovesAssumption
<1> PICK p \in Peers : Discover(p) \/ Forget(p) \/ Identify(p) \/ Toggle(p) \/ Reconnect(p)
  BY DEF Environment
<1>0. Move
  BY DEF Discover, Forget, Identify, Toggle, Reconnect
<1>1. /\ moves' \in 0..MaxMoves
      /\ pc' \in [Checkers -> {"idle", "checking", "done", "err", "no_id", "panic"}]
      /\ todo' \in [Checkers -> SUBSET Peers]
      /\ seen' \in [Checkers -> [relaying : SUBSET (Peers \cup {Local}),
                                 connected : SUBSET Peers]]
      /\ undisturbed' \subseteq Checkers /\ alone' \subseteq Checkers
  BY <1>0 DEF TypeOK, Move, calls
<1>2. /\ table' \subseteq Peers \cup {Local} /\ Local \in table'
      /\ relaying' \subseteq table'
      /\ reachable' \subseteq table' \ {Local}
      /\ connected' \subseteq reachable'
  <2>1. CASE Discover(p)
    BY <2>1 DEF TypeOK, Discover
  <2>2. CASE Forget(p)
    BY <2>2 DEF TypeOK, Forget
  <2>3. CASE Identify(p)
    BY <2>3 DEF TypeOK, Identify
  <2>4. CASE Toggle(p)
    BY <2>4 DEF TypeOK, Toggle
  <2>5. CASE Reconnect(p)
    BY <2>5 DEF TypeOK, Reconnect
  <2> QED
    BY <2>1, <2>2, <2>3, <2>4, <2>5
<1> QED
  BY <1>1, <1>2 DEF TypeOK

LEMMA VisitType ==
  ASSUME TypeOK, NEW c \in Checkers, NEW p \in todo[c], Connect(c, p) \/ Disconnect(c, p)
  PROVE  TypeOK'
<1>1. Visit(c, p) /\ Touch(c)
  BY DEF Connect, Disconnect
<1>2. UNCHANGED <<table, relaying, reachable, moves, seen>>
  BY <1>1 DEF Visit
<1>3. todo' \in [Checkers -> SUBSET Peers] /\ p \in Peers
  BY <1>1 DEF Visit, TypeOK
<1>4. pc' \in [Checkers -> {"idle", "checking", "done", "err", "no_id", "panic"}]
  BY DEF Connect, Disconnect, TypeOK
<1>5. connected' \subseteq reachable
  BY DEF Connect, Disconnect, TypeOK
<1>6. undisturbed' \subseteq Checkers /\ alone' \subseteq Checkers
  BY <1>1 DEF Touch, TypeOK
<1> QED
  BY <1>2, <1>3, <1>4, <1>5, <1>6 DEF TypeOK

LEMMA StepType ==
  ASSUME TypeOK, [Next]_vars PROVE TypeOK'
<1>1. CASE Environment
  BY <1>1, MoveType
<1>2. ASSUME NEW c \in Checkers, StartCheck(c) PROVE TypeOK'
  <2>1. table \ {Local} \in SUBSET Peers /\ connected \in SUBSET Peers
        /\ relaying \in SUBSET (Peers \cup {Local})
    BY DEF TypeOK
  <2> QED
    BY <1>2, <2>1 DEF TypeOK, StartCheck, node, peers_data
<1>3. ASSUME NEW c \in Checkers, StartFails(c) PROVE TypeOK'
  BY <1>3 DEF TypeOK, StartFails, node, history
<1>4. ASSUME NEW c \in Checkers, NEW p \in todo[c], Keep(c, p) PROVE TypeOK'
  BY <1>4 DEF TypeOK, Keep, Visit, history
<1>5. ASSUME NEW c \in Checkers, NEW p \in todo[c], Connect(c, p) \/ Disconnect(c, p)
      PROVE  TypeOK'
  BY <1>5, VisitType
<1>6. ASSUME NEW c \in Checkers, Finish(c) PROVE TypeOK'
  BY <1>6 DEF TypeOK, Finish, node, history, nothing_seen
<1>7. CASE UNCHANGED vars
  BY <1>7 DEF TypeOK, vars, node, calls, history
<1> QED
  BY <1>1, <1>2, <1>3, <1>4, <1>5, <1>6, <1>7 DEF Next, CheckStep

(* Every variable of the node and of the checks stays in its range.        *)
THEOREM TypeCorrect == Spec => []TypeOK
<1>1. Init => TypeOK
  BY InitType
<1>2. TypeOK /\ [Next]_vars => TypeOK'
  BY StepType
<1> QED
  BY <1>1, <1>2, PTL DEF Spec

-----------------------------------------------------------------------------
LEMMA InitInv == Init => IInv
BY InitType DEF Init, IInv, Fresh, Ended, Unshared, PanicExplained

LEMMA ConnectInv ==
  ASSUME IInv, NEW c \in Checkers, NEW p \in todo[c], Connect(c, p), NEW d \in Checkers
  PROVE  (Fresh(d) /\ Ended(d) /\ Unshared(d) /\ PanicExplained(d))'
<1> USE DEF TypeOK
<1>0. TypeOK /\ p \in Peers /\ pc[c] = "checking" /\ p \in relaying \cup seen[c].relaying
  BY DEF IInv, Connect, Visit, supports_relay
<1>1. /\ todo'[c] = todo[c] \ {p} /\ \A e \in Checkers \ {c} : todo'[e] = todo[e]
      /\ UNCHANGED <<table, relaying, reachable, moves, seen, pc>>
      /\ connected' = connected \cup ({p} \cap reachable)
      /\ p \notin seen[c].connected
  BY <1>0 DEF Connect, Visit
<1>2. /\ d \in undisturbed' => d \in undisturbed /\ c \in undisturbed
      /\ d \in alone' => d \in alone /\ d = c
  BY DEF Connect, Touch
<1>3. Fresh(d)'
  <2> SUFFICES ASSUME d \in undisturbed', pc'[d] = "checking"
               PROVE  /\ seen'[d].relaying = relaying'
                      /\ \A q \in Peers :
                           /\ q \notin todo'[d] => (q \in connected'
                                                      <=> q \in relaying' /\ q \in reachable')
                           /\ q \in todo'[d] /\ q \in relaying' /\ q \in seen'[d].connected
                                => q \in connected'
    BY DEF Fresh
  <2>1. Fresh(c) /\ Fresh(d)
    BY DEF IInv
  <2>2. p \in relaying
    BY <1>0, <1>2, <2>1 DEF Fresh
  <2> QED
    BY <1>0, <1>1, <1>2, <2>1, <2>2 DEF Fresh
<1>4. Ended(d)'
  <2> SUFFICES ASSUME d \in undisturbed', pc'[d] = "done" PROVE Settled'
    BY DEF Ended
  <2>1. Settled /\ p \in relaying
    BY <1>0, <1>1, <1>2 DEF IInv, Ended, Fresh
  <2> QED
    BY <1>1, <2>1 DEF Settled
<1>5. Unshared(d)' /\ PanicExplained(d)'
  <2>1. Unshared(d) /\ PanicExplained(d)
    BY DEF IInv
  <2>2. CASE d = c
    BY <1>0, <1>1, <1>2, <2>1, <2>2 DEF Unshared, PanicExplained
  <2>3. CASE d # c
    BY <1>2, <2>3 DEF Unshared, PanicExplained
  <2> QED
    BY <2>2, <2>3
<1> QED
  BY <1>3, <1>4, <1>5

LEMMA DisconnectInv ==
  ASSUME IInv, NEW c \in Checkers, NEW p \in todo[c], Disconnect(c, p), NEW d \in Checkers
  PROVE  (Fresh(d) /\ Ended(d) /\ Unshared(d) /\ PanicExplained(d))'
<1> USE DEF TypeOK
<1>0. TypeOK /\ p \in Peers /\ pc[c] = "checking" /\ p \notin seen[c].relaying
  BY DEF IInv, Disconnect, Visit, supports_relay
<1>1. /\ todo'[c] = todo[c] \ {p} /\ \A e \in Checkers \ {c} : todo'[e] = todo[e]
      /\ UNCHANGED <<table, relaying, reachable, moves, seen>>
      /\ connected' = connected \ {p}
  BY <1>0 DEF Disconnect, Visit
<1>2. /\ d \in undisturbed' => d \in undisturbed /\ c \in undisturbed
      /\ d \in alone' => d \in alone /\ d = c
  BY DEF Disconnect, Touch
<1>3. \/ pc' = pc
      \/ p \notin connected /\ pc'[c] = "panic" /\ \A e \in Checkers \ {c} : pc'[e] = pc[e]
  BY <1>0 DEF Disconnect
<1>4. c \in undisturbed => p \notin relaying
  BY <1>0 DEF IInv, Fresh
<1>5. pc'[d] \in {"checking", "done"} => pc'[d] = pc[d]
  BY <1>3
<1>6. Fresh(d)'
  <2> SUFFICES ASSUME d \in undisturbed', pc'[d] = "checking"
               PROVE  /\ seen'[d].relaying = relaying'
                      /\ \A q \in Peers :
                           /\ q \notin todo'[d] => (q \in connected'
                                                      <=> q \in relaying' /\ q \in reachable')
                           /\ q \in todo'[d] /\ q \in relaying' /\ q \in seen'[d].connected
                                => q \in connected'
    BY DEF Fresh
  <2>1. Fresh(d) /\ pc[d] = "checking"
    BY <1>5 DEF IInv
  <2> QED
    BY <1>0, <1>1, <1>2, <1>4, <2>1 DEF Fresh
<1>7. Ended(d)'
  <2> SUFFICES ASSUME d \in undisturbed', pc'[d] = "done" PROVE Settled'
    BY DEF Ended
  <2>1. Settled /\ p \notin relaying
    BY <1>2, <1>4, <1>5 DEF IInv, Ended
  <2> QED
    BY <1>1, <2>1 DEF Settled
<1>8. Unshared(d)' /\ PanicExplained(d)'
  <2>1. Unshared(d) /\ PanicExplained(d)
    BY DEF IInv
  <2>2. CASE d # c
    BY <1>2, <2>2 DEF Unshared, PanicExplained
  <2>3. CASE d = c /\ pc' = pc
    BY <1>0, <1>1, <1>2, <2>1, <2>3 DEF Unshared, PanicExplained
  <2>4. CASE d = c /\ p \notin connected /\ pc'[c] = "panic"
    <3> SUFFICES ASSUME c \in alone' PROVE PanicExplained(c)'
      BY <2>4 DEF Unshared, PanicExplained
    <3>1. p \in table /\ p \notin seen[c].connected
      BY <1>0, <1>2, <2>1, <2>4 DEF Unshared
    <3> QED
      BY <1>0, <1>1, <3>1 DEF PanicExplained
  <2> QED
    BY <1>3, <2>2, <2>3, <2>4
<1> QED
  BY <1>6, <1>7, <1>8

LEMMA StepInv == IInv /\ [Next]_vars => IInv'
<1> SUFFICES ASSUME IInv, [Next]_vars PROVE IInv'
  OBVIOUS
<1>0. TypeOK /\ TypeOK'
  BY StepType DEF IInv
<1> SUFFICES ASSUME NEW d \in Checkers
             PROVE  (Fresh(d) /\ Ended(d) /\ Unshared(d) /\ PanicExplained(d))'
  BY <1>0 DEF IInv
<1>a. Fresh(d) /\ Ended(d) /\ Unshared(d) /\ PanicExplained(d)
  BY DEF IInv
<1>1. CASE Environment
  <2>1. undisturbed' = {} /\ alone' = {}
    BY <1>1 DEF Environment, Discover, Forget, Identify, Toggle, Reconnect, Move
  <2> QED
    BY <2>1 DEF Fresh, Ended, Unshared, PanicExplained
<1>2. ASSUME NEW c \in Checkers, StartCheck(c)
      PROVE  (Fresh(d) /\ Ended(d) /\ Unshared(d) /\ PanicExplained(d))'
  <2>1. /\ UNCHANGED <<table, relaying, reachable, connected>>
        /\ d # c => /\ pc'[d] = pc[d] /\ todo'[d] = todo[d] /\ seen'[d] = seen[d]
                    /\ d \in undisturbed' => d \in undisturbed
                    /\ d \in alone' => d \in alone
    BY <1>0, <1>2 DEF StartCheck, node, TypeOK
  <2>2. /\ pc'[c] = "checking" /\ todo'[c] = table \ {Local}
        /\ seen'[c].relaying = relaying /\ seen'[c].connected = connected
    BY <1>0, <1>2 DEF StartCheck, TypeOK, peers_data
  <2>3. CASE d # c
    BY <1>a, <2>1, <2>3 DEF Fresh, Ended, Unshared, PanicExplained, Settled
  <2>4. CASE d = c
    <3>1. \A q \in Peers : q \notin table \ {Local} => q \notin connected /\ q \notin reachable
      BY <1>0, LocalAssumption DEF TypeOK
    <3> QED
      BY <2>1, <2>2, <2>4, <3>1 DEF Fresh, Ended, Unshared, PanicExplained
  <2> QED
    BY <2>3, <2>4
<1>3. ASSUME NEW c \in Checkers, StartFails(c)
      PROVE  (Fresh(d) /\ Ended(d) /\ Unshared(d) /\ PanicExplained(d))'
  <2>1. UNCHANGED <<table, relaying, reachable, connected, todo, seen, undisturbed, alone>>
    BY <1>3 DEF StartFails, node, history
  <2>2. pc'[d] = pc[d] \/ pc'[d] \in {"err", "no_id"}
    BY <1>0, <1>3 DEF StartFails, TypeOK
  <2> QED
    BY <1>a, <2>1, <2>2 DEF Fresh, Ended, Unshared, PanicExplained, Settled
<1>4. ASSUME NEW c \in Checkers, NEW p \in todo[c], Keep(c, p)
      PROVE  (Fresh(d) /\ Ended(d) /\ Unshared(d) /\ PanicExplained(d))'
  <2>1. UNCHANGED <<table, relaying, reachable, connected, seen, pc, undisturbed, alone>>
    BY <1>4 DEF Keep, Visit, history
  <2>2. /\ todo'[d] = IF d = c THEN todo[d] \ {p} ELSE todo[d]
        /\ p \in seen[c].relaying /\ p \in seen[c].connected /\ pc[c] = "checking"
        /\ p \in Peers
    BY <1>0, <1>4 DEF Keep, Visit, TypeOK, supports_relay
  <2>3. connected \subseteq reachable
    BY <1>0 DEF TypeOK
  <2>4. Fresh(d)'
    BY <1>a, <2>1, <2>2, <2>3 DEF Fresh
  <2>5. Ended(d)' /\ Unshared(d)' /\ PanicExplained(d)'
    BY <1>a, <2>1, <2>2 DEF Ended, Unshared, PanicExplained, Settled
  <2> QED
    BY <2>4, <2>5
<1>5. ASSUME NEW c \in Checkers, NEW p \in todo[c], Connect(c, p)
      PROVE  (Fresh(d) /\ Ended(d) /\ Unshared(d) /\ PanicExplained(d))'
  BY <1>5, ConnectInv
<1>6. ASSUME NEW c \in Checkers, NEW p \in todo[c], Disconnect(c, p)
      PROVE  (Fresh(d) /\ Ended(d) /\ Unshared(d) /\ PanicExplained(d))'
  BY <1>6, DisconnectInv
<1>7. ASSUME NEW c \in Checkers, Finish(c)
      PROVE  (Fresh(d) /\ Ended(d) /\ Unshared(d) /\ PanicExplained(d))'
  <2>1. UNCHANGED <<table, relaying, reachable, connected, todo, undisturbed, alone>>
    BY <1>7 DEF Finish, node, history
  <2>2. CASE d # c
    <3>1. pc'[d] = pc[d] /\ seen'[d] = seen[d]
      BY <1>0, <1>7, <2>2 DEF Finish, TypeOK
    <3> QED
      BY <1>a, <2>1, <3>1 DEF Fresh, Ended, Unshared, PanicExplained, Settled
  <2>3. CASE d = c
    <3>1. pc'[d] = "done" /\ pc[d] = "checking" /\ todo[d] = {}
      BY <1>0, <1>7, <2>3 DEF Finish, TypeOK
    <3>2. d \in undisturbed => Settled
      <4> SUFFICES ASSUME d \in undisturbed PROVE connected = relaying \cap reachable
        BY DEF Settled
      <4>1. \A q \in Peers : q \in connected <=> q \in relaying /\ q \in reachable
        BY <1>a, <3>1 DEF Fresh
      <4>2. connected \subseteq Peers /\ reachable \subseteq Peers
        BY <1>0 DEF TypeOK
      <4> QED
        BY <4>1, <4>2
    <3> QED
      BY <2>1, <3>1, <3>2 DEF Fresh, Ended, Unshared, PanicExplained, Settled
  <2> QED
    BY <2>2, <2>3
<1>8. CASE UNCHANGED vars
  BY <1>a, <1>8 DEF vars, node, calls, history, Fresh, Ended, Unshared, PanicExplained, Settled
<1> QED
  BY <1>1, <1>2, <1>3, <1>4, <1>5, <1>6, <1>7, <1>8 DEF Next, CheckStep

LEMMA Invariant == Spec => []IInv
BY InitInv, StepInv, PTL DEF Spec

(* Any number of concurrent checks leave a node whose peers keep still     *)
(* connected to exactly its reachable relay peers.                         *)
THEOREM ChecksSettle == Spec => []CheckSettles
<1>1. IInv => CheckSettles
  <2> SUFFICES ASSUME IInv, NEW c \in Checkers, pc[c] = "done", c \in undisturbed
               PROVE  /\ Settled
                      /\ connected_peer_count = Cardinality(relaying \cap reachable)
    BY DEF CheckSettles
  <2>1. Settled
    BY DEF IInv, Ended
  <2>2. peers_data \cap connected = connected
    BY DEF IInv, TypeOK, peers_data
  <2> QED
    BY <2>1, <2>2 DEF Settled, connected_peer_count
<1> QED
  BY <1>1, Invariant, PTL

(* A check that nothing has interfered with panics only over a peer that   *)
(* was listed without relay and without a connection.                      *)
THEOREM PanicsExplained == Spec => []PanicHasCause
<1>1. IInv => PanicHasCause
  BY DEF IInv, PanicExplained, PanicHasCause
<1> QED
  BY <1>1, Invariant, PTL

(* Checks that know the peers as they are do not undo what another has     *)
(* reached: while the peers keep still, a settled node stays settled.      *)
SettledStays ==
  [][Settled /\ moves' = moves /\ (\A c \in Checkers : pc[c] = "checking" => c \in undisturbed)
       => Settled']_vars

(* Of concurrent checks on fresh lists none makes a connection that        *)
(* another one cuts, or the reverse.                                       *)
THEOREM ChecksAgree == Spec => SettledStays
<1> DEFINE Quiet == /\ Settled /\ moves' = moves
                    /\ \A c \in Checkers : pc[c] = "checking" => c \in undisturbed
<1>1. ASSUME IInv, Next, Quiet PROVE Settled'
  <2> USE <1>1 DEF IInv, TypeOK, Settled
  <2>1. ASSUME Environment PROVE FALSE
    BY <2>1 DEF Environment, Discover, Forget, Identify, Toggle, Reconnect, Move
  <2>2. ASSUME NEW c \in Checkers, StartCheck(c) \/ StartFails(c) \/ Finish(c)
        PROVE  Settled'
    BY <2>2 DEF StartCheck, StartFails, Finish, node
  <2>3. ASSUME NEW c \in Checkers, NEW p \in todo[c],
               Keep(c, p) \/ Connect(c, p) \/ Disconnect(c, p)
        PROVE  Settled'
    <3>1. seen[c].relaying = relaying /\ UNCHANGED <<relaying, reachable>>
      BY <2>3 DEF Keep, Connect, Disconnect, Visit, Fresh
    <3>2. connected' = connected
      BY <2>3, <3>1 DEF Keep, Connect, Disconnect, supports_relay
    <3> QED
      BY <3>1, <3>2
  <2> QED
    BY <2>1, <2>2, <2>3 DEF Next, CheckStep
<1>2. IInv /\ [Next]_vars => [Quiet => Settled']_vars
  BY <1>1
<1> QED
  BY <1>2, Invariant, PTL DEF Spec, SettledStays
=============================================================================
