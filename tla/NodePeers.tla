----------------------------- MODULE NodePeers -----------------------------
(***************************************************************************)
(* network_check: a radio asks the agent to look after the connections of  *)
(* its Waku node.  The check lists the peers of the node once and then     *)
(* goes through that list, while peers come, go, identify themselves and   *)
(* lose connections, and while another thread of the radio may check too   *)
(* (the method takes &self and no lock).                                   *)
(*                                                                         *)
(* The node is external: its table of peers, what it knows of their        *)
(* protocols and its connections change at any time, MaxMoves times in a   *)
(* behaviour.                                                              *)
(***************************************************************************)
EXTENDS Naturals, FiniteSets

CONSTANTS
  Peers,                \* other Waku nodes
  Local,                \* the node itself, which its table of peers lists too
  Checkers,             \* threads of the radio that call network_check
  MaxMoves              \* bound of the moves of the environment

ASSUME LocalAssumption == Local \notin Peers
ASSUME MovesAssumption == MaxMoves \in Nat

VARIABLES
  table,                \* peers that the node knows
  relaying,             \* those it knows to support the relay protocol
  connected,            \* those it is connected to
  reachable,            \* peers that a connection can be made to
  moves,                \* how often the environment has moved
  pc,                   \* where the check of each thread is
  todo,                 \* listed peers that it has not come to yet
  seen,                 \* what the list said of the peers
  undisturbed,          \* checks since whose start the peers did not move, nor
                        \* did a check act on a list from before such a move
  alone                 \* checks since whose start nothing else happened

node == <<table, relaying, connected, reachable, moves>>
calls == <<pc, todo, seen>>
history == <<undisturbed, alone>>
vars == <<node, calls, history>>

nothing_seen == [relaying |-> {}, connected |-> {}]

Init == /\ table \in {t \cup {Local} : t \in SUBSET Peers}
        /\ relaying \in SUBSET table
        /\ reachable \in SUBSET (table \ {Local})
        /\ connected \in SUBSET reachable
        /\ moves = 0
        /\ pc = [c \in Checkers |-> "idle"]
        /\ todo = [c \in Checkers |-> {}]
        /\ seen = [c \in Checkers |-> nothing_seen]
        /\ undisturbed = {} /\ alone = {}

-----------------------------------------------------------------------------
(* The node and its network                                                *)

Move == /\ moves < MaxMoves
        /\ moves' = moves + 1
        /\ undisturbed' = {} /\ alone' = {}
        /\ UNCHANGED calls

(* Discovery adds a peer; of its protocols nothing is known yet.           *)
Discover(p) == /\ Move
               /\ p \notin table
               /\ table' = table \cup {p}
               /\ reachable' = reachable \cup {p}
               /\ connected' \in {connected, connected \cup {p}}
               /\ UNCHANGED relaying

Forget(p) == /\ Move
             /\ p \in table
             /\ table' = table \ {p}
             /\ relaying' = relaying \ {p}
             /\ reachable' = reachable \ {p}
             /\ connected' = connected \ {p}

(* A connected peer tells its protocols, or comes back with others.        *)
Identify(p) == /\ Move
               /\ p \in connected
               /\ relaying' \in {relaying \cup {p}, relaying \ {p}}
               /\ UNCHANGED <<table, reachable, connected>>

(* A peer goes off the network or comes back.                              *)
Toggle(p) == /\ Move
             /\ p \in table
             /\ \/ p \in reachable /\ reachable' = reachable \ {p}
                \/ p \notin reachable /\ reachable' = reachable \cup {p}
             /\ connected' = connected \cap reachable'
             /\ UNCHANGED <<table, relaying>>

(* A connection breaks, or a peer makes one.                               *)
Reconnect(p) == /\ Move
                /\ p \in reachable
                /\ \/ p \in connected /\ connected' = connected \ {p}
                   \/ p \notin connected /\ connected' = connected \cup {p}
                /\ UNCHANGED <<table, relaying, reachable>>

-----------------------------------------------------------------------------
(* network_check                                                           *)

(* Seeded fault: the node itself stays in the list.                        *)
peers_data_all == table

peers_data == table \ {Local}

connected_peer_count == Cardinality(peers_data \cap connected)

(* The list of the peers, taken once at the start of the check.            *)
StartCheck(c) == /\ pc[c] \in {"idle", "done", "err"}
                 /\ pc' = [pc EXCEPT ![c] = "checking"]
                 /\ todo' = [todo EXCEPT ![c] = peers_data]
                 /\ seen' = [seen EXCEPT ![c] = [relaying |-> relaying,
                                                 connected |-> connected]]
                 /\ undisturbed' = undisturbed \cup {c}
                 /\ alone' = alone \cup {c}
                 /\ UNCHANGED node

(* Without the list, the check returns an error; without the id of the     *)
(* node, which it expects, it panics.                                      *)
StartFails(c) == /\ pc[c] \in {"idle", "done", "err"}
                 /\ \/ pc' = [pc EXCEPT ![c] = "err"]
                    \/ pc' = [pc EXCEPT ![c] = "no_id"]
                 /\ UNCHANGED <<node, todo, seen, history>>

Visit(c, p) == /\ pc[c] = "checking"
               /\ p \in todo[c]
               /\ todo' = [todo EXCEPT ![c] = @ \ {p}]
               /\ UNCHANGED <<table, relaying, reachable, moves, seen>>

(* How a change made by check c bears on the other checks.                 *)
Touch(c) == /\ undisturbed' = IF c \in undisturbed THEN undisturbed ELSE {}
            /\ alone' = alone \cap {c}

(* Seeded fault: only peers that are connected are looked at for relay.    *)
supports_relay_if_connected(c, p) == p \in seen[c].relaying \cap seen[c].connected

supports_relay(c, p) == p \in seen[c].relaying

Keep(c, p) == /\ Visit(c, p)
              /\ supports_relay(c, p) /\ p \in seen[c].connected
              /\ UNCHANGED <<pc, connected, history>>

(* Seeded fault: a peer that cannot be connected ends the check.           *)
ConnectOrReturn(c, p) ==
  /\ Visit(c, p)
  /\ supports_relay(c, p) /\ p \notin seen[c].connected
  /\ connected' = connected \cup ({p} \cap reachable)
  /\ pc' = IF p \in reachable THEN pc ELSE [pc EXCEPT ![c] = "err"]
  /\ Touch(c)

(* A failure to connect is logged.                                         *)
Connect(c, p) == /\ Visit(c, p)
                 /\ supports_relay(c, p) /\ p \notin seen[c].connected
                 /\ connected' = connected \cup ({p} \cap reachable)
                 /\ Touch(c)
                 /\ UNCHANGED pc

(* The node may refuse to disconnect a peer that it is not connected to,   *)
(* and unwrap turns the refusal into a panic.                              *)
Disconnect(c, p) == /\ Visit(c, p)
                    /\ ~supports_relay(c, p)
                    /\ connected' = connected \ {p}
                    /\ \/ UNCHANGED pc
                       \/ p \notin connected /\ pc' = [pc EXCEPT ![c] = "panic"]
                    /\ Touch(c)

Finish(c) == /\ pc[c] = "checking"
             /\ todo[c] = {}
             /\ pc' = [pc EXCEPT ![c] = "done"]
             /\ seen' = [seen EXCEPT ![c] = nothing_seen]
             /\ UNCHANGED <<node, todo, history>>

-----------------------------------------------------------------------------
Environment == \E p \in Peers : \/ Discover(p) \/ Forget(p) \/ Identify(p)
                                \/ Toggle(p) \/ Reconnect(p)

(* What a thread does inside network_check, once it has its list.          *)
CheckStep(c) == \/ \E p \in todo[c] : Keep(c, p) \/ Connect(c, p) \/ Disconnect(c, p)
                \/ Finish(c)

Next == \/ Environment
        \/ \E c \in Checkers : StartCheck(c) \/ StartFails(c) \/ CheckStep(c)

Spec == Init /\ [][Next]_vars

(* A thread that runs a check goes on with it.                             *)
FairSpec == Spec /\ \A c \in Checkers : WF_vars(CheckStep(c))

-----------------------------------------------------------------------------
(* Every variable stays in its range.                                      *)
TypeOK == /\ table \subseteq Peers \cup {Local} /\ Local \in table
          /\ relaying \subseteq table
          /\ reachable \subseteq table \ {Local}
          /\ connected \subseteq reachable
          /\ moves \in 0..MaxMoves
          /\ pc \in [Checkers -> {"idle", "checking", "done", "err", "no_id", "panic"}]
          /\ todo \in [Checkers -> SUBSET Peers]
          /\ seen \in [Checkers -> [relaying : SUBSET (Peers \cup {Local}),
                                    connected : SUBSET Peers]]
          /\ undisturbed \subseteq Checkers /\ alone \subseteq Checkers

(* The connections that network_check is after: to all relay peers that    *)
(* can be reached, and to nobody else.                                     *)
Settled == connected = (relaying \cap reachable)

(* A check that has come to its end leaves exactly those connections,      *)
(* however many threads check at once, provided that the peers kept still  *)
(* since it listed them and no check acted on an older list; the count of  *)
(* connected peers is then that of the relay peers, without the node.      *)
CheckSettles ==
  \A c \in Checkers :
    pc[c] = "done" /\ c \in undisturbed =>
      Settled /\ connected_peer_count = Cardinality(relaying \cap reachable)

(* Once it has its list, network_check panics for one of two reasons only: *)
(* the list had a peer in it that neither relays nor is connected, or      *)
(* something changed under the check, if only through another check.       *)
PanicHasCause ==
  \A c \in Checkers :
    pc[c] = "panic" /\ c \in alone =>
      \E p \in Peers : /\ p \in table
                       /\ p \notin seen[c].relaying \cup seen[c].connected

(* One peer that cannot be connected, or that was given up already, does   *)
(* not keep a check from its other peers: the connections settle unless    *)
(* the peers move or the check panics.                                     *)
ChecksConverge ==
  \A c \in Checkers :
    (pc[c] = "checking" /\ c \in undisturbed)
      ~> (Settled \/ pc[c] = "panic" \/ c \notin undisturbed)
=============================================================================
