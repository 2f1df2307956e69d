----------------------------- MODULE AgentSetup -----------------------------
(***************************************************************************)
(* How an agent comes up: GraphcastAgentConfig::new checks what the radio  *)
(* supplies, GraphcastAgent::new makes the identity, starts the Waku node, *)
(* connects and subscribes it and registers the event callback.  From its  *)
(* start on the node finds and loses peers of its own accord.  Whether to  *)
(* gossip over the relay or the filter protocol is one option, which three *)
(* places read, each in its own way.                                       *)
(***************************************************************************)
EXTENDS Naturals

CONSTANTS
  Peers,                \* other Waku nodes
  Local,                \* the node itself, which its peer table lists too
  StaticNodes,          \* boot_node_addresses
  DnsNodes,             \* what the DNS discovery can return
  Accounts, Lower,      \* account strings, and to_lowercase on them
  NoAccount

ASSUME PeersAssumption == /\ StaticNodes \subseteq Peers /\ DnsNodes \subseteq Peers
                          /\ Local \notin Peers
ASSUME AccountsAssumption == Lower \in [Accounts -> Accounts] /\ NoAccount \notin Accounts

VARIABLES
  addresses_ok, wallet_ok, port_ok,   \* whether the strings supplied parse
  graph_account, graph_node,          \* supplied; "none", "up" or "down"
  network_subgraph,                   \* what verify meets there, see below
  filter_protocol,                    \* supplied, then configured
  boot,                               \* whether WAKU_NODE_BOOT is "boot"
  step,                               \* where the set-up is
  checked_account,                    \* what validate_set_up verified
  identity_account,                   \* what the agent will send
  node,                               \* "none" or "running"
  relay,                              \* whether the node relays
  nodes,                              \* addresses still to connect to
  peers,                              \* peer table of the node, itself aside
  connect_protocol,                   \* what connect_multiaddresses used
  to_ask,                             \* peers of the filter subscription
  subscriptions,
  callback,                           \* whether the handler is registered
  filter_protocol_enabled,
  node_failed                         \* whether the node refused something

supplied == <<addresses_ok, wallet_ok, port_ok, graph_account, graph_node,
              network_subgraph, boot>>
accounts == <<checked_account, identity_account>>
switches == <<node, relay>>
connecting == <<nodes, peers, connect_protocol>>
subscribing == <<to_ask, subscriptions>>
agent == <<callback, filter_protocol_enabled>>
vars == <<supplied, filter_protocol, step, accounts, switches, connecting, subscribing,
          agent, node_failed>>

Init == /\ addresses_ok \in BOOLEAN /\ wallet_ok \in BOOLEAN /\ port_ok \in BOOLEAN
        /\ graph_account \in Accounts
        /\ graph_node \in {"none", "up", "down"}
        /\ network_subgraph \in {"unasked", "replies", "empty_errors"}
        /\ filter_protocol \in {"None", "on", "off"}
        /\ boot \in BOOLEAN
        /\ step = "config"
        /\ checked_account = NoAccount /\ identity_account = NoAccount
        /\ node = "none" /\ relay = FALSE
        /\ nodes = {} /\ peers = {} /\ connect_protocol = "none"
        /\ to_ask = {} /\ subscriptions = {}
        /\ callback = FALSE /\ filter_protocol_enabled = FALSE
        /\ node_failed = FALSE

Goto(from, to) == step = from /\ step' = to

-----------------------------------------------------------------------------
(* GraphcastAgentConfig::new                                               *)

(* Seeded fault: an option left out stays out.                             *)
configured_as_supplied(f) == f

configured(f) == IF f = "None" THEN "off" ELSE f

NewConfig == /\ Goto("config", IF addresses_ok THEN "validate" ELSE "err")
             /\ filter_protocol' = configured(filter_protocol)
             /\ UNCHANGED <<supplied, accounts, switches, connecting, subscribing, agent,
                            node_failed>>

(* validate_set_up: whether verify accepts the account, refuses it or      *)
(* returns an error is only logged, but when it asks the network subgraph  *)
(* and gets an empty list of errors (SubgraphClients!CheckErrors), it      *)
(* panics.  A bad wallet or graph node makes the configuration panic.      *)
validate_set_up ==
  /\ \/ /\ ~wallet_ok \/ network_subgraph = "empty_errors"
        /\ Goto("validate", "panic")
        /\ UNCHANGED checked_account
     \/ /\ wallet_ok /\ network_subgraph # "empty_errors"
        /\ Goto("validate", IF graph_node = "down" THEN "panic" ELSE "identity")
        /\ checked_account' = graph_account
  /\ UNCHANGED <<supplied, filter_protocol, identity_account, switches, connecting,
                 subscribing, agent, node_failed>>

-----------------------------------------------------------------------------
(* GraphcastAgent::new                                                     *)

NewIdentity == /\ Goto("identity", "node")
               /\ identity_account' = Lower[graph_account]
               /\ UNCHANGED <<supplied, filter_protocol, checked_account, switches,
                              connecting, subscribing, agent, node_failed>>

(* node_config; the library relays when it is told nothing.                *)
node_relays == filter_protocol # "on"

(* setup_node_handle up to the start of the node.                          *)
StartNode ==
  /\ \/ ~port_ok /\ Goto("node", "err") /\ UNCHANGED <<switches, node_failed>>
     \/ /\ port_ok
        /\ Goto("node", "err")
        /\ node_failed' = TRUE
        /\ UNCHANGED switches
     \/ /\ port_ok
        /\ Goto("node", IF boot THEN "boot" ELSE "gather")
        /\ node' = "running" /\ relay' = node_relays
        /\ UNCHANGED node_failed
  /\ UNCHANGED <<supplied, filter_protocol, accounts, connecting, subscribing, agent>>

(* boot_node_handle: it subscribes at once and connects to nobody; when    *)
(* the node cannot tell its own id, the error leaves it running.           *)
SubscribeBootNode ==
  /\ \/ /\ Goto("boot", "subscribe")
        /\ subscriptions' = {"relay"}
        /\ UNCHANGED node_failed
     \/ /\ Goto("boot", "err")
        /\ subscriptions' = {"relay"}
        /\ node_failed' = TRUE
     \/ /\ Goto("boot", "panic")
        /\ node_failed' = TRUE
        /\ UNCHANGED subscriptions
  /\ UNCHANGED <<supplied, filter_protocol, accounts, switches, connecting, to_ask,
                 agent>>

(* gather_nodes: a DNS discovery that fails adds nothing.                  *)
GatherNodes == /\ Goto("gather", "connect")
               /\ \E found \in SUBSET DnsNodes : nodes' = StaticNodes \cup found
               /\ connect_protocol' = IF filter_protocol = "off" THEN "relay" ELSE "filter"
               /\ UNCHANGED <<supplied, filter_protocol, accounts, switches, peers,
                              subscribing, agent, node_failed>>

(* Seeded fault: an address that cannot be connected ends the set-up.      *)
ConnectOrGiveUp(n) ==
  /\ n \in nodes
  /\ nodes' = nodes \ {n}
  /\ \/ step = "connect" /\ UNCHANGED step /\ peers' = peers \cup {n}
     \/ Goto("connect", "err") /\ UNCHANGED peers
  /\ UNCHANGED <<supplied, filter_protocol, accounts, switches, connect_protocol,
                 subscribing, agent, node_failed>>

(* connect_multiaddresses: a peer that cannot be added or connected is     *)
(* passed over.                                                            *)
ConnectNode(n) ==
  /\ step = "connect" /\ UNCHANGED step
  /\ n \in nodes
  /\ nodes' = nodes \ {n}
  /\ peers' = peers \cup {n} \/ UNCHANGED peers
  /\ UNCHANGED <<supplied, filter_protocol, accounts, switches, connect_protocol,
                 subscribing, agent, node_failed>>

AllTried == /\ nodes = {}
            /\ Goto("connect", "subscribe")
            /\ UNCHANGED <<supplied, filter_protocol, accounts, switches, connecting,
                           subscribing, agent, node_failed>>

(* Seeded fault: a subscription that fails is returned as an error.        *)
refused_err == "err"

refused == "panic"

RelaySubscribe ==
  /\ filter_protocol = "off"
  /\ \/ /\ Goto("subscribe", "register")
        /\ subscriptions' = subscriptions \cup {"relay"}
        /\ UNCHANGED node_failed
     \/ /\ Goto("subscribe", refused)
        /\ node_failed' = TRUE
        /\ UNCHANGED subscriptions
  /\ UNCHANGED <<supplied, filter_protocol, accounts, switches, connecting, to_ask,
                 agent>>

(* filter_peer_subscriptions takes the peer table as it is now.            *)
ListPeers ==
  /\ filter_protocol # "off"
  /\ \/ /\ Goto("subscribe", "ask")
        /\ to_ask' = peers \cup {Local}
        /\ UNCHANGED node_failed
     \/ /\ Goto("subscribe", refused)
        /\ node_failed' = TRUE
        /\ UNCHANGED to_ask
  /\ UNCHANGED <<supplied, filter_protocol, accounts, switches, connecting,
                 subscriptions, agent>>

(* A peer that refuses is only reported.                                   *)
AskPeer(p) == /\ step = "ask" /\ UNCHANGED step
              /\ p \in to_ask
              /\ to_ask' = to_ask \ {p}
              /\ UNCHANGED <<supplied, filter_protocol, accounts, switches, connecting,
                             subscriptions, agent, node_failed>>

AllAsked == /\ to_ask = {}
            /\ Goto("ask", "register")
            /\ subscriptions' = subscriptions \cup {"filter"}
            /\ UNCHANGED <<supplied, filter_protocol, accounts, switches, connecting,
                           to_ask, agent, node_failed>>

RegisterHandler == /\ Goto("register", "running")
                   /\ callback' = TRUE
                   /\ filter_protocol_enabled' = (filter_protocol # "None")
                   /\ UNCHANGED <<supplied, filter_protocol, accounts, switches,
                                  connecting, subscribing, node_failed>>

(* The running node discovers peers, and loses them.                       *)
PeersChange == /\ node = "running"
               /\ \/ \E p \in Peers \ peers : peers' = peers \cup {p}
                  \/ \E p \in peers : peers' = peers \ {p}
               /\ UNCHANGED <<supplied, filter_protocol, step, accounts, switches, nodes,
                              connect_protocol, subscribing, agent, node_failed>>

Next == \/ NewConfig \/ validate_set_up \/ NewIdentity
        \/ StartNode \/ SubscribeBootNode
        \/ GatherNodes \/ (\E n \in Peers : ConnectNode(n)) \/ AllTried
        \/ RelaySubscribe
        \/ ListPeers \/ (\E p \in Peers \cup {Local} : AskPeer(p)) \/ AllAsked
        \/ RegisterHandler
        \/ PeersChange

Spec == Init /\ [][Next]_vars

-----------------------------------------------------------------------------
Steps == {"config", "validate", "identity", "node", "boot", "gather", "connect",
          "subscribe", "ask", "register", "running", "err", "panic"}

(* Every variable stays in its range, and past the configuration the       *)
(* option has a value (the default is set there).                          *)
TypeOK == /\ addresses_ok \in BOOLEAN /\ wallet_ok \in BOOLEAN /\ port_ok \in BOOLEAN
          /\ graph_account \in Accounts
          /\ graph_node \in {"none", "up", "down"}
          /\ network_subgraph \in {"unasked", "replies", "empty_errors"}
          /\ filter_protocol \in {"None", "on", "off"}
          /\ step # "config" => filter_protocol # "None"
          /\ boot \in BOOLEAN
          /\ step \in Steps
          /\ checked_account \in Accounts \cup {NoAccount}
          /\ identity_account \in Accounts \cup {NoAccount}
          /\ node \in {"none", "running"} /\ relay \in BOOLEAN
          /\ nodes \subseteq Peers /\ peers \subseteq Peers
          /\ connect_protocol \in {"none", "relay", "filter"}
          /\ to_ask \subseteq Peers \cup {Local}
          /\ subscriptions \subseteq {"relay", "filter"}
          /\ callback \in BOOLEAN /\ filter_protocol_enabled \in BOOLEAN
          /\ node_failed \in BOOLEAN

(* An agent that runs gossips over one protocol: the node is configured,   *)
(* its peers are connected and the topics are subscribed to for the same   *)
(* one, although node_config, setup_node_handle and GraphcastAgent::new    *)
(* each read the option in their own way.                                  *)
ProtocolsAgree ==
  step = "running" /\ ~boot =>
    /\ relay <=> connect_protocol = "relay"
    /\ subscriptions = {connect_protocol}

(* The set-up fails for these reasons only.  An error that the caller may  *)
(* handle is due to an address, a port, or a call that its own node        *)
(* refused; a panic to the wallet, the graph node, a call that its own     *)
(* node refused, or an empty list of errors from the network subgraph.     *)
(* What verify says of the account, peers that are unreachable, leave or   *)
(* refuse, and a DNS discovery that fails keep no agent from coming up.    *)
FailureHasCause ==
  /\ step = "err" => ~addresses_ok \/ ~port_ok \/ node_failed
  /\ step = "panic" =>
       ~wallet_ok \/ graph_node = "down" \/ network_subgraph = "empty_errors" \/ node_failed

(* A caller that gets an error back, and may try again, has no node left   *)
(* running, unless it is a boot node.                                      *)
ErrorLeavesNoNode == step = "err" /\ ~boot => node = "none"
=============================================================================
