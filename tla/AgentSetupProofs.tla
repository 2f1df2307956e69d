-------------------------- MODULE AgentSetupProofs --------------------------
(***************************************************************************)
(* Type correctness of AgentSetup, that an agent which comes up gossips    *)
(* over one protocol, and what failures mean, for any peers and accounts.  *)
(***************************************************************************)
EXTENDS AgentSetup, TLAPS

(* What each stage of the set-up has established.                          *)
NoNodeYet ==
  step \in {"config", "validate", "identity", "node"} => node = "none"

NothingSubscribed ==
  ~boot /\ step \in {"config", "validate", "identity", "node", "gather", "connect",
                     "subscribe", "ask"}
    => subscriptions = {}

OnlyBootNodes == step = "boot" => boot

(* The protocol that the option stands for, once there is a node.          *)
OptionFollowed ==
  ~boot =>
    /\ step \in {"gather", "connect", "subscribe", "ask", "register", "running"}
         => (relay <=> filter_protocol = "off")
    /\ step \in {"connect", "subscribe", "ask", "register", "running"}
         => connect_protocol = IF filter_protocol = "off" THEN "relay" ELSE "filter"
    /\ step = "ask" => filter_protocol # "off"
    /\ step \in {"register", "running"} => subscriptions = {connect_protocol}

IInv == /\ TypeOK /\ NoNodeYet /\ NothingSubscribed /\ OnlyBootNodes /\ OptionFollowed
        /\ FailureHasCause /\ ErrorLeavesNoNode

(* The invariant holds before GraphcastAgentConfig::new is called.         *)
LEMMA InitIInv == Init => IInv
BY DEF Init, IInv, TypeOK, Steps, NoNodeYet, NothingSubscribed, OnlyBootNodes,
       OptionFollowed, FailureHasCause, ErrorLeavesNoNode

(* Every step of the set-up, and every change of peers, keeps it.          *)
LEMMA NextIInv == IInv /\ [Next]_vars => IInv'
<1> SUFFICES ASSUME IInv, [Next]_vars PROVE IInv'
  OBVIOUS
<1> USE DEF IInv, NoNodeYet, NothingSubscribed, OnlyBootNodes, OptionFollowed,
            FailureHasCause, ErrorLeavesNoNode, Goto, supplied, accounts, switches,
            connecting, subscribing, agent
<1>1. CASE NewConfig
  <2>1. TypeOK'
    BY <1>1 DEF NewConfig, configured, TypeOK, Steps
  <2>2. NoNodeYet' /\ NothingSubscribed' /\ OnlyBootNodes' /\ OptionFollowed'
    BY <1>1 DEF NewConfig, configured, TypeOK
  <2>3. FailureHasCause' /\ ErrorLeavesNoNode'
    BY <1>1 DEF NewConfig, configured
  <2> QED BY <2>1, <2>2, <2>3
<1>2. CASE validate_set_up
  <2>1. TypeOK'
    BY <1>2 DEF validate_set_up, TypeOK, Steps
  <2>2. NoNodeYet' /\ NothingSubscribed' /\ OnlyBootNodes' /\ OptionFollowed'
    BY <1>2 DEF validate_set_up, TypeOK
  <2>3. FailureHasCause' /\ ErrorLeavesNoNode'
    BY <1>2 DEF validate_set_up
  <2> QED BY <2>1, <2>2, <2>3
<1>3. CASE NewIdentity
  <2>1. TypeOK'
    BY <1>3, AccountsAssumption DEF NewIdentity, TypeOK, Steps
  <2>2. NoNodeYet' /\ NothingSubscribed' /\ OnlyBootNodes' /\ OptionFollowed'
    BY <1>3 DEF NewIdentity, TypeOK
  <2>3. FailureHasCause' /\ ErrorLeavesNoNode'
    BY <1>3 DEF NewIdentity
  <2> QED BY <2>1, <2>2, <2>3
<1>4. CASE StartNode
  <2>1. TypeOK'
    <3>1. /\ step' \in Steps /\ filter_protocol # "None" /\ node_failed' \in BOOLEAN
          /\ node' \in {"none", "running"} /\ relay' \in BOOLEAN
      BY <1>4 DEF StartNode, node_relays, TypeOK, Steps
    <3>2. /\ UNCHANGED <<addresses_ok, wallet_ok, port_ok, graph_account, graph_node>>
          /\ UNCHANGED <<network_subgraph, boot>>
          /\ UNCHANGED <<filter_protocol, checked_account, identity_account, nodes, peers>>
          /\ UNCHANGED <<connect_protocol, callback, filter_protocol_enabled>>
          /\ UNCHANGED <<to_ask, subscriptions>>
      BY <1>4 DEF StartNode, node_relays
    <3> QED BY <3>1, <3>2 DEF TypeOK
  <2>2. NoNodeYet' /\ NothingSubscribed' /\ OnlyBootNodes' /\ OptionFollowed'
    BY <1>4 DEF StartNode, node_relays, TypeOK
  <2>3. FailureHasCause' /\ ErrorLeavesNoNode'
    BY <1>4 DEF StartNode, node_relays
  <2> QED BY <2>1, <2>2, <2>3
<1>5. CASE SubscribeBootNode
  <2>1. TypeOK'
    <3>1. /\ step' \in Steps /\ filter_protocol # "None" /\ node_failed' \in BOOLEAN
          /\ subscriptions' \subseteq {"relay", "filter"}
      BY <1>5 DEF SubscribeBootNode, TypeOK, Steps
    <3>2. /\ UNCHANGED <<addresses_ok, wallet_ok, port_ok, graph_account, graph_node>>
          /\ UNCHANGED <<network_subgraph, boot>>
          /\ UNCHANGED <<filter_protocol, checked_account, identity_account, nodes, peers>>
          /\ UNCHANGED <<connect_protocol, callback, filter_protocol_enabled>>
          /\ UNCHANGED <<node, relay, to_ask>>
      BY <1>5 DEF SubscribeBootNode
    <3> QED BY <3>1, <3>2 DEF TypeOK
  <2>2. NoNodeYet' /\ NothingSubscribed' /\ OnlyBootNodes' /\ OptionFollowed'
    BY <1>5 DEF SubscribeBootNode, TypeOK
  <2>3. FailureHasCause' /\ ErrorLeavesNoNode'
    BY <1>5 DEF SubscribeBootNode
  <2> QED BY <2>1, <2>2, <2>3
<1>6. CASE GatherNodes
  <2>1. TypeOK'
    BY <1>6, PeersAssumption DEF GatherNodes, TypeOK, Steps
  <2>2. NoNodeYet' /\ NothingSubscribed' /\ OnlyBootNodes' /\ OptionFollowed'
    BY <1>6 DEF GatherNodes, TypeOK
  <2>3. FailureHasCause' /\ ErrorLeavesNoNode'
    BY <1>6 DEF GatherNodes
  <2> QED BY <2>1, <2>2, <2>3
<1>7. ASSUME NEW n \in Peers, ConnectNode(n) PROVE IInv'
  <2>1. TypeOK'
    BY <1>7 DEF ConnectNode, TypeOK, Steps
  <2>2. NoNodeYet' /\ NothingSubscribed' /\ OnlyBootNodes' /\ OptionFollowed'
    BY <1>7 DEF ConnectNode, TypeOK
  <2>3. FailureHasCause' /\ ErrorLeavesNoNode'
    BY <1>7 DEF ConnectNode
  <2> QED BY <2>1, <2>2, <2>3
<1>8. CASE AllTried
  <2>1. TypeOK'
    BY <1>8 DEF AllTried, TypeOK, Steps
  <2>2. NoNodeYet' /\ NothingSubscribed' /\ OnlyBootNodes' /\ OptionFollowed'
    BY <1>8 DEF AllTried, TypeOK
  <2>3. FailureHasCause' /\ ErrorLeavesNoNode'
    BY <1>8 DEF AllTried
  <2> QED BY <2>1, <2>2, <2>3
<1>9. CASE RelaySubscribe
  <2>1. TypeOK'
    <3>1. /\ step' \in Steps /\ filter_protocol # "None" /\ node_failed' \in BOOLEAN
          /\ subscriptions' \subseteq {"relay", "filter"}
      BY <1>9 DEF RelaySubscribe, refused, TypeOK, Steps
    <3>2. /\ UNCHANGED <<addresses_ok, wallet_ok, port_ok, graph_account, graph_node>>
          /\ UNCHANGED <<network_subgraph, boot>>
          /\ UNCHANGED <<filter_protocol, checked_account, identity_account, nodes, peers>>
          /\ UNCHANGED <<connect_protocol, callback, filter_protocol_enabled>>
          /\ UNCHANGED <<node, relay, to_ask>>
      BY <1>9 DEF RelaySubscribe, refused
    <3> QED BY <3>1, <3>2 DEF TypeOK
  <2>2. NoNodeYet' /\ NothingSubscribed' /\ OnlyBootNodes' /\ OptionFollowed'
    BY <1>9 DEF RelaySubscribe, refused, TypeOK
  <2>3. FailureHasCause' /\ ErrorLeavesNoNode'
    BY <1>9 DEF RelaySubscribe, refused
  <2> QED BY <2>1, <2>2, <2>3
<1>10. CASE ListPeers
  <2>1. TypeOK'
    <3>1. /\ step' \in Steps /\ filter_protocol # "None" /\ node_failed' \in BOOLEAN
          /\ to_ask' \subseteq Peers \cup {Local}
      BY <1>10 DEF ListPeers, refused, TypeOK, Steps
    <3>2. /\ UNCHANGED <<addresses_ok, wallet_ok, port_ok, graph_account, graph_node>>
          /\ UNCHANGED <<network_subgraph, boot>>
          /\ UNCHANGED <<filter_protocol, checked_account, identity_account, nodes, peers>>
          /\ UNCHANGED <<connect_protocol, callback, filter_protocol_enabled>>
          /\ UNCHANGED <<node, relay, subscriptions>>
      BY <1>10 DEF ListPeers, refused
    <3> QED BY <3>1, <3>2 DEF TypeOK
  <2>2. NoNodeYet' /\ NothingSubscribed' /\ OnlyBootNodes' /\ OptionFollowed'
    BY <1>10 DEF ListPeers, refused, TypeOK
  <2>3. FailureHasCause' /\ ErrorLeavesNoNode'
    BY <1>10 DEF ListPeers, refused
  <2> QED BY <2>1, <2>2, <2>3
<1>11. ASSUME NEW p \in Peers \cup {Local}, AskPeer(p) PROVE IInv'
  <2>1. TypeOK'
    BY <1>11 DEF AskPeer, TypeOK, Steps
  <2>2. NoNodeYet' /\ NothingSubscribed' /\ OnlyBootNodes' /\ OptionFollowed'
    BY <1>11 DEF AskPeer, TypeOK
  <2>3. FailureHasCause' /\ ErrorLeavesNoNode'
    BY <1>11 DEF AskPeer
  <2> QED BY <2>1, <2>2, <2>3
<1>12. CASE AllAsked
  <2>1. TypeOK'
    BY <1>12 DEF AllAsked, TypeOK, Steps
  <2>2. NoNodeYet' /\ NothingSubscribed' /\ OnlyBootNodes' /\ OptionFollowed'
    BY <1>12 DEF AllAsked, TypeOK
  <2>3. FailureHasCause' /\ ErrorLeavesNoNode'
    BY <1>12 DEF AllAsked
  <2> QED BY <2>1, <2>2, <2>3
<1>13. CASE RegisterHandler
  <2>1. TypeOK'
    BY <1>13 DEF RegisterHandler, TypeOK, Steps
  <2>2. NoNodeYet' /\ NothingSubscribed' /\ OnlyBootNodes' /\ OptionFollowed'
    BY <1>13 DEF RegisterHandler, TypeOK
  <2>3. FailureHasCause' /\ ErrorLeavesNoNode'
    BY <1>13 DEF RegisterHandler
  <2> QED BY <2>1, <2>2, <2>3
<1>14. CASE PeersChange
  <2>1. TypeOK'
    BY <1>14 DEF PeersChange, TypeOK, Steps
  <2>2. NoNodeYet' /\ NothingSubscribed' /\ OnlyBootNodes' /\ OptionFollowed'
    BY <1>14 DEF PeersChange, TypeOK
  <2>3. FailureHasCause' /\ ErrorLeavesNoNode'
    BY <1>14 DEF PeersChange
  <2> QED BY <2>1, <2>2, <2>3
<1>15. CASE UNCHANGED vars
  <2>1. TypeOK'
    BY <1>15 DEF vars, TypeOK, Steps
  <2>2. NoNodeYet' /\ NothingSubscribed' /\ OnlyBootNodes' /\ OptionFollowed'
    BY <1>15 DEF vars, TypeOK
  <2>3. FailureHasCause' /\ ErrorLeavesNoNode'
    BY <1>15 DEF vars
  <2> QED BY <2>1, <2>2, <2>3
<1> QED
  BY <1>1, <1>2, <1>3, <1>4, <1>5, <1>6, <1>7, <1>8, <1>9, <1>10, <1>11, <1>12, <1>13,
     <1>14, <1>15 DEF Next

(* The invariant holds throughout the set-up.                              *)
LEMMA Invariance == Spec => []IInv
BY InitIInv, NextIInv, PTL DEF Spec

(* The set-up stays in its ranges, with the option defaulted.              *)
THEOREM TypeCorrect == Spec => []TypeOK
<1>1. IInv => TypeOK BY DEF IInv
<1> QED BY <1>1, Invariance, PTL

(* An agent that runs relays, connects and subscribes for one protocol.    *)
THEOREM OneProtocol == Spec => []ProtocolsAgree
<1>1. IInv => ProtocolsAgree
  BY DEF IInv, OptionFollowed, ProtocolsAgree, TypeOK
<1> QED BY <1>1, Invariance, PTL

(* The set-up returns an error or panics for the causes listed only: no    *)
(* verdict on the account, no peer and no discovery keeps an agent from    *)
(* coming up.                                                              *)
THEOREM FailuresHaveCauses == Spec => []FailureHasCause
<1>1. IInv => FailureHasCause BY DEF IInv
<1> QED BY <1>1, Invariance, PTL

(* An error that is returned leaves no node running, boot nodes apart.     *)
THEOREM NoNodeAfterError == Spec => []ErrorLeavesNoNode
<1>1. IInv => ErrorLeavesNoNode BY DEF IInv
<1> QED BY <1>1, Invariance, PTL
=============================================================================
