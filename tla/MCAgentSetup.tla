---------------------------- MODULE MCAgentSetup ----------------------------
(* A static node, one that only the DNS discovery returns and one that the  *)
(* node finds by itself; an account in mixed and in lower case.             *)
EXTENDS AgentSetup

CONSTANTS static, found, stranger, mixed, lower

MCPeers == {static, found, stranger}
MCStaticNodes == {static}
MCDnsNodes == {found}
MCAccounts == {mixed, lower}
MCLower == [a \in MCAccounts |-> lower]
=============================================================================
