---------------------------- MODULE MCNodePeers ----------------------------
(* Two peers, two threads that check at any time, and moves enough for a    *)
(* peer to go and come back during a check.                                 *)
EXTENDS NodePeers, TLC

CONSTANTS p, q, one, two

MCPeers == {p, q}
MCCheckers == {one, two}
=============================================================================
