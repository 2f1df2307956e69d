----------------------------- MODULE MCPingPong -----------------------------
(* Two pings, a pong and a message of another type.                         *)
EXTENDS PingPong

CONSTANTS ping1, ping2, pong, garbage

MCMessages == {ping1, ping2, pong, garbage}
MCPings == {ping1, ping2}
MCUndecodable == {garbage}
=============================================================================
