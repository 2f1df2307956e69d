------------------------- MODULE MCSubgraphClients -------------------------
(* Two digits after the point and floating point numbers of four binary     *)
(* digits: amounts below and around one GRT, and around a minimum between   *)
(* two floating point numbers.                                              *)
EXTENDS SubgraphClients

CONSTANTS a, b, s, t, h

MCAccounts == {a, b}
MCSubgraphs == {s, t}
MCHashes == {h}
MCAmounts == {0, 5, 50, 99, 100, 101, 168, 170, 172, 1000}

(* Rounded to the nearest number of four binary digits, half up.            *)
Spacing(x) == 2 ^ (CHOOSE k \in 0 .. 20 :
                     /\ x < 16 * 2 ^ k
                     /\ k > 0 => x >= 16 * 2 ^ (k - 1))
Rounded(x) == LET u == Spacing(x) IN ((x + u \div 2) \div u) * u
MCF32 == [x \in 0 .. MaxAmount |-> Rounded(x)]
=============================================================================
