---------------------------- MODULE MCBlockClock ----------------------------
(* Two radios, a network with an interval of three blocks and one that      *)
(* NETWORKS does not list, which stays at block 0.                          *)
EXTENDS BlockClock, TLC
CONSTANTS radio1, radio2, mainnet, unlisted
MCRadios == {radio1, radio2}
MCNetworks == {mainnet, unlisted}
MCSupported == {mainnet}
MCInterval == mainnet :> 3
MCMaxBlock == (mainnet :> 3) @@ (unlisted :> 0)
RadioSymmetry == Permutations(MCRadios)
=============================================================================
