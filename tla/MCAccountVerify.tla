--------------------------- MODULE MCAccountVerify ---------------------------
(* One signer that may be a Graph account itself, an indexer with the signer *)
(* and another address as possible operators, and one or two deployments.    *)
EXTENDS AccountVerify

CONSTANTS alice, bob, indexer, deployed, other

MCAgents == {alice}
MCAccounts == {alice, indexer}
MCOperators == {alice, bob}
MCHashes == {deployed}
MCTwoHashes == {deployed, other}
=============================================================================
