--------------------------- MODULE AccountVerify ---------------------------
(***************************************************************************)
(* Account::verify: is the address that signed a message entitled to speak *)
(* for the Graph account that the message claims?  Depending on the        *)
(* configured IdentityValidation the answer takes up to three queries, of  *)
(* the Graphcast registry and of the network subgraph, each awaited; in    *)
(* between the chain may change, and any of them may fail.  valid_owner is *)
(* the check of subgraph ownership that the radio makes afterwards.        *)
(***************************************************************************)
EXTENDS Naturals

CONSTANTS
  Agents,               \* addresses that sign messages
  Accounts,             \* Graph accounts a message may claim
  Operators,            \* addresses an account may authorise
  Hashes,               \* deployments of the subgraph a message is about
  NoAccount, NoHash

ASSUME AddressAssumption == Agents \subseteq Operators /\ NoAccount \notin Accounts
ASSUME HashAssumption == NoHash \notin Hashes

Modes == {"NoCheck", "ValidAddress", "GraphcastRegistered", "GraphNetworkAccount",
          "RegisteredIndexer", "Indexer", "SubgraphStaker"}

VARIABLES
  registry,             \* registrations: pairs of an agent and an account
  graph_accounts,       \* accounts known to the network subgraph
  operators,            \* pairs of an account and an operator of it
  staked,               \* indexers that satisfy the minimum stake
  deployment,           \* what each account has deployed as the subgraph
  agent, account,       \* the Account under verification: signer, claim
  hash,                 \* the deployment that the message is about
  id_validation,
  pc,
  verified_account, verified_agent,
  owner,                \* what valid_owner said
  changed,              \* whether the chain changed since the start
  registry_failed, network_failed   \* whether a query to one of them failed

chain == <<registry, graph_accounts, operators, staked, deployment>>
request == <<agent, account, hash, id_validation>>
verified == <<verified_account, verified_agent>>
history == <<changed, registry_failed, network_failed>>
vars == <<chain, request, pc, verified, owner, history>>

Init == /\ registry \in SUBSET (Agents \X Accounts)
        /\ graph_accounts \in SUBSET Accounts
        /\ operators \in SUBSET (Accounts \X Operators)
        /\ staked \in SUBSET Accounts
        /\ deployment \in [Accounts -> Hashes \cup {NoHash}]
        /\ agent \in Agents
        /\ account \in Accounts
        /\ hash \in Hashes
        /\ id_validation \in Modes
        /\ pc = "start"
        /\ verified_account = NoAccount
        /\ verified_agent = agent
        /\ owner = "unasked"
        /\ changed = FALSE /\ registry_failed = FALSE /\ network_failed = FALSE

Goto(from, to) == pc = from /\ pc' = to
Verified(a, by) == verified_account' = a /\ verified_agent' = by

-----------------------------------------------------------------------------
(* Where the match on id_validation begins.                                *)
verify == /\ \/ /\ id_validation \in {"NoCheck", "ValidAddress"}
                /\ Goto("start", "compare")
                /\ Verified(account, agent)
             \/ /\ id_validation = "GraphNetworkAccount"
                /\ Goto("start", "network")
                /\ UNCHANGED verified
             \/ /\ id_validation \in {"GraphcastRegistered", "RegisteredIndexer",
                                      "Indexer", "SubgraphStaker"}
                /\ Goto("start", "registry")
                /\ UNCHANGED verified
          /\ UNCHANGED <<chain, request, owner, history>>

(* Seeded fault: only Indexer falls back to the network subgraph.          *)
falls_back_indexer == id_validation = "Indexer"

falls_back == id_validation \in {"Indexer", "SubgraphStaker"}

(* account_from_registry: query_registry takes the first registration of   *)
(* the agent.  An answer without one and a failed query are the same error.*)
RegistryAnswers == \E a \in Accounts : /\ <<agent, a>> \in registry
                                       /\ Goto("registry", "compare")
                                       /\ Verified(a, agent)
                                       /\ UNCHANGED <<chain, request, owner, history>>

(* Seeded fault: the error of the registry is swallowed.                   *)
RegistryErrSwallowed ==
  /\ Goto("registry", "compare")
  /\ UNCHANGED <<chain, request, verified, owner, changed, network_failed>>

RegistryErr == /\ Goto("registry", IF falls_back THEN "network" ELSE "rejected")
               /\ UNCHANGED <<chain, request, verified, owner, changed, network_failed>>

RegistryHasNone == /\ \A a \in Accounts : <<agent, a>> \notin registry
                   /\ RegistryErr
                   /\ UNCHANGED registry_failed

RegistryFails == RegistryErr /\ registry_failed' = TRUE

(* Seeded fault: an account is expected to be an operator of itself.       *)
is_operator_match == /\ account \in graph_accounts
                     /\ <<account, agent>> \in operators

(* query_graph_account: the claimed account, with the agent among its      *)
(* operators unless it is the account itself.                              *)
is_match == /\ account \in graph_accounts
            /\ agent = account \/ <<account, agent>> \in operators

(* The agent of the result is the first operator of the account.           *)
first_operator(a) == {o \in Operators : <<a, o>> \in operators}

NetworkAnswers == /\ is_match
                  /\ Goto("network", "compare")
                  /\ IF agent = account
                     THEN Verified(account, agent)
                     ELSE \E o \in first_operator(account) : Verified(account, o)
                  /\ UNCHANGED <<chain, request, owner, history>>

NetworkHasNone == /\ ~is_match
                  /\ Goto("network", "rejected")
                  /\ UNCHANGED <<chain, request, verified, owner, history>>

(* Seeded fault: the claim of the message is not compared.                 *)
is_any_account == TRUE

is_claimed == verified_account = account

needs_stake == id_validation \in {"RegisteredIndexer", "Indexer"}

Compare == /\ \/ ~is_claimed /\ Goto("compare", "rejected")
              \/ is_claimed /\ needs_stake /\ Goto("compare", "stake")
              \/ is_claimed /\ ~needs_stake /\ Goto("compare", "accepted")
           /\ UNCHANGED <<chain, request, verified, owner, history>>

(* valid_indexer                                                           *)
StakeAnswers == /\ Goto("stake", IF verified_account \in staked THEN "accepted"
                                                                ELSE "rejected")
                /\ UNCHANGED <<chain, request, verified, owner, history>>

(* A query of the network subgraph that verify awaits fails.               *)
NetworkFails == /\ Goto("network", "rejected") \/ Goto("stake", "rejected")
                /\ network_failed' = TRUE
                /\ UNCHANGED <<chain, request, verified, owner, changed,
                               registry_failed>>

(* Such a query is answered with an empty list of errors, of which the     *)
(* client takes the first (SubgraphClients!CheckErrors): verify panics.    *)
NetworkPanics == /\ Goto("network", "panicked") \/ Goto("stake", "panicked")
                 /\ network_failed' = TRUE
                 /\ UNCHANGED <<chain, request, verified, owner, changed,
                                registry_failed>>

(* valid_owner, which the radio calls on the verified account with the     *)
(* deployment that the message is about.                                   *)
valid_owner == deployment[verified_account] # hash

AskOwner == /\ pc = "accepted" /\ owner = "unasked"
            /\ id_validation = "SubgraphStaker"
            /\ \/ owner' \in {"error", "panicked"}
               \/ /\ deployment[verified_account] # NoHash
                  /\ owner' = IF valid_owner THEN "owner" ELSE "not_owner"
            /\ UNCHANGED <<chain, request, pc, verified, history>>

(* A registration, an operator or a stake comes or goes.                   *)
Toggled(s, e) == IF e \in s THEN s \ {e} ELSE s \cup {e}

ChainChanges ==
  /\ \/ \E r \in Agents \X Accounts : /\ registry' = registry \cup {r}
                                      /\ UNCHANGED <<operators, staked>>
     \/ \E o \in Accounts \X Operators : /\ operators' = Toggled(operators, o)
                                         /\ UNCHANGED <<registry, staked>>
     \/ \E a \in Accounts : /\ staked' = Toggled(staked, a)
                            /\ UNCHANGED <<registry, operators>>
  /\ changed' = TRUE
  /\ UNCHANGED <<graph_accounts, deployment, request, pc, verified, owner,
                 registry_failed, network_failed>>

Next == \/ verify
        \/ RegistryAnswers \/ RegistryHasNone \/ RegistryFails
        \/ NetworkAnswers \/ NetworkHasNone \/ NetworkFails \/ NetworkPanics
        \/ Compare \/ StakeAnswers
        \/ AskOwner
        \/ ChainChanges

Spec == Init /\ [][Next]_vars

-----------------------------------------------------------------------------
(* Every variable stays in its range, and a comparison has an account.     *)
TypeOK == /\ registry \subseteq Agents \X Accounts
          /\ graph_accounts \subseteq Accounts
          /\ operators \subseteq Accounts \X Operators
          /\ staked \subseteq Accounts
          /\ deployment \in [Accounts -> Hashes \cup {NoHash}]
          /\ agent \in Agents
          /\ account \in Accounts
          /\ hash \in Hashes
          /\ id_validation \in Modes
          /\ pc \in {"start", "registry", "network", "compare", "stake", "accepted",
                     "rejected", "panicked"}
          /\ verified_account \in Accounts \cup {NoAccount}
          /\ pc \in {"compare", "stake", "accepted"} => verified_account \in Accounts
          /\ verified_agent \in Operators
          /\ owner \in {"unasked", "owner", "not_owner", "error", "panicked"}
          /\ changed \in BOOLEAN /\ registry_failed \in BOOLEAN
          /\ network_failed \in BOOLEAN

(* What each mode asks of the chain: as the comments on IdentityValidation *)
(* say (message_typing.rs 343-356), but for SubgraphStaker.  There they    *)
(* ask for an indexer or the owner of the subgraph, and exclude curators   *)
(* and delegators; verify leaves that to the radio (lib.rs 254, 313) and   *)
(* asks for the identity alone: a signer registered for the account, or    *)
(* any Graph account, its own or one that it operates.                     *)
is_registered == <<agent, account>> \in registry
is_graph_account == /\ account \in graph_accounts
                    /\ agent = account \/ <<account, agent>> \in operators
Entitled ==
  CASE id_validation \in {"NoCheck", "ValidAddress"} -> TRUE
    [] id_validation = "GraphcastRegistered" -> is_registered
    [] id_validation = "GraphNetworkAccount" -> is_graph_account
    [] id_validation = "RegisteredIndexer" -> is_registered /\ account \in staked
    [] id_validation = "Indexer" ->
         (is_registered \/ is_graph_account) /\ account \in staked
    [] id_validation = "SubgraphStaker" -> is_registered \/ is_graph_account

(* While the chain stands still, whichever queries fail and whichever      *)
(* registration the registry names first, verify accepts nobody who does   *)
(* not have what its mode asks for, for the very account that the message  *)
(* claims.  (For SubgraphStaker this is the identity only: acceptance by   *)
(* verify does not mean that the account has a stake or owns a subgraph.)  *)
AcceptedIsEntitled == pc = "accepted" /\ ~changed => Entitled

(* An agent that is registered for no account but the one it claims is not *)
(* refused what the chain entitles it to, when the queries get answers.    *)
EntitledIsAccepted ==
  /\ pc = "rejected" /\ ~changed /\ ~registry_failed /\ ~network_failed
  /\ \A a \in Accounts : <<agent, a>> \in registry => a = account
  => ~Entitled

(* An outage of the registry does not shut out indexers and stakers who    *)
(* can be verified at the Graph network.                                   *)
RegistryOutageTolerated ==
  /\ pc = "rejected" /\ ~changed /\ registry_failed /\ ~network_failed
  /\ id_validation \in {"Indexer", "SubgraphStaker"}
  => ~(is_graph_account /\ Entitled)

(* "Check if the account owns a subgraph id" (valid_owner): true is said   *)
(* of an account that has the deployment only.                             *)
OwnerOwns == owner = "owner" => deployment[verified_account] = hash
=============================================================================
