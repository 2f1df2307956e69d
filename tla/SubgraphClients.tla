-------------------------- MODULE SubgraphClients --------------------------
(***************************************************************************)
(* The GraphQL clients: one query from its arguments to the value or the   *)
(* QueryError it returns.  Each client reads the reply in its own way:     *)
(* those of the network subgraph look at the errors in it first, the       *)
(* others only at the data.  The stakes in a reply are strings of wei,     *)
(* which become floating point numbers of GRT.                             *)
(*                                                                         *)
(* Amounts and prices are counted in units of 10^-Decimals GRT, strings    *)
(* of digits are the numbers that they denote.                             *)
(***************************************************************************)
EXTENDS Naturals, Sequences

CONSTANTS
  Accounts, Subgraphs, Hashes,
  Networks,             \* names of networks in a reply
  Supported,            \* those that NetworkName::from_string knows
  Unknown,              \* what it makes of every other name
  NoData, Nothing,      \* null in a reply: the data, or something in it
  Unparsable,           \* a string that is not a number
  Decimals,             \* digits of a GRT after the point (18)
  Amounts, MaxAmount,   \* stakes in a reply, in wei, and a bound of amounts
  F32,                  \* the nearest floating point number to an amount
  Blocks,               \* block numbers in a reply
  MaxEntries,           \* bound of the chains in an answer about statuses
  Numbers, MaxI64       \* block numbers asked about; those that fit a variable

(* Powers of ten.                                                          *)
Power[k \in 0 .. Decimals] == IF k = 0 THEN 1 ELSE 10 * Power[k - 1]

GRT == Power[Decimals]

ASSUME AmountsAssumption == /\ Decimals \in Nat \ {0} /\ MaxAmount \in Nat
                            /\ Amounts \subseteq 0 .. MaxAmount /\ GRT <= MaxAmount
ASSUME F32Assumption == /\ F32 \in [0 .. MaxAmount -> Nat]
                        /\ \A x \in 1 .. MaxAmount : F32[x - 1] <= F32[x]
ASSUME BlocksAssumption == /\ Blocks \subseteq Nat /\ Numbers \subseteq Nat /\ MaxI64 \in Nat
                           /\ Nothing \notin Blocks /\ Unparsable \notin Blocks

ASSUME NetworksAssumption == Supported \subseteq Networks /\ Unknown \notin Networks

VARIABLES
  client,               \* which client asks
  asked,                \* its argument, when the answer depends on it
  step,                 \* how far the query is
  reply,                \* errors and data of the reply
  result                \* "none", "ok", "panic" or the kind of the error

vars == <<client, asked, step, reply, result>>

OfNetworkSubgraph == {"account", "owned", "hash", "network"}
Clients == OfNetworkSubgraph \cup {"registry", "statuses", "block_hash"}

Arguments(c) == CASE c = "account" -> BOOLEAN      \* operator = account?
                  [] c = "hash" -> Subgraphs
                  [] c = "block_hash" -> Numbers
                  [] OTHER -> {Nothing}

Maybe(S) == S \cup {Nothing}

Init == /\ client \in Clients
        /\ asked \in Arguments(client)
        /\ step = "build"
        /\ reply = Nothing
        /\ result = "none"

-----------------------------------------------------------------------------
(* Replies: what the first entry of a list says is the list, since the     *)
(* clients look no further, except for the statuses.                       *)

Owned == UNION {[S -> Maybe(Hashes)] : S \in SUBSET Subgraphs}

Indexer == [staked_tokens : Amounts \cup {Unparsable}, allocations : {"some", Nothing}]

(* A chain of a status; the statuses one after the other.                  *)
Entry == [subgraph : Subgraphs, network : Networks,
          latest_block : Maybe(Blocks \cup {Unparsable}),
          chain_head_block : Maybe(Blocks \cup {Unparsable})]

Data(c) == CASE c = "registry" -> Maybe(Accounts)
             [] c = "account" -> Maybe([id : Accounts, operator : Maybe(Accounts)])
             [] c = "owned" -> Maybe(Owned)
             [] c = "hash" -> Maybe(Owned)
             [] c = "network" -> [indexer : Maybe(Indexer),
                                  minimum : Amounts \cup {Unparsable}]
             [] c = "statuses" -> UNION {[1 .. k -> Entry] : k \in 0 .. MaxEntries}
             [] c = "block_hash" -> Maybe(Hashes)

Errors == {"absent", "empty", "indexing_error", "other"}

-----------------------------------------------------------------------------
(* try_into().unwrap()                                                     *)
fits(n) == n <= MaxI64

Return(r) == step' = "done" /\ result' = r

Build == /\ step = "build"
         /\ \/ /\ client = "block_hash" /\ ~fits(asked)
               /\ Return("panic")
            \/ /\ client = "block_hash" => fits(asked)
               /\ step' = "sent"
               /\ UNCHANGED result
         /\ UNCHANGED <<client, asked, reply>>

(* The request is lost, refused or answered with something that is not a   *)
(* GraphQL response.                                                       *)
Transport == /\ step = "sent"
             /\ Return("Transport")
             /\ UNCHANGED <<client, asked, reply>>

Reply == /\ step = "sent"
         /\ step' = "replied"
         /\ reply' \in [errors : Errors, data : Data(client) \cup {NoData}]
         /\ UNCHANGED <<client, asked, result>>

(* Seeded fault: errors beside data are overlooked.                        *)
looks_at_errors_alone(r) ==
  client \in OfNetworkSubgraph /\ r.errors # "absent" /\ r.data = NoData

looks_at_errors(r) == client \in OfNetworkSubgraph /\ r.errors # "absent"

(* The first of the errors decides; an empty list has none to look at.     *)
CheckErrors == /\ step = "replied"
               /\ looks_at_errors(reply)
               /\ Return(CASE reply.errors = "empty" -> "panic"
                           [] reply.errors = "indexing_error" -> "IndexingError"
                           [] OTHER -> "Other")
               /\ UNCHANGED <<client, asked, reply>>

CheckData == /\ step = "replied"
             /\ ~looks_at_errors(reply)
             /\ reply.data = NoData
             /\ Return(IF client = "statuses" THEN "IndexingError"
                                              ELSE "ParseResponseError")
             /\ UNCHANGED <<client, asked, reply>>

-----------------------------------------------------------------------------
(* query_graph_account, owned_subgraphs and subgraph_hash_by_id            *)

(* A signer that is the account itself needs no operator.                  *)
has_account(d) == d # Nothing /\ (asked \/ d.operator # Nothing)

(* The account must own the subgraph, and that have a current version.     *)
has_hash(d) == d # Nothing /\ asked \in DOMAIN d /\ d[asked] # Nothing

(* query_network_subgraph: add_decimal puts "0." before an amount of at    *)
(* most Decimals digits, as it is; a longer one gets its point.            *)
digits(a) == CHOOSE k \in 1 .. Decimals :
               a < Power[k] /\ \A l \in 1 .. k - 1 : a >= Power[l]

(* Seeded fault: a short amount is left as it is, in whole GRT.            *)
add_decimal_long_only(a) == IF a < GRT THEN a * GRT ELSE a

add_decimal(a) == IF a < GRT THEN a * Power[Decimals - digits(a)] ELSE a

grt_gwei_string_to_f32(a) == F32[add_decimal(a)]

(* Without allocations, or with a stake that is not a number, the indexer  *)
(* counts as absent.                                                       *)
is_indexer(i) ==
  i # Nothing /\ i.staked_tokens # Unparsable /\ i.allocations # Nothing

indexer_stake(i) == IF is_indexer(i) THEN grt_gwei_string_to_f32(i.staked_tokens) ELSE 0

(* Seeded fault: the stake must be above the minimum.                      *)
stake_above_requirement(d) ==
  indexer_stake(d.indexer) > grt_gwei_string_to_f32(d.minimum)

stake_satisfy_requirement(d) ==
  indexer_stake(d.indexer) >= grt_gwei_string_to_f32(d.minimum)

(* update_network_chainheads and subgraph_network_blocks: of the heads of  *)
(* a network the last one in the answer counts, of the blocks of a         *)
(* subgraph the first one.  The heads are kept by NetworkName, where all   *)
(* networks that from_string does not know are one; the blocks keep the    *)
(* name as it is.                                                          *)
number(n) == IF n = Unparsable THEN 0 ELSE n

from_string(n) == IF n \in Supported THEN n ELSE Unknown

Least(S) == CHOOSE i \in S : \A j \in S : i <= j
Greatest(S) == CHOOSE i \in S : \A j \in S : j <= i

head_of(e) == e.chain_head_block

heads_named(es, name) ==
  {i \in DOMAIN es : from_string(es[i].network) = name /\ head_of(es[i]) # Nothing}

(* Seeded fault: a head that is there already is not modified.             *)
kept_first(entries) == Least(entries)

kept(entries) == Greatest(entries)

network_chainheads(es) ==
  [name \in {n \in Supported \cup {Unknown} : heads_named(es, n) # {}} |->
     number(head_of(es[kept(heads_named(es, name))]))]

subgraph_network_blocks(es) ==
  LET latest(s) == {i \in DOMAIN es : es[i].subgraph = s /\ es[i].latest_block # Nothing}
  IN  [s \in {t \in Subgraphs : latest(t) # {}} |->
         LET e == es[Least(latest(s))]
         IN  [network |-> e.network, block |-> number(e.latest_block)]]

-----------------------------------------------------------------------------
has_value(d) == CASE client = "registry" -> d # Nothing
                  [] client = "account" -> has_account(d)
                  [] client = "owned" -> d # Nothing
                  [] client = "hash" -> has_hash(d)
                  [] client = "network" -> d.minimum # Unparsable
                  [] client = "statuses" -> TRUE
                  [] client = "block_hash" -> d # Nothing

Extract == /\ step = "replied"
           /\ ~looks_at_errors(reply)
           /\ reply.data # NoData
           /\ Return(IF has_value(reply.data) THEN "ok" ELSE "ParseResponseError")
           /\ UNCHANGED <<client, asked, reply>>

Next == Build \/ Transport \/ Reply \/ CheckErrors \/ CheckData \/ Extract

Spec == Init /\ [][Next]_vars

-----------------------------------------------------------------------------
Given(c) == client = c /\ result = "ok"

(* Data that the network subgraph sends along with an error, from a        *)
(* deployment that failed or is behind, is never taken for an answer, so   *)
(* no account is verified from it; and only an empty list of errors, or a  *)
(* block number beyond the GraphQL integers, makes a client panic.         *)
NoAnswerBesideErrors ==
  /\ result = "ok" /\ client \in OfNetworkSubgraph => reply.errors = "absent"
  /\ result = "panic" =>
       \/ client \in OfNetworkSubgraph /\ reply.errors = "empty"
       \/ client = "block_hash" /\ asked > MaxI64

(* An indexer that has the minimum stake, be it to the last wei, passes,   *)
(* for all the conversions in between, when the minimum is a GRT or more.  *)
EnoughStakePasses ==
  Given("network") =>
    LET d == reply.data IN
    /\ d.minimum >= GRT
    /\ is_indexer(d.indexer)
    /\ d.indexer.staked_tokens >= d.minimum
    => stake_satisfy_requirement(d)

(* When the minimum is a GRT or more, and no float takes it for 0, an      *)
(* indexer that passes has it, or a stake that floating point numbers      *)
(* cannot tell from it; one whose entry is incomplete does not pass.       *)
(* (Nothing of the kind holds below a GRT, where add_decimal reads a       *)
(* minimum of 50 wei as 0.50 and a stake of 5 wei as 0.5: it passes.)      *)
ShortStakeFails ==
  Given("network") =>
    LET d == reply.data IN
    d.minimum >= GRT /\ F32[d.minimum] > 0 /\ stake_satisfy_requirement(d) =>
      /\ is_indexer(d.indexer)
      /\ \/ d.indexer.staked_tokens >= d.minimum
         \/ F32[add_decimal(d.indexer.staked_tokens)] = F32[d.minimum]

(* The statuses were taken one after the other, each of one moment: no     *)
(* block is beyond the head beside it, and along the answer the head of a  *)
(* network does not fall.                                                  *)
Coherent(es) ==
  /\ \A i \in DOMAIN es :
       /\ es[i].chain_head_block # Unparsable
       /\ es[i].latest_block # Nothing =>
            /\ es[i].chain_head_block # Nothing
            /\ number(es[i].latest_block) <= es[i].chain_head_block
  /\ \A i, j \in DOMAIN es :
       /\ i <= j /\ es[i].network = es[j].network
       /\ Nothing \notin {es[i].chain_head_block, es[j].chain_head_block}
       => es[i].chain_head_block <= es[j].chain_head_block

(* No other network of the answer has the same NetworkName.                *)
SoleOfItsName(es, network) ==
  \A i \in DOMAIN es :
    from_string(es[i].network) = from_string(network) => es[i].network = network

(* The two maps that a radio makes of one answer fit together, although    *)
(* one keeps the first block and the other the last head: every subgraph   *)
(* is on a network whose NetworkName has a head, and its block is not      *)
(* beyond that head, if the network has the name to itself.  The networks  *)
(* that from_string knows always do; of several others the head may belong *)
(* to another one.                                                         *)
BlocksFit ==
  Given("statuses") /\ Coherent(reply.data) =>
    LET heads == network_chainheads(reply.data)
        blocks == subgraph_network_blocks(reply.data)
        name(s) == from_string(blocks[s].network)
    IN  \A s \in DOMAIN blocks :
          /\ name(s) \in DOMAIN heads
          /\ blocks[s].network \in Supported \/ SoleOfItsName(reply.data, blocks[s].network)
               => blocks[s].block <= heads[name(s)]
=============================================================================
