----------------------------- MODULE BlockClock -----------------------------
(***************************************************************************)
(* How radios agree on the block a message is about.  Each radio asks its  *)
(* own graph node for the indexing statuses, keeps the chain head of every *)
(* network that they report (update_network_chainheads), and rounds the    *)
(* head down to a multiple of the network's interval                       *)
(* (determine_message_block).  The nodes follow the chains at a pace of    *)
(* their own, and the heads a radio keeps age until it asks again.         *)
(***************************************************************************)
EXTENDS Naturals, Sequences

CONSTANTS
  Radios,
  Networks,             \* names that graph nodes report
  Supported,            \* those that NetworkName::from_string knows
  Unknown,              \* what it makes of every other name
  Interval,             \* the interval that NETWORKS lists for a supported one
  NoHead, Unparsable,   \* no head in a status, or one that is not a number
  NoBlock, UnsupportedNetwork, FailedStatus,
  MaxStatuses, MaxBlock \* bounds of an answer and of each chain

ASSUME NetworksAssumption == Supported \subseteq Networks /\ Unknown \notin Networks
ASSUME IntervalAssumption == Interval \in [Supported -> Nat \ {0}]
ASSUME HeadsAssumption == NoHead \notin Nat /\ Unparsable \notin Nat
ASSUME ResultsAssumption == {NoBlock, UnsupportedNetwork, FailedStatus} \cap Nat = {}

VARIABLES
  chain,                \* the head of each chain
  followed,             \* how far the graph node of each radio follows it
  network_chainheads,   \* what each radio keeps, by NetworkName
  message_block,        \* its latest answer for each NetworkName
  used                  \* the chain head that answer was made from

vars == <<chain, followed, network_chainheads, message_block, used>>

NetworkNames == Supported \cup {Unknown}

Init == /\ chain = [n \in Networks |-> 0]
        /\ followed = [r \in Radios |-> chain]
        /\ network_chainheads = [r \in Radios |-> [n \in NetworkNames |-> NoHead]]
        /\ message_block = [r \in Radios |-> [n \in NetworkNames |-> NoBlock]]
        /\ used = [r \in Radios |-> [n \in NetworkNames |-> NoHead]]

Mine(n) == /\ chain[n] < MaxBlock[n]
           /\ chain' = [chain EXCEPT ![n] = @ + 1]
           /\ UNCHANGED <<followed, network_chainheads, message_block, used>>

Follow(r, n) == /\ followed[r][n] < chain[n]
                /\ followed' = [followed EXCEPT ![r][n] = @ + 1]
                /\ UNCHANGED <<chain, network_chainheads, message_block, used>>

(* A status names the network of a chain and its head as the node sees it. *)
Status(r) == UNION {[network : {n}, head : {followed[r][n], NoHead, Unparsable}] : n \in Networks}

(* The chains of the statuses in one answer, in the order of the answer.   *)
Statuses(r) == UNION {[1 .. k -> Status(r)] : k \in 0 .. MaxStatuses}

from_string(n) == IF n \in Supported THEN n ELSE Unknown

(* Seeded faults: a head that is not a number is kept, or taken for one    *)
(* far ahead (u64::MAX in place of the default).                           *)
number_unread(head) == head
number_far(head) == IF head = Unparsable THEN 1000 ELSE head

(* parse().unwrap_or_default()                                             *)
number(head) == IF head = Unparsable THEN 0 ELSE head

Reporting(ss, name) ==
  {i \in DOMAIN ss : from_string(ss[i].network) = name /\ ss[i].head # NoHead}

(* The last status that reports a head wins; networks that none reports    *)
(* are not in the map.                                                     *)
update_network_chainheads(ss) ==
  [name \in NetworkNames |->
     LET reporting == Reporting(ss, name)
     IN  IF reporting = {} THEN NoHead
         ELSE number(ss[CHOOSE i \in reporting : \A j \in reporting : j <= i].head)]

(* The radio's query returns; a query that fails leaves what it has.       *)
AskIndexingStatuses(r) ==
  /\ \E ss \in Statuses(r) :
       network_chainheads' = [network_chainheads EXCEPT ![r] = update_network_chainheads(ss)]
  /\ UNCHANGED <<chain, followed, message_block, used>>

(* Seeded faults: the block is rounded up to the interval, or not at all.  *)
rounded_up(b, interval) == IF b % interval = 0 THEN b ELSE b + interval - (b % interval)
rounded_not(b, interval) == b

rounded(b, interval) == b - (b % interval)

determine_message_block(heads, name) ==
  IF name \notin Supported THEN UnsupportedNetwork
  ELSE IF heads[name] = NoHead THEN FailedStatus
  ELSE rounded(heads[name], Interval[name])

Determine(r, name) ==
  /\ message_block' = [message_block EXCEPT
       ![r][name] = determine_message_block(network_chainheads[r], name)]
  /\ used' = [used EXCEPT ![r][name] = network_chainheads[r][name]]
  /\ UNCHANGED <<chain, followed, network_chainheads>>

Next == \/ \E n \in Networks : Mine(n) \/ \E r \in Radios : Follow(r, n)
        \/ \E r \in Radios : \/ AskIndexingStatuses(r)
                             \/ \E name \in NetworkNames : Determine(r, name)

Spec == Init /\ [][Next]_vars

-----------------------------------------------------------------------------
Blocks == Nat
Heads == Blocks \cup {NoHead}
Results == Blocks \cup {NoBlock, UnsupportedNetwork, FailedStatus}

(* Every variable stays in its range; a head that a radio keeps is a       *)
(* number.                                                                 *)
TypeOK == /\ chain \in [Networks -> Blocks]
          /\ followed \in [Radios -> [Networks -> Blocks]]
          /\ network_chainheads \in [Radios -> [NetworkNames -> Heads]]
          /\ message_block \in [Radios -> [NetworkNames -> Results]]
          /\ used \in [Radios -> [NetworkNames -> Heads]]

Answered(r, name) == message_block[r][name] \in Blocks

(* Two radios speak about the same block exactly when the heads they saw   *)
(* lie in the same interval, whatever their graph nodes and the age of the *)
(* heads; heads less than an interval apart give blocks at most one        *)
(* interval apart (determine_message_block).                               *)
BlocksAgree ==
  \A r, s \in Radios : \A name \in Supported :
    Answered(r, name) /\ Answered(s, name) =>
      LET i == Interval[name] IN
      /\ message_block[r][name] = message_block[s][name]
           <=> used[r][name] \div i = used[s][name] \div i
      /\ used[r][name] <= used[s][name] /\ used[s][name] < used[r][name] + i
           => message_block[s][name] \in {message_block[r][name],
                                         message_block[r][name] + i}

(* A radio never speaks about a block that its own graph node has not      *)
(* reached, so that the node can be asked about it; and never about a      *)
(* block of a network that NETWORKS does not list.                         *)
BlockReached ==
  \A r \in Radios : \A name \in NetworkNames :
    Answered(r, name) => /\ name \in Supported
                         /\ message_block[r][name] <= followed[r][name]
                         /\ followed[r][name] <= chain[name]

(* The message block of a radio does not go back, except to block 0 when   *)
(* the head in a status cannot be parsed.                                  *)
BlocksNeverBack ==
  [][\A r \in Radios : \A name \in NetworkNames :
       Answered(r, name) /\ Answered(r, name)' /\ message_block'[r][name] # 0 =>
         message_block[r][name] <= message_block'[r][name]]_vars
=============================================================================
