# Graphcast SDK: specification, model checking and proofs

The Graphcast SDK lets *radios* (programs that index nodes run beside The Graph)
gossip signed messages over Waku.  This directory specifies the parts of it that
keep state or run concurrently, checks them with TLC on small instances, and
proves the main theorems with TLAPS for every value of the constants.
Line numbers are those of the repository at the commit modelled.

## 1. The system

| part | state | operations | hard because |
|---|---|---|---|
| running agent (`src/graphcast_agent/mod.rs`, `waku_handling.rs`) | `seen_msg_ids`, `content_topics` (a mutex each), the registered callback, the mpsc channel to the radio | the Waku event callback (`register_handler`, `handle_signal`, `match_content_topic`), `send_message`, `update_content_topics`, `stop` | library threads run the callback concurrently with sends and with `stop`; gossip redelivers and echoes |
| message validation (`message_typing.rs`) | `nonces` (async mutex) | `check_message_validity`: `valid_sender`, `valid_time`, `valid_nonce` | validations interleave at every await |
| account verification (`lib.rs`, `graphql/client_registry.rs`, `client_graph_account.rs`, `client_network.rs`) | none; reads the chain through two subgraphs | `Account::verify`, `valid_owner` | up to three awaited queries, each may fail, the chain moves in between |
| configuration and set-up (`mod.rs`, `waku_handling.rs`) | the configuration, the Waku node, its peers and subscriptions | `GraphcastAgentConfig::new`, `validate_set_up`, `GraphcastAgent::new`, `setup_node_handle`, `boot_node_handle`, ... | partial failures; one option read in three places |
| message blocks (`lib.rs`, `networks.rs`, `client_graph_node.rs`, `callbook.rs`) | the chain head a radio keeps per network | `update_network_chainheads`, `determine_message_block` | every radio sees another, ageing head, yet radios must speak about the same block |
| ping-pong radio (`examples/ping-pong`) | `MESSAGES` (mutex), `running`, `block_number` | main loop, receive task, signal task, shutdown | blocking calls on async workers, clearing a store that is being filled, joining at the end |
| peer maintenance (`mod.rs` 502-568) | the peer table of the Waku node | `network_check`, `peers_data`, `connected_peer_count`, ... | acts on a snapshot, takes no lock, unwraps |
| subgraph clients (`src/graphql`, `callbook.rs`) | none | one query each, and what is computed from the answers | partial data, errors beside data, conversions of numbers |
| radio pipeline (senders, gossip, agent, validation) | all of the above in memory only | a message from the clock that stamps it to the radio that acts on it | skewed clocks, redelivery, reordering, restarts |
| bots, tree tool, options, logging | none | formatting and I/O | - |

How they interact: the Waku library calls the callback that `register_handler`
installed; the callback filters the message and puts it into the mpsc channel;
the radio takes it out, decodes it and (a real radio; ping-pong does not)
validates it with `check_message_validity`, which calls `Account::verify`, which
queries the subgraphs.  The radio sends with `send_message`, which publishes
through the node and records the id in the set the callback reads.  What the
message is about is a block that `determine_message_block` derives from the chain
heads of the radio's own graph node.

What makes each part correct:

* agent - one final verdict per message, at most one hand-over, no echo once the
  send has returned, nothing accepted is lost at shutdown, shutdown completes;
* validation - saved nonces are the highest compared, never lowered, never ahead
  of the clock; accepted messages of a signer are in the order of their nonces;
  exactly one message is spent on the first nonce; own messages never count;
* verification - who has what the mode asks for, and nobody else, while the chain
  stands still; an outage of the registry does not shut out those the network vouches for;
* set-up - one protocol throughout; no failure for other causes than a short list;
  no node left behind by an error that the caller gets back;
* blocks - agreement of radios, blocks that the own node has, no going back;
* ping-pong - every ping answered, once; a signal ends the program, drained;
* peers - a check leaves connections to exactly the reachable relay peers, an
  unreachable peer does not end it, and only two situations make it panic;
* clients - no data that the network subgraph sends beside errors becomes an answer
  (the other clients never look at errors); for a minimum of a GRT or more, an
  indexer passes the stake check if and (up to rounding) only if it has the stake;
  the maps made of one answer fit together, but for the networks that share
  the name `Unknown`;
* pipeline - the radio acts on a message once and in the order of its sender,
  drops as stale only what was overtaken (and spends one message of each sender and
  identifier on the first nonce), and a restart does not revive old messages.

PROJECT.json lists the hazards of the code at their lines, with the properties
that watch each of them.

## 2. Modules

| module | models |
|---|---|
| `MessageInbox` | the promise of the agent to the radio (abstract) |
| `GraphcastAgent` | the running agent, refines `MessageInbox` |
| `GraphcastAgentProofs` | its theorems |
| `MessageValidity` | message validation |
| `AccountVerify`, `AccountVerifyProofs` | account verification |
| `AgentSetup`, `AgentSetupProofs` | configuration and set-up |
| `BlockClock`, `BlockClockProofs` | message blocks |
| `PingPong`, `PingPongProofs` | the ping-pong radio |
| `NodePeers`, `NodePeersProofs` | peer maintenance |
| `SubgraphClients`, `SubgraphClientsProofs` | the GraphQL clients and their conversions |
| `RadioPipeline`, `RadioPipelineProofs` | `MessageInbox` and `MessageValidity` composed, with senders, gossip and restarts; the theorems of both this module and `MessageValidity` |
| `MC*` | instances for TLC |

`PROJECT.json` maps each definition to the lines it translates.  Operators
marked *Seeded fault* are mistakes one could make in the definition that follows
them; with one of them in its place TLC finds a property violated.

### GraphcastAgent

A message stands for its Waku message id.  The callback is one thread-local
program with the states `idle`, `called`, `marked` (inside `handle_signal`, the
mutex of `seen_msg_ids` held) and `accepted` (mutex released, `sender.send` still
to come).  `SkipRepeated`, `MarkSeen`, `MatchTopic` and `Forward` are its steps;
`seen_lock` is the mutex.  The mutex of `content_topics` is only ever held for
one read or one write, so it is not a variable.  `send_message` is
`SelectTopic`, then `Publish` or `SendFails`, then `RecordSent`; from `Publish`
on the message may be echoed.  `stop` consumes the agent, so it starts only when
no `send_message` is in progress (the borrow checker sees to that); it replaces
the callback (`SetEmptyCallback`) and stops the node, which may fail (`StopNode`).
The closure owns the `Sender`: it lives while it is registered or a thread runs
it, and when it is gone and the channel is empty, `recv` fails (`RecvFails`).
Other signals than messages, and sends on an unknown topic, return before they
touch any state and are not steps.

The refinement: the `fate` of a message is `queued`, `received` or `lost` where it
is; `accepted` once the handler has released the mutex; `ignored` when its id is
in `seen_msg_ids` and it is nowhere; `unknown` before the verdict.  `MatchTopic`
and `RecordSent` decide; marking the id is a stutter.

### MessageValidity

Each message has a `stage`.  The steps are cut where the code awaits:
`valid_sender` up to the queries, `verify_returns` with any answer
(`AccountVerify` says which; one that panics ends the task, and the message stays
where it is), `valid_time`, and `valid_nonce`, which is one step
because it holds the mutex and does not await inside.  The nested maps of
`NoncesMap` are one function of identifier and signer; that the inner map is
created on demand shows in `valid_nonce` having two branches with the same
outcome, `first`.  The clock moves at any time and does not go back.

### AccountVerify

The chain (registrations, operators, stakes, deployments) is a variable that
changes at any time; `pc` follows `verify` from query to query.  What the
registry names first, which operator comes first, and whether a query fails, or
panics on an empty list of errors (`NetworkPanics`), are choices.
`Entitled` is what each mode asks of the chain.  For `SubgraphStaker` this is the
identity alone, as `verify` has it: that the account is an indexer or owns the
subgraph is left to the radio (section 3).  Addresses are compared as the code compares them; whether strings of
another case are the same address is left to `AgentSetup`
(`checked_account`, `identity_account`).  Registrations are only added during a verification and
graph accounts do not change: enough to make every answer stale.

### AgentSetup

A straight program with `step` as its program counter, from
`GraphcastAgentConfig::new` to the registered callback.  `err` is an error the
caller gets back, `panic` the end of the program.  The set-up awaits `verify`, whose
verdict and errors are only logged; but the clients of the network subgraph panic on an
empty list of errors, so `network_subgraph` says what `verify` meets there: no query
(the mode does not ask, or the registry sufficed), a reply, or such a list.  The Waku node may refuse every
call that the code checks; `node_failed` remembers that it did.  Peers come and
go as soon as the node runs.

### BlockClock

A status names one chain and its head as the node sees it, none, or a string
that is no number; an answer is a sequence of them (the nesting of statuses and
chains is flattened, the code treats it so).  Networks that `from_string` does not
know fall together in `Unknown`.  A graph node's view of a chain grows; a chain
that is cut back by a reorganisation is not modelled, so `BlocksNeverBack` is
about growing heads.  All statuses of one answer report the same head of a network, the
one that the node has at that moment; heads of different ages in one answer are
the subject of `SubgraphClients!BlocksFit`.

### PingPong

The main thread, the receive task and the signal task, with `MESSAGES` and its
mutex.  The main loop runs on the main thread; the two spawned tasks need a
worker thread of the runtime, and `recv` blocks the one it runs on
(`FreeWorker`).  The agent is what `GraphcastAgent` proves of it: each message is
delivered at most once, and the channel closes after `stop`.  Of `block_number`
only the value modulo 4 matters to `& 2`.

### NodePeers

The Waku node is external: its table of peers (which lists the node itself),
the protocols it knows of them, its connections and who can be reached change at
any time.  A thread of the radio that calls `network_check` takes its list in
`StartCheck` (`peers_data`) and goes through it with `Keep`, `Connect` and
`Disconnect`, in any order, since the order of the list is that of the library.
Several threads may check at once: the method takes `&self` and no lock.  A failed
connection is logged; a failed disconnection is unwrapped, and the model lets
it fail for a peer that is not connected.  `undisturbed` and `alone` are history
variables: what the properties promise holds for checks under which nothing
moved.  `number_of_peers` and `local_peer` only repeat what the node says.

A check does not subscribe with the peers it connects: with the filter protocol,
peers that join after the set-up are connected, and never asked for messages
(`waku_handling.rs` 77); and a peer whose protocols are not known yet, or that
only filters, is disconnected.  The module keeps both as the code has them.

### SubgraphClients

One query: `Build`, then `Transport` (every failure of the HTTP exchange) or
`Reply` with any errors and any data the query can get, then `CheckErrors`,
`CheckData` and `Extract`, for the seven queries.  The three of the graph account
query and that of the network look at the errors of a reply first, the others
never do.  Strings of digits are the numbers they denote, amounts are counted in
wei, so `add_decimal` is arithmetic: `0.` before the digits as they are is the
multiplication by the missing power of ten (`Power`).  `F32` is any monotone
rounding; `NearestKeepsOrder` (section 5) shows that this is no more than what
rounding to the nearest floating point number gives.
`network_chainheads` keeps the heads by `NetworkName` (`from_string`), which makes one
of all networks that are not listed, and of several heads the last; the statuses of
an answer may carry heads of different ages.
Of the `f32` parser nothing else is used; a string it accepts that is no
integer is not in the subgraphs.

### RadioPipeline

Extends `MessageValidity` with the rest of the way of a message: `Send` stamps it
with the clock of its sender (`Skew` apart from the radio's), gossip holds it for
ever and `Deliver`s it any number of times, the inbox of the agent decides about
it and hands it over, and the radio validates what it receives.  The agent is
`MessageInbox` rather than `GraphcastAgent`: the theorem `AgentImplementsInbox`
says that the one may stand for the other.  `Restart` is a new process: nonces,
seen ids and the channel are gone.  A message is validated once per hand-over,
and the inbox hands it over once per run.

## 3. Runs

`peers` and `pipeline` take one to two minutes with two workers, the other
passing runs less than one.

| run | question | bounds |
|---|---|---|
| `agent` | refinement, at most once, drained at the end, echoes, liveness | 2 remote and 1 own message, 2 topics, topic lists {a}, {b}, {}; 2 callback threads; 1 sender (72 102 states) |
| `validity` | nonces and order | 3 messages of one signer on one identifier (nonces 1, 2, 3; one ahead of the clock at first), one on another identifier, one own, one unsigned; clock 2..4, limit 2 |
| `account` | who is accepted | 1 signer that may be an account itself, 2 accounts, 2 operators, 1 deployment; all 7 modes, any initial chain |
| `setup` | one protocol, causes of failure | 3 peers (static, found by DNS, stranger), 2 spellings of an account, every option, every way the network subgraph and the graph node may reply |
| `blocks` | agreement, reached blocks, monotonicity | 2 radios, 1 network with interval 3 and blocks up to 3, 1 unlisted network that stays at block 0, answers of up to 2 statuses (105 225 states) |
| `pingpong` | answers, shutdown | 2 pings, 1 pong, 1 undecodable message, 2 workers |
| `peers` | settling, panics, convergence | 2 peers and the node, 2 checking threads, `MaxMoves` 2 moves of the environment, every initial table (485 100 states) |
| `pipeline` | once, in order, no revival | 3 messages of one signer, two of them of one second, 1 of a signer whose clock is ahead; clocks 1 behind and 1 ahead; limit 3, clock 2..4, 1 restart (2.7 million states) |
| `clients` | errors, stakes, maps | 7 queries; 2 decimals, floats of 4 binary digits, stakes around 1 GRT and around a minimum between two floats; up to 3 chains in an answer, 2 subgraphs, 1 listed and 2 other networks (7.2 million states) |

Why they are enough: the agent's races need two threads with one message, or one
thread and a sender; a third message gives queue order its meaning.  Three
nonces allow smaller, equal-to-saved and larger ones in every order of arrival,
and the clock passes the limit for the oldest and reaches the newest.  Blocks
up to the interval put two heads on both sides of a boundary.  What does not
depend on numbers is also proved (section 5).

Two moves let a peer go and come back, or identify itself and vanish, during a
check; two threads are what a check can be disturbed by.  In `pipeline` the oldest
message passes out of the window before or after the restart, and the restart
falls between any two steps.  In `clients`, amounts below, at and above the unit
and the minimum, and two that one float cannot tell apart, are all there is to
distinguish; three entries make the first and the last differ from one between.

The bounds are `MaxClock`, `MaxBlock`, `MaxStatuses`, `MaxMoves`, `MaxRestarts`,
`MaxEntries` and `MaxAmount`, and `Count` stops at 2
in `PingPong` (answered twice is already wrong).  The proofs about `BlockClock` and
`MessageValidity`, `NodePeers` and `RadioPipeline` hold for every value of theirs.

`CHECK_DEADLOCK FALSE` is set where the program stops: every message validated,
verification answered, set-up ended, query returned, every check panicked.  The others check deadlock; an agent that is
shut down, or a radio that has exited, stutters in `Terminated`.

Runs that end in a violation state a sentence of the repository that the code
does not keep; the findings in PROJECT.json quote it:

| run | the code |
|---|---|
| `agent_echo` | an echo that overtakes `send_message` is accepted (mod.rs 487) |
| `account_owner` | `valid_owner` is negated (lib.rs 248) |
| `pingpong_one_worker` | with one worker, the signal is never handled (main.rs 122) |

Differences between text and code that the modules keep as the code has them, and
that no run states:

* `SubgraphStaker` is to accept an indexer or the owner of the subgraph and to
  exclude curators and delegators (`message_typing.rs` 355-356); `verify` accepts a
  registered signer of the account, or any Graph account, curators and delegators
  included, with no stake asked for, and leaves ownership to the radio (`lib.rs` 254,
  302-303, 313), whose check `valid_owner` is the negated one of `account_owner`;
* an account that the network subgraph verified names its first operator, which
  need not be the signer whose address `lib.rs` 179 says it keeps
  (`client_graph_account.rs` 60); nothing decides by it;
* a signer that the registry knows for another account is refused without asking
  the network subgraph (`lib.rs` 281, 296), although `message_typing.rs` 353 and
  the help of ping-pong (`config.rs` 88) speak of either;
* `validate_set_up` verifies the account as it was supplied (`mod.rs` 149), while
  the messages it is to stand for carry it in lower case (`lib.rs` 343);
* `network_check` "tries to reconnect" (`mod.rs` 532), and disconnects whoever is not
  known to relay, filter-only peers included (`mod.rs` 550);
* the claimed account is compared with the verified one in every mode, also in the
  modes that only ask for a registered signer (`lib.rs` 296);
* `filter_protocol_enabled` is true whenever the option is given, also when it asks
  for the relay protocol (`mod.rs` 358);
* a boot node is told to relay when its own filter option is off (`waku_handling.rs` 138);
* `& 2` is not the test for even blocks that the comment describes (`main.rs` 161);
* ping-pong saves messages that it has not validated (`main.rs` 126).

## 4. Fairness

`GraphcastAgent!FairSpec`: a callback that has started runs on, the radio keeps
calling `recv`, a `stop` that has begun goes on.  Each is a thread that nothing
blocks for good.  Nothing is assumed of gossip, of sends or of the decision to
stop, and the mutex is not fair (`std::sync::Mutex` is not), so nothing is claimed
of a thread that keeps losing it: `AcceptedReachesRadio` starts where the mutex
has been released, and `ShutdownCompletes` holds because a replaced callback
gets no new calls, so contention ends.

`PingPong!FairSpec`: the main thread, the receive task and the signal task are
weakly fair, but the signal task is enabled only while a worker is free.
`radio_handler` is strongly fair: the main loop releases the mutex of `MESSAGES`
for the five seconds of every round's sleep.

`NodePeers!FairSpec`: a thread that runs a check goes on with it, since the calls of
the library return.  That a check is ever started, and everything the peers do,
is not assumed; `ChecksConverge` therefore starts at a check that runs.

There is no liveness for `verify`, `check_message_validity` and the set-up: their
queries have no timeout.

## 5. Proofs

Eight modules hold theorems, checked by tlapm with SMT (Z3), Zenon and LS4.
Every safety property of the passing runs is a theorem.  Some theorems are about
formulas that no run checks: checked ones are stronger or wider (`NoncesMonotone`
follows from `SavedNonceIsHighest` over time, `AcceptedInOrder` from `ActsInOrder`), a
proof is all they need (`OwnMessagesRejected`, `PipelineTypeOK`, `VerdictsStand`,
`SettledStays`), or they are the safety half of a liveness property that a run
checks under fairness:

| liveness, checked by TLC | not stuck | comes nearer |
|---|---|---|
| `ShutdownCompletes` | `ShutdownGoesOn` | `ShutdownEnds` |
| `SignalEndsProgram`, from the join on | `JoinGoesOn` | `JoinEnds` |
| `ChecksConverge`, once settled | | `ChecksAgree` |

"Not stuck" says in terms of the guards that some step towards the end can be made;
"comes nearer" that no step leads away from it and that those steps use up
something finite.  What is missing to the liveness itself is fairness, hence
`ENABLED`, which the prover does not know.

* `GraphcastAgentProofs`.  The inductive invariant adds to the types: the mutex
  is held exactly from `MarkSeen` to `MatchTopic` (`LockInv`); whatever is past
  the test, handed on or recorded by a send is in `seen_msg_ids` (`SeenInv`); a
  message is past the filter in one thread, or in one place of the channel, or
  received, or lost (`PlaceInv`, which `AtMostOnce` alone is too weak to keep:
  it says nothing of a thread that still holds the mutex); and what is lost was
  lost after the receiver went (`RadioInv`).  The refinement proof goes by
  situations: a step changes the fate only of the message that it moves
  (`SameFate`, `OneFate`, `NoFate`), and one lemma per action names the step of
  the inbox.  `MessageInbox` states its promise as two formulas, `QueuedOnce` and
  `VerdictFinal`; they are proved of the inbox alone, with the fates left abstract
  (`InboxPromise`), and come down to the agent by the refinement
  (`AgentKeepsPromise`).  That the shutdown cannot get stuck rests on `LockInv`: who
  holds the mutex can go on.
* `RadioPipelineProofs`, part 1, for `MessageValidity`.  The invariant says that the
  saved nonce is the maximum of the messages compared, which are all past the time
  check and hence not ahead of the clock; the action properties follow from it and
  one step.
* `AccountVerifyProofs`.  One invariant says which paths lead where (`PathInv`),
  one what each answer said about a chain that has not changed (`AnswerInv`).
* `AgentSetupProofs`.  Where the set-up is determines what it has done for the
  option (`OptionFollowed`); causes are kept from step to step.
* `BlockClockProofs`.  Arithmetic lemmas about rounding (`RoundedIs`,
  `RoundedAgree`, `RoundedClose`, `RoundedMonotone`), that the last reporting
  status exists and bounds what the radio keeps (`LastReporting`,
  `UpdatedHeads`), and the invariant that a head kept or used is 0 or at most
  what the node has followed.
* `PingPongProofs`.  A message is in one place, the channel, the receive task or
  the store (`InTransit`, `StoreDistinct`); while the loop over the store runs the
  store is locked and exactly the pings before `next` are answered (`LoopLocked`,
  `AnswersCounted`), which is what `PingsAnsweredOnce` lacks to be inductive; and the
  task ends only with the channel closed and empty (`Ending`, `Accounted`).  That
  main and the task do not wait for each other at the join rests on `Released`: the
  store is locked only while main answers, and the sender is gone from the join on.
* `NodePeersProofs`.  An undisturbed check knows the relay peers as they are, what
  it has visited is as it should be, and no other check has cut off a relay peer
  that its list shows connected (`Fresh`): two undisturbed checks never undo each
  other, and a settled node stays settled (`ChecksAgree`).  A check that had the node
  to itself finds the peers still to visit as they were listed (`Unshared`), so only
  an unconnected one makes it panic.
* `RadioPipelineProofs`, part 2, for the pipeline: the steps of the pipeline that
  validate are steps of `MessageValidity` and keep its invariant; to it come the
  order in which a sender stamps (`SentInOrder`), that only sent messages are
  delivered and only received ones validated (`OnlySent`), that whatever is past the
  time check was young enough at the start of the run (`YoungEnough`), and how the
  stale, the first and the accepted ones compare (`StaleBelow`, `FirstLowest`).  But
  for restarts every step of the pipeline is one of `MessageInbox` or none, and one
  of `MessageValidity` or none (`PipelineIsComposed`), so that nonces and verdicts
  last until the next restart (`OnlyRestartsRevive`).
* `SubgraphClientsProofs`.  The invariant says which steps give which result; the
  rest is about data.  `LeastElement` (the naturals are well founded) and
  `Induction`, which takes the set of the numbers that have a property, stand in
  for the library's induction theorems, whose parameter is an operator.  With them:
  the recursive function `Power` exists (`PowerDefined`) and splits a GRT into the
  digits before and after the point (`PowerSplit`); a short amount has a number of
  digits, so `add_decimal` keeps it below a GRT (`AddDecimal`); a rounding that keeps
  the order of neighbours keeps the order (`F32Monotone`), and a choice of nearest
  numbers does so (`NearestKeepsOrder`).  The stake theorems are about a minimum of a GRT
  or more: below, `add_decimal` reads 50 wei as 0.50 and 5 wei as 0.5, so a stake
  of a tenth of the minimum passes.  The first and the last of the entries that
  say something exist (`LeastIs`, `GreatestIs`), which is what `network_chainheads`
  and `subgraph_network_blocks` pick; the last head is the highest if heads do not fall
  along the answer, and a listed network shares its name with no other
  (`SupportedIsSole`), so the block kept of a subgraph is not beyond it (`MapsFit`).

The assumptions are the named `ASSUME`s of the modules: the types of the
constants, distinct null values, intervals greater than 0.

Only model-checked: liveness (`AcceptedReachesRadio`, `ShutdownCompletes`,
`PingsGetAnswers`, `SignalEndsProgram`, `ChecksConverge`), out of the prover's reach but
for the safety parts above; and the three runs that find a violation, which are
statements about one behaviour each.

## 6. Not modelled, and why

* The contents of messages, EIP-712 encoding, signatures: recovering a signer is
  a function of the message.  A bad signature is `BadSignature`.
* The Waku library and gossip: any order, repetition and loss; no delivery.
* The text of errors and the log.
* `bots.rs`, `tree_to_txt.rs`, `config.rs` of the example, `init_tracing`:
  stateless input and output.
* Poisoned mutexes: the holders of the mutexes do not panic.

## 7. What could follow

1. Reorganisations of a chain in `BlockClock`, with what `BlocksNeverBack` then
   still promises.
2. The answers of the queries in `AccountVerify` derived from `SubgraphClients`
   instead of chosen: a composition of the two.
3. The set-up and the running agent composed, with the messages that arrive
   between the subscription and the registration of the callback.
