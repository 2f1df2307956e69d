--------------------------- MODULE RadioPipeline ---------------------------
(***************************************************************************)
(* A message on its way from the radios that send it to the one that acts  *)
(* on it: a sender stamps it with its own clock as nonce, gossip delivers  *)
(* it late, out of order and more than once, the agent lets it through     *)
(* once, and the radio validates what it receives.  The agent is the       *)
(* MessageInbox that GraphcastAgent implements, the validation is that of  *)
(* MessageValidity.                                                        *)
(*                                                                         *)
(* The ids that the agent has seen, its channel and the nonces are all in  *)
(* the memory of the radio: a restart loses them, while gossip still holds *)
(* the old messages.                                                       *)
(***************************************************************************)
EXTENDS MessageValidity, Integers, Sequences, FiniteSets

CONSTANTS
  Skew,                 \* how far the clock of each signer is ahead
  MaxRestarts           \* bound of the restarts of the radio

ASSUME SkewAssumption == Skew \in [Signers -> Int]
ASSUME RestartsAssumption == MaxRestarts \in Nat

VARIABLES
  fate, queue,          \* the agent, see MessageInbox
  sent,                 \* messages in the order in which they were sent
  restarts,
  started,              \* the clock at the last start of the radio
  accepted,             \* messages accepted since then, in order
  accepted_before       \* messages accepted by earlier runs of the radio

agent == <<fate, queue>>
validation == <<id_validation, stage, nonces>>
runs == <<restarts, started, accepted_before>>
pipelineVars == <<validation, clock, agent, sent, runs, accepted>>

Inbox == INSTANCE MessageInbox

PipelineInit == /\ Init
                /\ Inbox!Init
                /\ sent = <<>>
                /\ restarts = 0
                /\ started = StartClock
                /\ accepted = <<>>
                /\ accepted_before = {}

Sent == {sent[i] : i \in DOMAIN sent}

(* send_message stamps a message with the time of its sender; a message    *)
(* whose signature is broken may claim any time.                           *)
stamped(m) == SignerOf[m] # BadSignature => NonceOf[m] = clock + Skew[SignerOf[m]]

Send(m) == /\ m \notin Sent
           /\ stamped(m)
           /\ sent' = Append(sent, m)
           /\ UNCHANGED <<validation, clock, agent, runs, accepted>>

(* Gossip may bring any message that was ever sent, any number of times.   *)
Deliver(m) == /\ m \in Sent
              /\ Inbox!Decide(m)
              /\ UNCHANGED <<validation, clock, sent, runs, accepted>>

(* The radio keeps its end of the channel for as long as it runs.          *)
HandOver == /\ \/ \E m \in Messages : Inbox!Enqueue(m)
               \/ Inbox!Receive
            /\ UNCHANGED <<validation, clock, sent, runs, accepted>>

(* The radio validates a message it has received.                          *)
Validate(m) == /\ fate[m] = "received"
               /\ \/ valid_sender(m) \/ verify_returns(m)
                  \/ valid_time(m) \/ valid_nonce(m)
               /\ accepted' = IF stage'[m] = "accepted" THEN Append(accepted, m)
                                                        ELSE accepted
               /\ UNCHANGED <<agent, sent, runs>>

(* Seeded fault: the nonces outlive the radio.                             *)
fresh_nonces_kept == nonces

fresh_nonces == [k \in Keys |-> NoNonce]

(* The program ends and is started again, with a new agent.                *)
Restart == /\ restarts < MaxRestarts
           /\ restarts' = restarts + 1
           /\ started' = clock
           /\ accepted_before' = accepted_before \cup {accepted[i] : i \in DOMAIN accepted}
           /\ accepted' = <<>>
           /\ stage' = [m \in Messages |-> "new"]
           /\ nonces' = fresh_nonces
           /\ fate' = [m \in Messages |-> "unknown"]
           /\ queue' = <<>>
           /\ UNCHANGED <<id_validation, clock, sent>>

PipelineTick == Tick /\ UNCHANGED <<agent, sent, runs, accepted>>

PipelineNext == \/ \E m \in Messages : Send(m) \/ Deliver(m) \/ Validate(m)
                \/ HandOver
                \/ Restart
                \/ PipelineTick

PipelineSpec == PipelineInit /\ [][PipelineNext]_pipelineVars

-----------------------------------------------------------------------------
(* Every variable of the pipeline stays in its range.                      *)
PipelineTypeOK == /\ TypeOK
                  /\ Inbox!TypeOK
                  /\ sent \in Seq(Messages)
                  /\ restarts \in 0..MaxRestarts
                  /\ started \in Nat /\ started <= clock
                  /\ accepted \in Seq(Messages)
                  /\ accepted_before \subseteq Messages

SentLater(m, n) == \E i, j \in DOMAIN sent : i < j /\ sent[i] = m /\ sent[j] = n

(* A message that is dropped as stale was overtaken: its sender sent       *)
(* another one about the same identifier after it, and the radio has dealt *)
(* with that one in this run.  Redeliveries, messages of the same second   *)
(* and clocks that differ between radios are no reason to drop one.  (The  *)
(* first message compared in a run is dropped too, see OneFirstMessage.)   *)
StaleMeansOvertaken ==
  \A m \in Messages :
    stage[m] = "stale" => \E n \in Compared(KeyOf(m)) : SentLater(m, n)

(* Within a run, a radio acts on a message at most once, and on those of   *)
(* one sender about one identifier in the order in which they were sent,   *)
(* give or take those of the same second, in whatever order they arrive.   *)
ActsInOrder ==
  \A i, j \in DOMAIN accepted :
    i < j => /\ accepted[i] # accepted[j]
             /\ KeyOf(accepted[i]) = KeyOf(accepted[j]) =>
                  NonceOf[accepted[i]] <= NonceOf[accepted[j]]

(* A radio that has lost its seen ids and nonces does not act on messages  *)
(* that were sent (by the clock of their sender) MSG_REPLAY_LIMIT or more  *)
(* before it started, whatever gossip still holds.                         *)
NoOldMessages ==
  \A m \in Messages :
    stage[m] = "accepted" => started < NonceOf[m] + MSG_REPLAY_LIMIT

(* A restarted radio acts again on a message that it acted on before only  *)
(* after another message of the same sender about the same identifier, not *)
(* newer than this one, was spent on the first nonce of the new run.       *)
AgainNeedsAnother ==
  \A m \in accepted_before :
    stage[m] = "accepted" =>
      \E n \in Compared(KeyOf(m)) \ {m} : stage[n] = "first" /\ NonceOf[n] <= NonceOf[m]
=============================================================================
