--------------------------- MODULE GraphcastAgent ---------------------------
(***************************************************************************)
(* The running GraphcastAgent: the Waku event callback, which library      *)
(* threads run and which filters gossip into the channel of the radio;     *)
(* send_message, which the radio's tasks call; update_content_topics and   *)
(* stop.  They share the set of seen message ids and the content topics,   *)
(* each behind a mutex of its own.                                         *)
(*                                                                         *)
(* A message is identified with its Waku message id.  Signals that are not *)
(* messages make handle_signal return an error before it touches any       *)
(* state, and so does a send on an unknown topic: neither is a step here.  *)
(***************************************************************************)
EXTENDS Naturals, Sequences

CONSTANTS
  Messages,             \* every Waku message that can cross the network
  OwnMessages,          \* those the local node may send
  Topics,               \* content topics
  TopicOf,              \* the content topic of each message
  SubtopicChoices,      \* the topic lists the radio may configure
  Threads,              \* library threads that run the event callback
  Callers,              \* tasks of the radio that call send_message
  NoMessage, NoThread

ASSUME MessagesAssumption == /\ OwnMessages \subseteq Messages
                             /\ NoMessage \notin Messages
ASSUME TopicsAssumption == /\ TopicOf \in [Messages -> Topics]
                           /\ SubtopicChoices \subseteq SUBSET Topics
ASSUME ThreadsAssumption == NoThread \notin Threads

VARIABLES
  seen_msg_ids,         \* ids that were received or sent
  seen_lock,            \* the thread that holds the mutex of seen_msg_ids
  content_topics,       \* the topics subscribed to; none means any
  callback,             \* "handler", or "empty" once stop has replaced it
  hpc, hmsg,            \* where each callback thread is, and with which message
  spc, smsg,            \* the same for each call of send_message
  published,            \* messages handed to the relay: they may be echoed
  sent,                 \* messages whose send_message has returned
  channel,              \* the mpsc channel to the radio
  receiver,             \* "open", "ended" (recv failed) or "dropped"
  received, lost,       \* what the radio got, and what never reached it
  agent                 \* "running", "silenced", "stopped" or "stop_failed"

handler_vars == <<hpc, hmsg>>
sender_vars == <<spc, smsg, published, sent>>
radio_vars == <<channel, receiver, received, lost>>
stop_vars == <<callback, agent>>
vars == <<seen_msg_ids, seen_lock, content_topics, handler_vars, sender_vars,
          radio_vars, stop_vars>>

Init == /\ seen_msg_ids = {}
        /\ seen_lock = NoThread
        /\ content_topics \in SubtopicChoices
        /\ callback = "handler"
        /\ hpc = [t \in Threads |-> "idle"]
        /\ hmsg = [t \in Threads |-> NoMessage]
        /\ spc = [c \in Callers |-> "idle"]
        /\ smsg = [c \in Callers |-> NoMessage]
        /\ published = {}
        /\ sent = {}
        /\ channel = <<>>
        /\ receiver = "open"
        /\ received = {}
        /\ lost = {}
        /\ agent = "running"

-----------------------------------------------------------------------------
(* The event callback.                                                     *)

HandlerAt(t, pc, m) == /\ hpc' = [hpc EXCEPT ![t] = pc]
                       /\ hmsg' = [hmsg EXCEPT ![t] = m]

(* Seeded fault: an early return is missing.                               *)
HandlerFallsThrough(t) == HandlerAt(t, hpc[t], NoMessage)

HandlerReturns(t) == HandlerAt(t, "idle", NoMessage)

(* What gossip can deliver: remote messages, and echoes of own ones.       *)
Deliverable == (Messages \ OwnMessages) \cup published

(* The library calls the registered callback with a message event.         *)
Signal(t, m) == /\ callback = "handler"
                /\ hpc[t] = "idle"
                /\ m \in Deliverable
                /\ HandlerAt(t, "called", m)
                /\ UNCHANGED <<seen_msg_ids, seen_lock, content_topics,
                               sender_vars, radio_vars, stop_vars>>

Queued == {channel[i] : i \in DOMAIN channel}
MessagesAt(pc) == {hmsg[t] : t \in {u \in Threads : hpc[u] = pc}}
Accepted == MessagesAt("accepted")
Deciding == MessagesAt("marked")

(* Seeded faults: only what the radio has taken counts as seen; an id is   *)
(* remembered only once its message has passed the topic filter.           *)
SeenByRadio(m) == m \in received
SeenIfRelevant(m) == m \in Accepted \cup Queued \cup received \cup lost

AlreadySeen(m) == m \in seen_msg_ids

(* Seeded fault: send_message does not record its id.                      *)
RememberedRemote(m) == seen_msg_ids \cup ({m} \ OwnMessages)

Remembered(m) == seen_msg_ids \cup {m}

SkipRepeated(t) == /\ hpc[t] = "called"
                   /\ seen_lock = NoThread
                   /\ AlreadySeen(hmsg[t])
                   /\ HandlerReturns(t)
                   /\ UNCHANGED <<seen_msg_ids, seen_lock, content_topics,
                                  sender_vars, radio_vars, stop_vars>>

(* The id is marked before the topic is looked at, and the mutex is kept.  *)
MarkSeen(t) == /\ hpc[t] = "called"
               /\ seen_lock = NoThread
               /\ ~AlreadySeen(hmsg[t])
               /\ seen_lock' = t
               /\ seen_msg_ids' = Remembered(hmsg[t])
               /\ HandlerAt(t, "marked", hmsg[t])
               /\ UNCHANGED <<content_topics, sender_vars, radio_vars,
                              stop_vars>>

match_content_topic(topic) == content_topics = {} \/ topic \in content_topics

(* handle_signal ends: the mutex is released, the message kept or skipped. *)
MatchTopic(t) == /\ hpc[t] = "marked"
                 /\ seen_lock' = NoThread
                 /\ IF match_content_topic(TopicOf[hmsg[t]])
                    THEN HandlerAt(t, "accepted", hmsg[t])
                    ELSE HandlerReturns(t)
                 /\ UNCHANGED <<seen_msg_ids, content_topics, sender_vars,
                                radio_vars, stop_vars>>

(* sender.send, outside both mutexes; it fails when the receiver is gone.  *)
Forward(t) == /\ hpc[t] = "accepted"
              /\ IF receiver = "open"
                 THEN channel' = Append(channel, hmsg[t]) /\ UNCHANGED lost
                 ELSE lost' = lost \cup {hmsg[t]} /\ UNCHANGED channel
              /\ HandlerReturns(t)
              /\ UNCHANGED <<seen_msg_ids, seen_lock, content_topics, received,
                             receiver, sender_vars, stop_vars>>

HandlerStep(t) == SkipRepeated(t) \/ MarkSeen(t) \/ MatchTopic(t) \/ Forward(t)

-----------------------------------------------------------------------------
(* send_message and update_content_topics, while the agent is not moved    *)
(* into stop.                                                              *)

CallAt(c, pc, m) == /\ spc' = [spc EXCEPT ![c] = pc]
                    /\ smsg' = [smsg EXCEPT ![c] = m]

SelectTopic(c, m) == /\ agent = "running"
                     /\ spc[c] = "idle"
                     /\ TopicOf[m] \in content_topics
                     /\ CallAt(c, "selected", m)
                     /\ UNCHANGED <<seen_msg_ids, seen_lock, content_topics,
                                    published, sent, handler_vars, radio_vars,
                                    stop_vars>>

Publish(c) == /\ spc[c] = "selected"
              /\ published' = published \cup {smsg[c]}
              /\ CallAt(c, "published", smsg[c])
              /\ UNCHANGED <<seen_msg_ids, seen_lock, content_topics, sent,
                             handler_vars, radio_vars, stop_vars>>

(* Signing or relay_publish_message fails.                                 *)
SendFails(c) == /\ spc[c] = "selected"
                /\ CallAt(c, "idle", NoMessage)
                /\ UNCHANGED <<seen_msg_ids, seen_lock, content_topics,
                               published, sent, handler_vars, radio_vars,
                               stop_vars>>

RecordSent(c) == /\ spc[c] = "published"
                 /\ seen_lock = NoThread
                 /\ seen_msg_ids' = Remembered(smsg[c])
                 /\ sent' = sent \cup {smsg[c]}
                 /\ CallAt(c, "idle", NoMessage)
                 /\ UNCHANGED <<seen_lock, content_topics, published,
                                handler_vars, radio_vars, stop_vars>>

update_content_topics == /\ agent = "running"
                         /\ content_topics' \in SubtopicChoices
                         /\ UNCHANGED <<seen_msg_ids, seen_lock, handler_vars,
                                        sender_vars, radio_vars, stop_vars>>

-----------------------------------------------------------------------------
(* stop consumes the agent, so no call that borrows it is in progress.     *)

(* Seeded fault: the node is stopped with the handler still registered.    *)
KeepCallback == /\ agent = "running"
                /\ \A c \in Callers : spc[c] = "idle"
                /\ agent' = "silenced"
                /\ UNCHANGED <<seen_msg_ids, seen_lock, content_topics, callback,
                               handler_vars, sender_vars, radio_vars>>

SetEmptyCallback == /\ agent = "running"
                    /\ \A c \in Callers : spc[c] = "idle"
                    /\ callback' = "empty"
                    /\ agent' = "silenced"
                    /\ UNCHANGED <<seen_msg_ids, seen_lock, content_topics,
                                   handler_vars, sender_vars, radio_vars>>

StopNode == /\ agent = "silenced"
            /\ agent' \in {"stopped", "stop_failed"}
            /\ UNCHANGED <<seen_msg_ids, seen_lock, content_topics, callback,
                           handler_vars, sender_vars, radio_vars>>

-----------------------------------------------------------------------------
(* The radio's end of the channel.                                         *)

Recv == /\ receiver = "open"
        /\ channel # <<>>
        /\ received' = received \cup {Head(channel)}
        /\ channel' = Tail(channel)
        /\ UNCHANGED <<seen_msg_ids, seen_lock, content_topics, receiver, lost,
                       handler_vars, sender_vars, stop_vars>>

(* Seeded fault: the Sender is gone as soon as the callback is replaced.   *)
SenderRegistered == callback = "handler"

(* The closure that owns the Sender lives while it is the registered       *)
(* callback or a thread still runs it.                                     *)
SenderAlive == callback = "handler" \/ \E t \in Threads : hpc[t] # "idle"

RecvFails == /\ receiver = "open"
             /\ channel = <<>>
             /\ ~SenderAlive
             /\ receiver' = "ended"
             /\ UNCHANGED <<seen_msg_ids, seen_lock, content_topics, channel,
                            received, lost, handler_vars, sender_vars,
                            stop_vars>>

(* A radio may also give up its Receiver at any time.                      *)
DropReceiver == /\ receiver = "open"
                /\ receiver' = "dropped"
                /\ channel' = <<>>
                /\ lost' = lost \cup Queued
                /\ UNCHANGED <<seen_msg_ids, seen_lock, content_topics,
                               received, handler_vars, sender_vars, stop_vars>>

(* Shut down for good: the only states in which nothing is left to do.     *)
Terminated == /\ agent \in {"stopped", "stop_failed"}
              /\ receiver # "open"
              /\ \A t \in Threads : hpc[t] = "idle"
              /\ UNCHANGED vars

Next == \/ \E t \in Threads : (\E m \in Messages : Signal(t, m)) \/ HandlerStep(t)
        \/ \E c \in Callers : \/ \E m \in OwnMessages : SelectTopic(c, m)
                              \/ Publish(c) \/ SendFails(c) \/ RecordSent(c)
        \/ update_content_topics
        \/ SetEmptyCallback \/ StopNode
        \/ Recv \/ RecvFails \/ DropReceiver
        \/ Terminated

Spec == Init /\ [][Next]_vars

(* A callback that has started runs on, the radio keeps calling recv and a *)
(* stop that has begun goes on.  Gossip, sends, and the decision to stop   *)
(* are not fair, nor is the mutex: a thread may lose the race for ever     *)
(* while others keep taking it.                                            *)
FairSpec == /\ Spec
            /\ \A t \in Threads : WF_vars(HandlerStep(t))
            /\ WF_vars(Recv \/ RecvFails)
            /\ WF_vars(StopNode)

-----------------------------------------------------------------------------
HandlerStates == {"idle", "called", "marked", "accepted"}
CallStates == {"idle", "selected", "published"}

(* Every variable stays in its range, and a handler or a call carries a    *)
(* message exactly while it is busy.                                       *)
TypeOK ==
  /\ seen_msg_ids \subseteq Messages
  /\ seen_lock \in Threads \cup {NoThread}
  /\ content_topics \in SubtopicChoices
  /\ callback \in {"handler", "empty"}
  /\ hpc \in [Threads -> HandlerStates]
  /\ hmsg \in [Threads -> Messages \cup {NoMessage}]
  /\ \A t \in Threads : hpc[t] # "idle" => hmsg[t] \in Messages
  /\ spc \in [Callers -> CallStates]
  /\ smsg \in [Callers -> OwnMessages \cup {NoMessage}]
  /\ \A c \in Callers : spc[c] # "idle" => smsg[c] \in OwnMessages
  /\ published \subseteq OwnMessages
  /\ sent \subseteq OwnMessages
  /\ channel \in Seq(Messages)
  /\ receiver \in {"open", "ended", "dropped"}
  /\ received \subseteq Messages
  /\ lost \subseteq Messages
  /\ agent \in {"running", "silenced", "stopped", "stop_failed"}

(* Gossip redelivers, threads race and own messages are echoed, yet a      *)
(* message is at one place only on its way to the radio, and at most once  *)
(* (handle_signal's test of seen_msg_ids, the CHANGELOG's unique           *)
(* messages): with one thread past the filter, or once in the channel, or  *)
(* received, or lost.                                                      *)
AtMostOnce ==
  /\ \A t, u \in Threads :
       hpc[t] = "accepted" /\ hpc[u] = "accepted" /\ hmsg[t] = hmsg[u] => t = u
  /\ \A i, j \in DOMAIN channel : channel[i] = channel[j] => i = j
  /\ Accepted \cap (Queued \cup received \cup lost) = {}
  /\ Queued \cap (received \cup lost) = {}
  /\ received \cap lost = {}

(* When recv fails and the radio's receive loop ends, nothing that was     *)
(* accepted is left behind: the handlers that were still running when stop *)
(* replaced the callback have delivered, and the channel is drained.       *)
DrainedAtEnd ==
  receiver = "ended" => /\ channel = <<>> /\ lost = {}
                        /\ \A t \in Threads : hpc[t] = "idle"
                        /\ callback = "empty"

(* Once send_message has returned, no echo of the message gets past        *)
(* handle_signal any more.                                                 *)
EchoAfterSendIgnored == [][Accepted' \cap sent \subseteq Accepted]_vars

(* "Do not accept messages that were already received or sent by self"     *)
(* (handle_signal): no own message reaches the radio.                      *)
OwnMessagesNotAccepted ==
  (Accepted \cup Queued \cup received) \cap OwnMessages = {}

(* A message that passed the filter reaches the radio, or the radio has    *)
(* dropped its receiver.                                                   *)
AcceptedReachesRadio ==
  \A m \in Messages : m \in Accepted ~> m \in received \/ receiver = "dropped"

(* A stop that has begun lets the radio's receive loop end, whether or not *)
(* the node stops cleanly.                                                 *)
ShutdownCompletes == agent = "silenced" ~> receiver # "open"

-----------------------------------------------------------------------------
(* The abstract inbox: a verdict stands once the handler that decides has  *)
(* released the mutex, or send_message has recorded an own message.        *)
fate == [m \in Messages |->
           CASE m \in received -> "received"
             [] m \in lost -> "lost"
             [] m \in Queued -> "queued"
             [] m \in Accepted -> "accepted"
             [] m \in seen_msg_ids \ (received \cup lost \cup Queued \cup
                                       Accepted \cup Deciding) -> "ignored"
             [] OTHER -> "unknown"]

Inbox == INSTANCE MessageInbox WITH queue <- channel

(* The agent keeps the promise of MessageInbox: one final verdict per      *)
(* message and a hand-over at most once, in channel order.                 *)
ImplementsInbox == Inbox!Spec
=============================================================================
