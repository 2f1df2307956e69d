------------------------ MODULE GraphcastAgentProofs ------------------------
(***************************************************************************)
(* Theorems about GraphcastAgent, for any messages, topics, callback       *)
(* threads and sending tasks.                                              *)
(***************************************************************************)
EXTENDS GraphcastAgent, TLAPS

Elements(s) == {s[i] : i \in DOMAIN s}
Injective(s) == \A i, j \in DOMAIN s : s[i] = s[j] => i = j

(* A thread is past the filter once it has marked its message as seen.     *)
PastFilter(t) == hpc[t] \in {"marked", "accepted"}
Handed == Elements(channel) \cup received \cup lost

(* The mutex of seen_msg_ids is held exactly from MarkSeen to MatchTopic.  *)
LockInv == \A t \in Threads : hpc[t] = "marked" <=> seen_lock = t

(* Whatever is past the filter is marked as seen, and what send_message has *)
(* recorded is never decided on again, ...                                  *)
SeenInv == /\ \A t \in Threads : PastFilter(t) => hmsg[t] \in seen_msg_ids
           /\ Handed \subseteq seen_msg_ids
           /\ sent \subseteq seen_msg_ids
           /\ \A t \in Threads : hpc[t] = "marked" => hmsg[t] \notin sent

(* ... and at one place only.                                              *)
PlaceInv ==
  /\ \A t, u \in Threads :
       PastFilter(t) /\ PastFilter(u) /\ hmsg[t] = hmsg[u] => t = u
  /\ \A t \in Threads : PastFilter(t) => hmsg[t] \notin Handed
  /\ Injective(channel)
  /\ Elements(channel) \cap received = {}
  /\ (Elements(channel) \cup received) \cap lost = {}

(* Nothing is lost while the radio listens, and it stops listening to a    *)
(* channel without senders only.                                           *)
RadioInv == /\ receiver = "open" => lost = {}
            /\ receiver = "ended" => channel = <<>> /\ lost = {} /\ ~SenderAlive

IInv == TypeOK /\ LockInv /\ SeenInv /\ PlaceInv /\ RadioInv

-----------------------------------------------------------------------------
(* What Append and Tail do to a sequence without repetition.              *)
LEMMA AppendElements ==
  ASSUME NEW S, NEW s \in Seq(S), NEW e \in S,
         Injective(s), e \notin Elements(s)
  PROVE  /\ Append(s, e) \in Seq(S)
         /\ Elements(Append(s, e)) = Elements(s) \cup {e}
         /\ Injective(Append(s, e))
<1> SUFFICES ASSUME NEW a, a = Append(s, e)
             PROVE  a \in Seq(S) /\ Elements(a) = Elements(s) \cup {e} /\ Injective(a)
  OBVIOUS
<1>1. /\ a \in Seq(S)
      /\ DOMAIN s = 1..Len(s) /\ DOMAIN a = 1..(Len(s) + 1) /\ Len(s) \in Nat
      /\ \A i \in 1..Len(s) : a[i] = s[i]
      /\ a[Len(s) + 1] = e
  OBVIOUS
<1>2. \A i \in 1..(Len(s) + 1) : i \in 1..Len(s) \/ i = Len(s) + 1
  BY <1>1
<1>3. Elements(a) \subseteq Elements(s) \cup {e}
  BY <1>1, <1>2 DEF Elements
<1>4. Elements(s) \cup {e} \subseteq Elements(a)
  <2>1. e \in Elements(a)
    BY <1>1 DEF Elements
  <2>2. \A i \in 1..Len(s) : i \in DOMAIN a /\ a[i] = s[i]
    BY <1>1
  <2>3. Elements(s) \subseteq Elements(a)
    BY <1>1, <2>2 DEF Elements
  <2> QED BY <2>1, <2>3
<1>5. Injective(a)
  BY <1>1, <1>2 DEF Elements, Injective
<1> QED BY <1>1, <1>3, <1>4, <1>5

(* What recv takes from an injective channel is gone from its tail.        *)
LEMMA TailElements ==
  ASSUME NEW S, NEW s \in Seq(S), s # <<>>, Injective(s),
         NEW z, z = Tail(s)
  PROVE  /\ z \in Seq(S)
         /\ Head(s) \in S
         /\ Head(s) \in Elements(s)
         /\ Elements(z) = Elements(s) \ {Head(s)}
         /\ Injective(z)
<1>1. /\ z \in Seq(S) /\ Head(s) \in S /\ Head(s) = s[1]
      /\ DOMAIN s = 1..Len(s) /\ Len(s) \in Nat /\ Len(s) >= 1
      /\ DOMAIN z = 1..(Len(s) - 1)
      /\ \A i \in 1..(Len(s) - 1) : z[i] = s[i + 1]
  OBVIOUS
<1>2. Elements(z) \subseteq Elements(s) \ {Head(s)}
  <2>1. \A i \in DOMAIN z : i + 1 \in DOMAIN s /\ i + 1 # 1 /\ z[i] = s[i + 1]
    BY <1>1
  <2>2. 1 \in DOMAIN s
    BY <1>1
  <2>3. \A i \in DOMAIN z : z[i] \in Elements(s) /\ z[i] # s[1]
    BY <2>1, <2>2 DEF Elements, Injective
  <2> QED BY <1>1, <2>3 DEF Elements
<1>3. Elements(s) \ {Head(s)} \subseteq Elements(z)
  <2>1. \A i \in DOMAIN s : i # 1 => i - 1 \in DOMAIN z /\ z[i - 1] = s[i]
    BY <1>1
  <2> QED BY <1>1, <2>1 DEF Elements
<1>4. Injective(z)
  BY <1>1 DEF Injective
<1>5. Head(s) \in Elements(s)
  BY <1>1 DEF Elements
<1> QED BY <1>1, <1>2, <1>3, <1>4, <1>5
-----------------------------------------------------------------------------
(* The invariant holds when register_handler has returned.                 *)
THEOREM InitIInv == Init => IInv
<1> SUFFICES ASSUME Init PROVE IInv
  OBVIOUS
<1> USE DEF Init
<1>1. TypeOK
  BY DEF TypeOK, HandlerStates, CallStates
<1>2. LockInv
  BY ThreadsAssumption DEF LockInv
<1>3. Elements(channel) = {} /\ Injective(channel)
  BY DEF Elements, Injective
<1>4. SeenInv /\ PlaceInv
  BY <1>3 DEF SeenInv, PlaceInv, PastFilter, Handed
<1>5. RadioInv
  BY DEF RadioInv
<1> QED BY <1>1, <1>2, <1>4, <1>5 DEF IInv

(* One step of the next-state relation keeps every variable in range.      *)
LEMMA TypeStep == TypeOK /\ [Next]_vars => TypeOK'
<1> SUFFICES ASSUME TypeOK, [Next]_vars PROVE TypeOK'
  OBVIOUS
<1> USE MessagesAssumption
    DEF TypeOK, HandlerStates, CallStates, handler_vars, sender_vars,
        radio_vars, stop_vars
<1>1. ASSUME NEW t \in Threads, NEW m \in Messages, Signal(t, m)
      PROVE  TypeOK'
  BY <1>1 DEF Signal, HandlerAt
<1>2. ASSUME NEW t \in Threads, SkipRepeated(t) PROVE TypeOK'
  BY <1>2 DEF SkipRepeated, HandlerReturns, HandlerAt
<1>3. ASSUME NEW t \in Threads, MarkSeen(t) PROVE TypeOK'
  BY <1>3 DEF MarkSeen, Remembered, HandlerAt
<1>4. ASSUME NEW t \in Threads, MatchTopic(t) PROVE TypeOK'
  <2>1. hmsg[t] \in Messages /\ seen_lock' \in Threads \cup {NoThread}
    BY <1>4 DEF MatchTopic
  <2>2. HandlerAt(t, "accepted", hmsg[t]) \/ HandlerAt(t, "idle", NoMessage)
    BY <1>4 DEF MatchTopic, HandlerReturns
  <2>3. /\ hpc' \in [Threads -> HandlerStates]
        /\ hmsg' \in [Threads -> Messages \cup {NoMessage}]
        /\ \A u \in Threads : hpc'[u] # "idle" => hmsg'[u] \in Messages
    BY <2>1, <2>2 DEF HandlerAt
  <2> QED BY <1>4, <2>1, <2>3 DEF MatchTopic
<1>5. ASSUME NEW t \in Threads, Forward(t) PROVE TypeOK'
  <2>1. hmsg[t] \in Messages
    BY <1>5 DEF Forward
  <2>2. channel' \in Seq(Messages) /\ lost' \subseteq Messages
    BY <1>5, <2>1 DEF Forward
  <2> QED BY <1>5, <2>2 DEF Forward, HandlerReturns, HandlerAt
<1>6. ASSUME NEW c \in Callers, NEW m \in OwnMessages, SelectTopic(c, m)
      PROVE  TypeOK'
  BY <1>6 DEF SelectTopic, CallAt
<1>7. ASSUME NEW c \in Callers, Publish(c) PROVE TypeOK'
  BY <1>7 DEF Publish, CallAt
<1>8. ASSUME NEW c \in Callers, SendFails(c) PROVE TypeOK'
  BY <1>8 DEF SendFails, CallAt
<1>9. ASSUME NEW c \in Callers, RecordSent(c) PROVE TypeOK'
  BY <1>9 DEF RecordSent, Remembered, CallAt
<1>10. CASE update_content_topics
  BY <1>10 DEF update_content_topics
<1>11. CASE SetEmptyCallback \/ StopNode
  BY <1>11 DEF SetEmptyCallback, StopNode
<1>12. CASE Recv
  <2>1. channel' \in Seq(Messages) /\ Head(channel) \in Messages
    BY <1>12 DEF Recv
  <2> QED BY <1>12, <2>1 DEF Recv
<1>13. CASE RecvFails
  BY <1>13 DEF RecvFails
<1>14. CASE DropReceiver
  BY <1>14 DEF DropReceiver, Queued
<1>15. CASE UNCHANGED vars
  BY <1>15 DEF vars
<1> QED BY <1>1, <1>2, <1>3, <1>4, <1>5, <1>6, <1>7, <1>8, <1>9, <1>10, <1>11,
           <1>12, <1>13, <1>14, <1>15 DEF Next, HandlerStep, Terminated

-----------------------------------------------------------------------------
(* The steps that disturb the invariant, one lemma for each.               *)
LEMMA MarkSeenStep ==
  ASSUME IInv, NEW t \in Threads, MarkSeen(t)
  PROVE  LockInv' /\ SeenInv' /\ PlaceInv' /\ RadioInv'
<1> USE DEF MarkSeen, Remembered, HandlerAt, IInv, TypeOK, sender_vars, radio_vars, stop_vars
<1>1. LockInv'
  BY ThreadsAssumption DEF LockInv
<1>2. SeenInv'
  <2>1. hmsg[t] \notin sent
    BY DEF SeenInv, AlreadySeen
  <2>2. \A u \in Threads : PastFilter(u)' => hmsg'[u] \in seen_msg_ids'
    BY DEF SeenInv, PastFilter
  <2>3. \A u \in Threads : hpc'[u] = "marked" => hmsg'[u] \notin sent
    BY <2>1 DEF SeenInv
  <2> QED BY <2>2, <2>3 DEF SeenInv, Handed
<1>3. hmsg[t] \notin Handed /\ \A u \in Threads : PastFilter(u) => hmsg[u] # hmsg[t]
  BY DEF SeenInv, AlreadySeen
<1>4. PlaceInv'
  <2>1. \A u, v \in Threads : PastFilter(u)' /\ PastFilter(v)' /\ hmsg'[u] = hmsg'[v]
                             => u = v
    BY <1>3 DEF PlaceInv, PastFilter
  <2>2. \A u \in Threads : PastFilter(u)' => hmsg'[u] \notin Handed
    BY <1>3 DEF PlaceInv, PastFilter
  <2> QED BY <2>1, <2>2 DEF PlaceInv, Handed
<1>5. RadioInv'
  BY DEF RadioInv, SenderAlive
<1> QED BY <1>1, <1>2, <1>4, <1>5

(* The end of handle_signal keeps the invariant.                           *)
LEMMA MatchTopicStep ==
  ASSUME IInv, NEW t \in Threads, MatchTopic(t)
  PROVE  LockInv' /\ SeenInv' /\ PlaceInv' /\ RadioInv'
<1> USE DEF IInv, TypeOK, sender_vars, radio_vars, stop_vars
<1>1. /\ hpc[t] = "marked" /\ seen_lock' = NoThread
      /\ UNCHANGED <<seen_msg_ids, content_topics, sender_vars, radio_vars, stop_vars>>
      /\ \A u \in Threads : u # t => hpc'[u] = hpc[u] /\ hmsg'[u] = hmsg[u]
      /\ (hpc'[t] = "accepted" /\ hmsg'[t] = hmsg[t]) \/ hpc'[t] = "idle"
  BY DEF MatchTopic, HandlerReturns, HandlerAt
<1>2. LockInv'
  BY <1>1, ThreadsAssumption DEF LockInv
<1>3. \A u \in Threads : PastFilter(u)' => PastFilter(u) /\ hmsg'[u] = hmsg[u]
  BY <1>1 DEF PastFilter
<1>4. SeenInv'
  BY <1>1, <1>3 DEF SeenInv, Handed
<1>5. PlaceInv'
  BY <1>1, <1>3 DEF PlaceInv, Handed
<1>6. RadioInv'
  BY <1>1 DEF RadioInv, SenderAlive
<1> QED BY <1>2, <1>4, <1>5, <1>6

(* sender.send in the callback keeps the invariant.                        *)
LEMMA ForwardStep ==
  ASSUME IInv, NEW t \in Threads, Forward(t)
  PROVE  LockInv' /\ SeenInv' /\ PlaceInv' /\ RadioInv'
<1> USE DEF IInv, TypeOK, sender_vars, stop_vars
<1>1. /\ hpc[t] = "accepted" /\ hpc'[t] = "idle"
      /\ UNCHANGED <<seen_msg_ids, seen_lock, received, receiver, sender_vars, stop_vars>>
      /\ \A u \in Threads : u # t => hpc'[u] = hpc[u] /\ hmsg'[u] = hmsg[u]
      /\ hmsg[t] \in Messages
  BY DEF Forward, HandlerReturns, HandlerAt
<1>2. LockInv'
  BY <1>1 DEF LockInv
<1>3. \A u \in Threads : PastFilter(u)' => u # t /\ PastFilter(u) /\ hmsg'[u] = hmsg[u]
  BY <1>1 DEF PastFilter
<1>4. PastFilter(t) /\ hmsg[t] \notin Handed /\ Injective(channel)
  BY <1>1 DEF PastFilter, PlaceInv
<1>5. \/ /\ receiver = "open" /\ lost' = lost
         /\ Elements(channel') = Elements(channel) \cup {hmsg[t]} /\ Injective(channel')
      \/ /\ receiver # "open" /\ lost' = lost \cup {hmsg[t]} /\ channel' = channel
  <2>1. CASE receiver = "open"
    <3>1. channel' = Append(channel, hmsg[t]) /\ lost' = lost
      BY <2>1 DEF Forward
    <3>2. hmsg[t] \notin Elements(channel)
      BY <1>4 DEF Handed
    <3>3. channel \in Seq(Messages) /\ hmsg[t] \in Messages /\ Injective(channel)
      BY <1>1, <1>4
    <3> HIDE DEF IInv, TypeOK
    <3>4. Elements(channel') = Elements(channel) \cup {hmsg[t]} /\ Injective(channel')
      BY <3>1, <3>2, <3>3, AppendElements
    <3> QED BY <2>1, <3>1, <3>4
  <2>2. CASE receiver # "open"
    BY <2>2 DEF Forward
  <2> QED BY <2>1, <2>2
<1>6. Handed' = Handed \cup {hmsg[t]}
  BY <1>1, <1>5 DEF Handed
<1>7. SeenInv'
  BY <1>1, <1>3, <1>4, <1>6 DEF SeenInv
<1>8. PlaceInv'
  <2>1. \A u, v \in Threads : PastFilter(u)' /\ PastFilter(v)' /\ hmsg'[u] = hmsg'[v]
                             => u = v
    BY <1>3 DEF PlaceInv
  <2>2. \A u \in Threads : PastFilter(u)' => hmsg'[u] \notin Handed'
    BY <1>3, <1>4, <1>6 DEF PlaceInv
  <2>3. /\ Injective(channel')
        /\ Elements(channel') \cap received' = {}
        /\ (Elements(channel') \cup received') \cap lost' = {}
    BY <1>1, <1>4, <1>5 DEF PlaceInv, Handed
  <2> QED BY <2>1, <2>2, <2>3 DEF PlaceInv
<1>9. RadioInv'
  BY <1>1, <1>5 DEF RadioInv, SenderAlive
<1> QED BY <1>2, <1>7, <1>8, <1>9

(* recv keeps the invariant.                                               *)
LEMMA RecvStep ==
  ASSUME IInv, Recv
  PROVE  LockInv' /\ SeenInv' /\ PlaceInv' /\ RadioInv'
<1> USE DEF IInv, TypeOK, Recv, handler_vars, sender_vars, stop_vars
<1>1. /\ Head(channel) \in Elements(channel)
      /\ Elements(channel') = Elements(channel) \ {Head(channel)}
      /\ Injective(channel')
  BY TailElements DEF PlaceInv
<1>2. Handed' = Handed
  BY <1>1 DEF Handed
<1>3. LockInv' /\ SeenInv' /\ RadioInv'
  BY <1>2 DEF LockInv, SeenInv, RadioInv, PastFilter
<1>4. PlaceInv'
  BY <1>1, <1>2 DEF PlaceInv, PastFilter
<1> QED BY <1>3, <1>4

(* Dropping the Receiver keeps the invariant.                              *)
LEMMA DropReceiverStep ==
  ASSUME IInv, DropReceiver
  PROVE  LockInv' /\ SeenInv' /\ PlaceInv' /\ RadioInv'
<1> USE DEF IInv, TypeOK, DropReceiver, handler_vars, sender_vars, stop_vars
<1>1. Elements(channel') = {} /\ Injective(channel') /\ Queued = Elements(channel)
  BY DEF Elements, Injective, Queued
<1>2. Handed' = Handed
  BY <1>1 DEF Handed
<1>3. LockInv' /\ SeenInv' /\ RadioInv'
  BY <1>2 DEF LockInv, SeenInv, RadioInv, PastFilter
<1>4. PlaceInv'
  BY <1>1, <1>2 DEF PlaceInv, PastFilter, Handed
<1> QED BY <1>3, <1>4

(* Every step of the next-state relation preserves the invariant.          *)
LEMMA InvStep == IInv /\ [Next]_vars => IInv'
<1> SUFFICES ASSUME IInv, [Next]_vars PROVE LockInv' /\ SeenInv' /\ PlaceInv' /\ RadioInv'
  BY TypeStep DEF IInv
<1> DEFINE Rest == LockInv /\ SeenInv /\ PlaceInv /\ RadioInv
<1> USE DEF handler_vars, sender_vars, radio_vars, stop_vars
<1>1. ASSUME NEW t \in Threads, \/ \E m \in Messages : Signal(t, m)
                                \/ SkipRepeated(t)
      PROVE  Rest'
  <2>1. /\ hpc[t] \in {"idle", "called"} /\ hpc'[t] \in {"idle", "called"}
        /\ \A u \in Threads : u # t => hpc'[u] = hpc[u] /\ hmsg'[u] = hmsg[u]
        /\ hpc[t] = "idle" => callback = "handler"
        /\ UNCHANGED <<seen_msg_ids, seen_lock, sender_vars, radio_vars, stop_vars>>
    BY <1>1 DEF Signal, SkipRepeated, HandlerReturns, HandlerAt, IInv, TypeOK
  <2>2. \A u \in Threads : PastFilter(u)' => PastFilter(u) /\ hmsg'[u] = hmsg[u]
    BY <2>1 DEF PastFilter
  <2>3. LockInv'
    BY <2>1 DEF LockInv, IInv
  <2>4. SeenInv' /\ PlaceInv'
    BY <2>1, <2>2 DEF SeenInv, PlaceInv, Handed, IInv
  <2>5. RadioInv'
    BY <2>1 DEF RadioInv, SenderAlive, IInv
  <2> QED BY <2>3, <2>4, <2>5
<1>2. ASSUME NEW t \in Threads, MarkSeen(t) \/ MatchTopic(t) \/ Forward(t)
      PROVE  Rest'
  BY <1>2, MarkSeenStep, MatchTopicStep, ForwardStep
<1>3. ASSUME NEW c \in Callers,
             \/ \E m \in OwnMessages : SelectTopic(c, m)
             \/ Publish(c) \/ SendFails(c) \/ RecordSent(c)
      PROVE  Rest'
  <2>1. /\ UNCHANGED <<seen_lock, handler_vars, radio_vars, stop_vars>>
        /\ seen_msg_ids \subseteq seen_msg_ids' /\ sent' \subseteq sent \cup seen_msg_ids'
    BY <1>3 DEF SelectTopic, Publish, SendFails, RecordSent, Remembered
  <2>2. sent' = sent \/ \A t \in Threads : hpc[t] # "marked"
    BY <1>3, ThreadsAssumption
    DEF SelectTopic, Publish, SendFails, RecordSent, IInv, LockInv
  <2> QED BY <2>1, <2>2 DEF IInv, LockInv, SeenInv, PlaceInv, RadioInv,
                            PastFilter, Handed, SenderAlive
<1>4. CASE update_content_topics \/ SetEmptyCallback \/ StopNode \/ RecvFails
           \/ UNCHANGED vars
  <2>1. /\ UNCHANGED <<seen_msg_ids, seen_lock, handler_vars, sender_vars, channel,
                       received, lost>>
        /\ \/ callback' \in {callback, "empty"} /\ receiver' = receiver
           \/ RecvFails
    BY <1>4 DEF update_content_topics, SetEmptyCallback, StopNode, RecvFails, vars
  <2>2. LockInv' /\ SeenInv' /\ PlaceInv'
    BY <2>1 DEF IInv, LockInv, SeenInv, PlaceInv, PastFilter, Handed
  <2>3. RadioInv'
    BY <2>1 DEF IInv, RadioInv, SenderAlive, RecvFails
  <2> QED BY <2>2, <2>3
<1>5. CASE Recv \/ DropReceiver
  BY <1>5, RecvStep, DropReceiverStep
<1> QED BY <1>1, <1>2, <1>3, <1>4, <1>5 DEF Next, HandlerStep, Terminated

(* The invariant holds always.                                             *)
LEMMA Invariance == Spec => []IInv
<1>1. Init => IInv
  BY InitIInv
<1>2. IInv /\ [Next]_vars => IInv'
  BY InvStep
<1> QED BY <1>1, <1>2, PTL DEF Spec

-----------------------------------------------------------------------------
(* Every variable of the agent stays in its range.                         *)
THEOREM TypeCorrect == Spec => []TypeOK
BY Invariance, PTL DEF IInv

(* Redelivered, raced or echoed, a message gets to the radio at most once: *)
(* handle_signal's test and insertion under the mutex of seen_msg_ids.     *)
THEOREM DeliveredAtMostOnce == Spec => []AtMostOnce
<1>1. IInv => AtMostOnce
  <2> SUFFICES ASSUME IInv PROVE AtMostOnce
    OBVIOUS
  <2>1. Queued = Elements(channel)
    BY DEF Queued, Elements
  <2>2. \A m \in Accepted : m \notin Handed
    BY DEF IInv, PlaceInv, PastFilter, Accepted, MessagesAt
  <2> QED BY <2>1, <2>2 DEF AtMostOnce, IInv, PlaceInv, PastFilter, Handed, Injective
<1> QED BY <1>1, Invariance, PTL

(* When the radio's receive loop ends after stop, every accepted message   *)
(* has been received.                                                      *)
THEOREM ShutdownDrains == Spec => []DrainedAtEnd
<1>1. IInv => DrainedAtEnd
  BY DEF IInv, TypeOK, RadioInv, DrainedAtEnd, SenderAlive
<1> QED BY <1>1, Invariance, PTL

(* Once send_message has returned, its message cannot get past the filter. *)
THEOREM EchoIgnored == Spec => EchoAfterSendIgnored
<1>1. ASSUME IInv, Next PROVE Accepted' \cap sent \subseteq Accepted
  <2> USE DEF handler_vars, IInv, TypeOK
  <2>1. ASSUME NEW t \in Threads, hpc'[t] = "accepted",
               hpc[t] # "accepted" \/ hmsg'[t] # hmsg[t]
        PROVE  hmsg'[t] \notin sent
    <3>1. MatchTopic(t)
      BY <1>1, <2>1
      DEF Next, HandlerStep, Signal, SkipRepeated, MarkSeen, MatchTopic, Forward,
          SelectTopic, Publish, SendFails, RecordSent, update_content_topics,
          SetEmptyCallback, StopNode, Recv, RecvFails, DropReceiver, Terminated,
          HandlerReturns, HandlerAt, vars
    <3> QED BY <1>1, <2>1, <3>1 DEF MatchTopic, HandlerReturns, HandlerAt, SeenInv
  <2> QED BY <2>1 DEF Accepted, MessagesAt
<1>2. IInv /\ [Next]_vars => [Accepted' \cap sent \subseteq Accepted]_vars
  BY <1>1
<1> QED BY <1>2, Invariance, PTL DEF Spec, EchoAfterSendIgnored

-----------------------------------------------------------------------------
(* The refinement.  Each message is in one of six situations, and its fate *)
(* follows from that situation.                                            *)
At(m, pc) == \E t \in Threads : hpc[t] = pc /\ hmsg[t] = m

FateIs(m) ==
  /\ m \in received => fate[m] = "received"
  /\ m \in lost => fate[m] = "lost"
  /\ m \in Elements(channel) => fate[m] = "queued"
  /\ At(m, "accepted") => fate[m] = "accepted"
  /\ m \in seen_msg_ids /\ m \notin Handed /\ ~At(m, "accepted") /\ ~At(m, "marked")
       => fate[m] = "ignored"
  /\ m \notin seen_msg_ids \/ At(m, "marked") => fate[m] = "unknown"

FateOK == /\ fate \in [Messages -> Inbox!Fates]
          /\ \A m \in Messages : FateIs(m)

(* What fate says of a message, case by case.                              *)
LEMMA FateSplit == IInv => FateOK
<1> SUFFICES ASSUME IInv PROVE FateOK
  OBVIOUS
<1>1. Queued = Elements(channel)
  BY DEF Queued, Elements
<1>2. \A m : (m \in Accepted <=> At(m, "accepted")) /\ (m \in Deciding <=> At(m, "marked"))
  BY DEF Accepted, Deciding, MessagesAt, At
<1>3. fate \in [Messages -> Inbox!Fates]
  BY DEF fate, Inbox!Fates
<1>4. ASSUME NEW m \in Messages PROVE FateIs(m)
  <2>1. /\ At(m, "marked") => m \notin Handed /\ ~At(m, "accepted") /\ m \in seen_msg_ids
        /\ At(m, "accepted") => m \notin Handed /\ m \in seen_msg_ids
    BY DEF IInv, PlaceInv, SeenInv, PastFilter, At
  <2>2. m \in Handed => m \in seen_msg_ids
    BY DEF IInv, SeenInv
  <2>3. /\ m \in Elements(channel) => m \notin received
        /\ m \in Elements(channel) \cup received => m \notin lost
    BY DEF IInv, PlaceInv
  <2> QED BY <1>1, <1>2, <2>1, <2>2, <2>3 DEF FateIs, fate, Handed
<1> QED BY <1>3, <1>4 DEF FateOK

(* The same in the next state.                                             *)
LEMMA FateSplitNext == IInv' => FateOK'
BY FateSplit, PTL

(* A new agent is a new inbox: no message has a verdict, none is queued.   *)
THEOREM InboxInit == Init => Inbox!Init
<1> SUFFICES ASSUME Init PROVE Inbox!Init
  OBVIOUS
<1>1. Queued = {} /\ Accepted = {}
  BY DEF Init, Queued, Accepted, MessagesAt
<1> QED BY <1>1 DEF Init, Inbox!Init, fate

(* A step that leaves the situation of a message as it is keeps its fate.  *)
Undecided(m) == m \notin seen_msg_ids \/ At(m, "marked")
SameSituation(m) == /\ m \in received' <=> m \in received
                    /\ m \in lost' <=> m \in lost
                    /\ m \in Elements(channel') <=> m \in Elements(channel)
                    /\ At(m, "accepted")' <=> At(m, "accepted")
                    /\ Undecided(m)' <=> Undecided(m)

(* A fate is unchanged where the places of a message are.                  *)
LEMMA SameFate ==
  ASSUME IInv, IInv', NEW m \in Messages, SameSituation(m)
  PROVE  fate'[m] = fate[m]
<1>1. FateIs(m) /\ FateIs(m)'
  BY FateSplit, FateSplitNext DEF FateOK
<1> QED BY <1>1 DEF SameSituation, Undecided, FateIs, Handed

(* When one message gets a new fate and no other message moves, that is    *)
(* the only change the inbox sees.                                         *)
LEMMA OneFate ==
  ASSUME IInv, IInv', NEW m \in Messages, NEW f \in Inbox!Fates, fate'[m] = f,
         \A x \in Messages \ {m} : SameSituation(x)
  PROVE  Inbox!Become(m, f)
<1>1. \A x \in Messages \ {m} : fate'[x] = fate[x]
  BY SameFate
<1>2. fate \in [Messages -> Inbox!Fates] /\ fate' \in [Messages -> Inbox!Fates]
  BY FateSplit, FateSplitNext DEF FateOK, Inbox!Fates
<1> HIDE DEF fate
<1> QED BY <1>1, <1>2 DEF Inbox!Become

(* A step that moves no message between its places stutters in the inbox.  *)
LEMMA NoFate ==
  ASSUME IInv, IInv', \A m \in Messages : SameSituation(m), channel' = channel
  PROVE  UNCHANGED Inbox!vars
<1>1. \A m \in Messages : fate'[m] = fate[m]
  BY SameFate
<1>2. fate \in [Messages -> Inbox!Fates] /\ fate' \in [Messages -> Inbox!Fates]
  BY FateSplit, FateSplitNext DEF FateOK, Inbox!Fates
<1>3. fate' = fate
  BY <1>1, <1>2
<1> QED BY <1>3 DEF Inbox!vars

-----------------------------------------------------------------------------
(* Which step of the inbox each step of the agent is.                      *)
InboxStep == Inbox!Next \/ UNCHANGED Inbox!vars

(* The verdict falls when the handler releases the mutex.                  *)
LEMMA MatchTopicRefines ==
  ASSUME IInv, IInv', NEW t \in Threads, MatchTopic(t)
  PROVE  \E m \in Messages : Inbox!Decide(m)
<1> PICK m \in Messages : m = hmsg[t]
  BY DEF MatchTopic, IInv, TypeOK
<1>1. /\ hpc[t] = "marked" /\ hmsg[t] = m
      /\ UNCHANGED <<seen_msg_ids, channel, received, lost>>
      /\ \A u \in Threads : u # t => hpc'[u] = hpc[u] /\ hmsg'[u] = hmsg[u]
      /\ (hpc'[t] = "accepted" /\ hmsg'[t] = m) \/ hpc'[t] = "idle"
  BY DEF MatchTopic, HandlerReturns, HandlerAt, radio_vars, IInv, TypeOK
<1>2. /\ m \in seen_msg_ids /\ m \notin Handed
      /\ \A u \in Threads : PastFilter(u) /\ hmsg[u] = m => u = t
  BY <1>1 DEF IInv, SeenInv, PlaceInv, PastFilter
<1>3. fate[m] = "unknown"
  BY <1>1, FateSplit DEF FateOK, FateIs, At
<1>4. fate'[m] \in {"ignored", "accepted"}
  <2>1. FateIs(m)'
    BY <1>1, FateSplitNext DEF FateOK
  <2>2. ~At(m, "marked")' /\ Handed' = Handed
    BY <1>1, <1>2 DEF At, PastFilter, Handed
  <2> QED BY <1>1, <1>2, <2>1, <2>2 DEF FateIs
<1>5. \A x \in Messages \ {m} : SameSituation(x)
  BY <1>1 DEF SameSituation, Undecided, At
<1>6. Inbox!Become(m, "ignored") \/ Inbox!Become(m, "accepted")
  BY <1>1, <1>4, <1>5, OneFate DEF Inbox!Fates
<1> QED BY <1>1, <1>3, <1>6 DEF Inbox!Decide

(* sender.send enqueues an accepted message, or loses it.                  *)
LEMMA ForwardRefines ==
  ASSUME IInv, IInv', NEW t \in Threads, Forward(t)
  PROVE  \E m \in Messages : Inbox!Enqueue(m) \/ Inbox!Lose(m)
<1> PICK m \in Messages : m = hmsg[t]
  BY DEF Forward, IInv, TypeOK
<1>1. /\ hpc[t] = "accepted" /\ hpc'[t] = "idle" /\ hmsg[t] = m
      /\ UNCHANGED <<seen_msg_ids, received>>
      /\ \A u \in Threads : u # t => hpc'[u] = hpc[u] /\ hmsg'[u] = hmsg[u]
  BY DEF Forward, HandlerReturns, HandlerAt, IInv, TypeOK
<1>2. fate[m] = "accepted"
  BY <1>1, FateSplit DEF FateOK, FateIs, At
<1>3. /\ channel \in Seq(Messages) /\ Injective(channel) /\ m \notin Elements(channel)
  BY <1>1 DEF IInv, TypeOK, PlaceInv, PastFilter, Handed
<1>4. FateIs(m)'
  BY <1>1, FateSplitNext DEF FateOK
<1>5. CASE receiver = "open"
  <2>1. channel' = Append(channel, m) /\ lost' = lost
    BY <1>5 DEF Forward
  <2>2. Elements(channel') = Elements(channel) \cup {m}
    BY <1>1, <1>3, <2>1, AppendElements
  <2>3. fate'[m] = "queued"
    BY <1>4, <2>2 DEF FateIs
  <2>4. \A x \in Messages \ {m} : SameSituation(x)
    BY <1>1, <2>1, <2>2 DEF SameSituation, Undecided, At
  <2>5. Inbox!Become(m, "queued")
    BY <1>1, <2>3, <2>4, OneFate DEF Inbox!Fates
  <2> QED BY <1>1, <1>2, <2>1, <2>5 DEF Inbox!Enqueue
<1>6. CASE receiver # "open"
  <2>1. channel' = channel /\ lost' = lost \cup {m}
    BY <1>6 DEF Forward
  <2>2. fate'[m] = "lost"
    BY <1>4, <2>1 DEF FateIs
  <2>3. \A x \in Messages \ {m} : SameSituation(x)
    BY <1>1, <2>1 DEF SameSituation, Undecided, At
  <2>4. Inbox!Become(m, "lost")
    BY <1>1, <2>2, <2>3, OneFate DEF Inbox!Fates
  <2> QED BY <1>1, <1>2, <2>1, <2>4 DEF Inbox!Lose
<1> QED BY <1>5, <1>6

(* An own message that was never seen is ignored from RecordSent on.       *)
LEMMA RecordSentRefines ==
  ASSUME IInv, IInv', NEW c \in Callers, RecordSent(c)
  PROVE  InboxStep
<1> PICK m \in Messages : m = smsg[c]
  BY MessagesAssumption DEF RecordSent, IInv, TypeOK
<1>1. /\ seen_msg_ids' = seen_msg_ids \cup {m}
      /\ UNCHANGED <<hpc, hmsg, channel, received, lost>>
      /\ \A t \in Threads : hpc[t] # "marked"
  BY MessagesAssumption, ThreadsAssumption
  DEF RecordSent, Remembered, handler_vars, radio_vars, IInv, TypeOK, LockInv
<1>2. \A x \in Messages : x # m \/ m \in seen_msg_ids => SameSituation(x)
  BY <1>1 DEF SameSituation, Undecided, At
<1>3. CASE m \in seen_msg_ids
  BY <1>1, <1>2, <1>3, NoFate DEF InboxStep
<1>4. CASE m \notin seen_msg_ids
  <2>1. fate[m] = "unknown"
    BY <1>1, <1>4, FateSplit DEF FateOK, FateIs
  <2>2. m \notin Handed /\ ~At(m, "accepted") /\ ~At(m, "marked")
    BY <1>4 DEF IInv, SeenInv, PastFilter, At
  <2>3. fate'[m] = "ignored"
    <3>1. FateIs(m)' /\ Handed' = Handed
      BY <1>1, FateSplitNext DEF FateOK, Handed
    <3> QED BY <1>1, <2>2, <3>1 DEF FateIs, At
  <2>4. Inbox!Become(m, "ignored")
    BY <1>1, <1>2, <2>3, OneFate DEF Inbox!Fates
  <2> QED BY <1>1, <2>1, <2>4 DEF Inbox!Decide, Inbox!Next, InboxStep
<1> QED BY <1>3, <1>4

(* recv receives the oldest message of the inbox.                          *)
LEMMA RecvRefines == ASSUME IInv, IInv', Recv PROVE Inbox!Receive
<1> PICK m \in Messages : m = Head(channel)
  BY DEF Recv, IInv, TypeOK
<1>1. /\ channel # <<>> /\ channel' = Tail(channel) /\ received' = received \cup {m}
      /\ UNCHANGED <<seen_msg_ids, hpc, hmsg, lost>>
  BY DEF Recv, handler_vars
<1>2. channel \in Seq(Messages) /\ Injective(channel)
  BY DEF IInv, TypeOK, PlaceInv
<1>3. m \in Elements(channel) /\ Elements(channel') = Elements(channel) \ {m}
  BY <1>1, <1>2, TailElements
<1>4. fate[m] = "queued"
  BY <1>3, FateSplit DEF FateOK, FateIs
<1>5. fate'[m] = "received"
  BY <1>1, FateSplitNext DEF FateOK, FateIs
<1>6. \A x \in Messages \ {m} : SameSituation(x)
  BY <1>1, <1>3 DEF SameSituation, Undecided, At
<1>7. Inbox!Become(m, "received")
  BY <1>5, <1>6, OneFate DEF Inbox!Fates
<1> QED BY <1>1, <1>4, <1>7 DEF Inbox!Receive

(* Dropping the Receiver abandons the inbox.                               *)
LEMMA DropReceiverRefines == ASSUME IInv, IInv', DropReceiver PROVE Inbox!Abandon
<1>1. /\ channel' = <<>> /\ lost' = lost \cup Elements(channel) /\ Elements(channel') = {}
      /\ UNCHANGED <<seen_msg_ids, hpc, hmsg, received>>
  BY DEF DropReceiver, handler_vars, Queued, Elements
<1>2. ASSUME NEW m \in Messages
      PROVE  fate'[m] = IF fate[m] = "queued" THEN "lost" ELSE fate[m]
  <2>1. CASE m \in Elements(channel)
    <3>1. m \in lost'
      BY <1>1, <2>1
    <3> QED BY <2>1, <3>1, FateSplit, FateSplitNext DEF FateOK, FateIs
  <2>2. CASE m \notin Elements(channel)
    <3>1. SameSituation(m)
      BY <1>1, <2>2 DEF SameSituation, Undecided, At
    <3>2. fate[m] # "queued"
      BY <2>2, FateSplit DEF FateOK, FateIs, Handed
    <3> QED BY <3>1, <3>2, SameFate
  <2> QED BY <2>1, <2>2
<1>3. fate' = [m \in Messages |-> IF fate[m] = "queued" THEN "lost" ELSE fate[m]]
  <2>1. fate' \in [Messages -> Inbox!Fates]
    BY FateSplitNext DEF FateOK, Inbox!Fates
  <2> HIDE DEF fate
  <2> QED BY <1>2, <2>1
<1> QED BY <1>1, <1>3 DEF Inbox!Abandon

(* Every step of the agent is a step of the inbox or a stutter.            *)
LEMMA InboxNext == IInv /\ IInv' /\ [Next]_vars => InboxStep
<1> SUFFICES ASSUME IInv, IInv', [Next]_vars PROVE InboxStep
  OBVIOUS
<1> USE DEF handler_vars, sender_vars, radio_vars, stop_vars
<1>1. ASSUME NEW t \in Threads, \/ \E m \in Messages : Signal(t, m)
                                \/ SkipRepeated(t)
      PROVE  InboxStep
  <2>1. /\ hpc[t] \in {"idle", "called"} /\ hpc'[t] \in {"idle", "called"}
        /\ \A u \in Threads : u # t => hpc'[u] = hpc[u] /\ hmsg'[u] = hmsg[u]
        /\ UNCHANGED <<seen_msg_ids, radio_vars>>
    BY <1>1 DEF Signal, SkipRepeated, HandlerReturns, HandlerAt, IInv, TypeOK
  <2>2. \A m \in Messages : SameSituation(m)
    BY <2>1 DEF SameSituation, Undecided, At
  <2> QED BY <2>1, <2>2, NoFate DEF InboxStep
<1>2. ASSUME NEW t \in Threads, MarkSeen(t) PROVE InboxStep
  <2>1. /\ hpc[t] = "called" /\ hpc'[t] = "marked" /\ hmsg'[t] = hmsg[t]
        /\ \A u \in Threads : u # t => hpc'[u] = hpc[u] /\ hmsg'[u] = hmsg[u]
        /\ seen_msg_ids' = seen_msg_ids \cup {hmsg[t]} /\ hmsg[t] \notin seen_msg_ids
        /\ UNCHANGED radio_vars
    BY <1>2 DEF MarkSeen, Remembered, HandlerAt, AlreadySeen, IInv, TypeOK
  <2>2. ASSUME NEW m \in Messages PROVE SameSituation(m)
    <3>1. At(m, "accepted")' <=> At(m, "accepted")
      BY <2>1 DEF At
    <3>2. Undecided(m)' <=> Undecided(m)
      BY <2>1 DEF Undecided, At
    <3> QED BY <2>1, <3>1, <3>2 DEF SameSituation
  <2> QED BY <2>1, <2>2, NoFate DEF InboxStep
<1>3. ASSUME NEW t \in Threads, MatchTopic(t) \/ Forward(t) PROVE InboxStep
  BY <1>3, MatchTopicRefines, ForwardRefines DEF InboxStep, Inbox!Next
<1>4. ASSUME NEW c \in Callers, RecordSent(c) PROVE InboxStep
  BY <1>4, RecordSentRefines
<1>5. CASE \/ \E c \in Callers : \/ \E m \in OwnMessages : SelectTopic(c, m)
                               \/ Publish(c) \/ SendFails(c)
           \/ update_content_topics \/ SetEmptyCallback \/ StopNode \/ RecvFails
           \/ UNCHANGED vars
  <2>1. UNCHANGED <<seen_msg_ids, hpc, hmsg, channel, received, lost>>
    BY <1>5 DEF SelectTopic, Publish, SendFails, update_content_topics,
                SetEmptyCallback, StopNode, RecvFails, vars
  <2>2. \A m \in Messages : SameSituation(m)
    BY <2>1 DEF SameSituation, Undecided, At
  <2> QED BY <2>1, <2>2, NoFate DEF InboxStep
<1>6. CASE Recv \/ DropReceiver
  BY <1>6, RecvRefines, DropReceiverRefines DEF InboxStep, Inbox!Next
<1> QED BY <1>1, <1>2, <1>3, <1>4, <1>5, <1>6 DEF Next, HandlerStep, Terminated

(* The agent implements the inbox: one final verdict per message, and a    *)
(* hand-over to the radio at most once and in the order of the channel.    *)
THEOREM AgentImplementsInbox == Spec => ImplementsInbox
<1>1. Init => Inbox!Init
  BY InboxInit
<1>2. IInv /\ IInv' /\ [Next]_vars => [Inbox!Next]_Inbox!vars
  BY InboxNext DEF InboxStep
<1> QED BY <1>1, <1>2, Invariance, PTL DEF Spec, ImplementsInbox, Inbox!Spec

-----------------------------------------------------------------------------
(* What the inbox promises, and hence the agent.                           *)
InboxInv == Inbox!TypeOK /\ Inbox!QueuedOnce

LEMMA InboxElements ==
  Inbox!QueuedOnce <=>
    /\ Injective(channel)
    /\ \A m \in Messages : fate[m] = "queued" <=> m \in Elements(channel)
<1> HIDE DEF fate
<1> QED BY DEF Inbox!QueuedOnce, Injective, Elements

LEMMA InboxElementsNext ==
  Inbox!QueuedOnce' <=>
    /\ Injective(channel')
    /\ \A m \in Messages : fate'[m] = "queued" <=> m \in Elements(channel')
<1> HIDE DEF fate
<1> QED BY DEF Inbox!QueuedOnce, Injective, Elements

(* A step of the inbox on its own, whatever its fates stand for.           *)
LEMMA InboxInvStep == InboxInv /\ [Inbox!Next]_Inbox!vars => InboxInv'
<1> SUFFICES ASSUME InboxInv, [Inbox!Next]_Inbox!vars PROVE InboxInv'
  OBVIOUS
<1> DEFINE Once == /\ Injective(channel')
                   /\ \A m \in Messages : fate'[m] = "queued" <=> m \in Elements(channel')
           Typed == fate' \in [Messages -> Inbox!Fates] /\ channel' \in Seq(Messages)
<1> SUFFICES Once /\ Typed
  BY InboxElementsNext DEF InboxInv, Inbox!TypeOK, Inbox!Fates
<1> HIDE DEF fate
<1> USE DEF InboxInv, Inbox!TypeOK, Inbox!Fates, Inbox!Become
<1>1. /\ Injective(channel) /\ channel \in Seq(Messages)
      /\ \A m \in Messages : fate[m] = "queued" <=> m \in Elements(channel)
  BY InboxElements
<1>2. ASSUME NEW m \in Messages, Inbox!Decide(m) \/ Inbox!Lose(m) PROVE Once /\ Typed
  BY <1>1, <1>2 DEF Inbox!Decide, Inbox!Lose
<1>3. ASSUME NEW m \in Messages, Inbox!Enqueue(m) PROVE Once /\ Typed
  <2>1. m \notin Elements(channel) /\ channel' = Append(channel, m)
    BY <1>1, <1>3 DEF Inbox!Enqueue
  <2>2. /\ channel' \in Seq(Messages) /\ Injective(channel')
        /\ Elements(channel') = Elements(channel) \cup {m}
    BY <1>1, <2>1, AppendElements
  <2>3. /\ fate' \in [Messages -> Inbox!Fates] /\ fate'[m] = "queued"
        /\ \A x \in Messages \ {m} : fate'[x] = fate[x]
    BY <1>3 DEF Inbox!Enqueue
  <2> QED BY <1>1, <2>2, <2>3
<1>4. CASE Inbox!Receive
  <2>1. channel # <<>> /\ channel' = Tail(channel)
    BY <1>4 DEF Inbox!Receive
  <2>2. /\ channel' \in Seq(Messages) /\ Injective(channel') /\ Head(channel) \in Messages
        /\ Elements(channel') = Elements(channel) \ {Head(channel)}
    BY <1>1, <2>1, TailElements
  <2>3. /\ fate' \in [Messages -> Inbox!Fates] /\ fate'[Head(channel)] = "received"
        /\ \A x \in Messages \ {Head(channel)} : fate'[x] = fate[x]
    BY <1>4, <2>2 DEF Inbox!Receive
  <2> QED BY <1>1, <2>2, <2>3
<1>5. CASE Inbox!Abandon
  <2>1. channel' = <<>> /\ \A m \in Messages : fate'[m] # "queued"
    BY <1>5 DEF Inbox!Abandon
  <2>2. Injective(channel') /\ Elements(channel') = {} /\ channel' \in Seq(Messages)
    BY <2>1 DEF Injective, Elements
  <2>3. fate' \in [Messages -> Inbox!Fates]
    BY <1>5 DEF Inbox!Abandon
  <2> QED BY <2>1, <2>2, <2>3
<1>6. CASE UNCHANGED Inbox!vars
  BY <1>1, <1>6 DEF Inbox!vars
<1> QED BY <1>2, <1>3, <1>4, <1>5, <1>6 DEF Inbox!Next

LEMMA InboxInvariance == Inbox!Spec => []InboxInv
<1>1. Inbox!Init => InboxInv
  <2> SUFFICES ASSUME Inbox!Init PROVE InboxInv
    OBVIOUS
  <2> HIDE DEF fate
  <2>1. Elements(channel) = {} /\ Injective(channel) /\ channel \in Seq(Messages)
    BY DEF Inbox!Init, Elements, Injective
  <2> QED BY <2>1, InboxElements DEF Inbox!Init, InboxInv, Inbox!TypeOK, Inbox!Fates
<1>2. InboxInv /\ [Inbox!Next]_Inbox!vars => InboxInv'
  BY InboxInvStep
<1> QED BY <1>1, <1>2, PTL DEF Inbox!Spec

(* The inbox keeps its queue and its fates together, and its verdicts are  *)
(* final.                                                                  *)
THEOREM InboxPromise == Inbox!Spec => []Inbox!QueuedOnce /\ Inbox!VerdictFinal
<1> DEFINE Final == \A m \in Messages :
       /\ fate[m] \in {"ignored", "received", "lost"} => fate'[m] = fate[m]
       /\ fate[m] \in {"accepted", "queued"} =>
            fate'[m] \in {"accepted", "queued", "received", "lost"}
       /\ fate[m] # "received" /\ fate'[m] = "received" =>
            channel # <<>> /\ m = Head(channel)
<1>1. ASSUME InboxInv, Inbox!Next PROVE Final
  <2> HIDE DEF fate
  <2> USE <1>1 DEF InboxInv, Inbox!TypeOK, Inbox!Fates, Inbox!Become
  <2>1. ASSUME NEW m \in Messages, Inbox!Decide(m) \/ Inbox!Lose(m) \/ Inbox!Enqueue(m)
        PROVE  Final
    BY <2>1 DEF Inbox!Decide, Inbox!Lose, Inbox!Enqueue
  <2>2. CASE Inbox!Receive
    BY <2>2 DEF Inbox!Receive
  <2>3. CASE Inbox!Abandon
    BY <2>3 DEF Inbox!Abandon
  <2> QED BY <1>1, <2>1, <2>2, <2>3 DEF Inbox!Next
<1>2. InboxInv /\ [Inbox!Next]_Inbox!vars => [Final]_Inbox!vars
  BY <1>1
<1>3. InboxInv => Inbox!QueuedOnce
  BY DEF InboxInv
<1> QED BY <1>2, <1>3, InboxInvariance, PTL DEF Inbox!Spec, Inbox!VerdictFinal

(* So does the agent: what handle_signal or send_message has decided about *)
(* a message stands, for any interleaving of threads, tasks and stop.      *)
THEOREM AgentKeepsPromise == Spec => []Inbox!QueuedOnce /\ Inbox!VerdictFinal
BY AgentImplementsInbox, InboxPromise, PTL DEF ImplementsInbox

-----------------------------------------------------------------------------
(* The shutdown: stop has replaced the callback.                           *)

(* A radio that keeps calling recv after stop does not wait for ever for   *)
(* want of a step: there is something to receive, or recv fails, or some   *)
(* handler that was running can go on; the mutex of seen_msg_ids is held   *)
(* only by a thread that can go on.                                        *)
ShutdownNotStuck ==
  callback = "empty" /\ receiver = "open" =>
    \/ channel # <<>>
    \/ ~SenderAlive
    \/ \E t \in Threads : \/ hpc[t] \in {"marked", "accepted"}
                          \/ hpc[t] = "called" /\ seen_lock = NoThread

(* How far a handler is from its return.                                   *)
ToReturn(pc) == CASE pc = "idle" -> 0
                  [] pc = "accepted" -> 1
                  [] pc = "marked" -> 2
                  [] pc = "called" -> 3

(* From then on no handler starts or goes back, and the channel gets a     *)
(* message only from a handler that returns: with finitely many threads,   *)
(* finitely many steps of the agent are left before recv fails.            *)
ShutdownComesNearer ==
  [][callback = "empty" =>
       /\ callback' = "empty"
       /\ \A t \in Threads : hpc'[t] # hpc[t] => ToReturn(hpc'[t]) < ToReturn(hpc[t])
       /\ \/ UNCHANGED channel
          \/ Len(channel') < Len(channel)
          \/ /\ Len(channel') = Len(channel) + 1
             /\ \E t \in Threads : hpc[t] = "accepted" /\ hpc'[t] = "idle"]_vars

(* The shutdown cannot get stuck between recv, the handlers and the mutex. *)
THEOREM ShutdownGoesOn == Spec => []ShutdownNotStuck
<1>1. ASSUME IInv, callback = "empty", SenderAlive
      PROVE  \E t \in Threads : \/ hpc[t] \in {"marked", "accepted"}
                                \/ hpc[t] = "called" /\ seen_lock = NoThread
  <2>1. PICK t \in Threads : hpc[t] \in {"called", "marked", "accepted"}
    BY <1>1 DEF SenderAlive, IInv, TypeOK, HandlerStates
  <2>2. CASE seen_lock = NoThread
    BY <2>1, <2>2
  <2>3. CASE seen_lock # NoThread
    BY <1>1, <2>3 DEF IInv, TypeOK, LockInv
  <2> QED BY <2>2, <2>3
<1>2. IInv => ShutdownNotStuck
  BY <1>1 DEF ShutdownNotStuck
<1> QED BY <1>2, Invariance, PTL

(* The handlers that stop left running return, and nothing new comes.      *)
THEOREM ShutdownEnds == Spec => ShutdownComesNearer
<1> DEFINE Nearer ==
       /\ callback' = "empty"
       /\ \A t \in Threads : hpc'[t] # hpc[t] => ToReturn(hpc'[t]) < ToReturn(hpc[t])
       /\ \/ UNCHANGED channel
          \/ Len(channel') < Len(channel)
          \/ /\ Len(channel') = Len(channel) + 1
             /\ \E t \in Threads : hpc[t] = "accepted" /\ hpc'[t] = "idle"
<1>1. ASSUME IInv, Next, callback = "empty" PROVE Nearer
  <2> USE <1>1 DEF handler_vars, sender_vars, radio_vars, stop_vars, IInv, TypeOK
  <2>1. ASSUME NEW t \in Threads, NEW m \in Messages, Signal(t, m) PROVE FALSE
    BY <2>1 DEF Signal
  <2>2. ASSUME NEW t \in Threads, SkipRepeated(t) \/ MarkSeen(t) \/ MatchTopic(t)
        PROVE  Nearer
    BY <2>2 DEF SkipRepeated, MarkSeen, MatchTopic, HandlerReturns, HandlerAt, ToReturn
  <2>3. ASSUME NEW t \in Threads, Forward(t) PROVE Nearer
    <3>1. /\ hpc[t] = "accepted" /\ hpc'[t] = "idle" /\ callback' = callback
          /\ \A u \in Threads : u # t => hpc'[u] = hpc[u]
          /\ channel' = channel \/ channel' = Append(channel, hmsg[t])
      BY <2>3 DEF Forward, HandlerReturns, HandlerAt
    <3>2. channel' = channel \/ Len(channel') = Len(channel) + 1
      BY <3>1
    <3> QED BY <3>1, <3>2 DEF ToReturn
  <2>4. CASE Recv
    <3>1. Len(channel') = Len(channel) - 1 /\ Len(channel) \in Nat
      BY <2>4 DEF Recv
    <3>2. Len(channel') < Len(channel)
      BY <3>1
    <3>3. UNCHANGED <<hpc, callback>>
      BY <2>4 DEF Recv
    <3> QED BY <3>2, <3>3
  <2>5. CASE DropReceiver
    <3>1. channel' = <<>> /\ UNCHANGED <<hpc, callback>>
      BY <2>5 DEF DropReceiver
    <3>2. channel' = channel \/ Len(channel') < Len(channel)
      BY <3>1
    <3> QED BY <3>1, <3>2
  <2>6. CASE \/ \E c \in Callers : \/ \E m \in OwnMessages : SelectTopic(c, m)
                                   \/ Publish(c) \/ SendFails(c) \/ RecordSent(c)
             \/ update_content_topics \/ SetEmptyCallback \/ StopNode \/ RecvFails
             \/ Terminated
    BY <2>6 DEF SelectTopic, Publish, SendFails, RecordSent, update_content_topics,
                SetEmptyCallback, StopNode, RecvFails, Terminated, vars
  <2> QED BY <2>1, <2>2, <2>3, <2>4, <2>5, <2>6 DEF Next, HandlerStep
<1>2. IInv /\ [Next]_vars => [callback = "empty" => Nearer]_vars
  BY <1>1
<1> QED BY <1>2, Invariance, PTL DEF Spec, ShutdownComesNearer
=============================================================================
