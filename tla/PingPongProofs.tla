--------------------------- MODULE PingPongProofs ---------------------------
(***************************************************************************)
(* The safety of the ping-pong radio, for any messages and any number of   *)
(* workers.  That pings get answers and that a signal ends the program are *)
(* liveness properties and left to TLC.                                    *)
(***************************************************************************)
EXTENDS PingPong, TLAPS

(* A message is in one place at a time: in the channel, with the receive   *)
(* task, or saved.                                                         *)
InTransit ==
  /\ saved \subseteq delivered
  /\ \A i \in DOMAIN channel : /\ channel[i] \in delivered \ saved
                               /\ channel[i] # received
                               /\ \A j \in DOMAIN channel : channel[i] = channel[j] => i = j
  /\ received # NoMessage => received \in delivered \ saved

(* The store has no message twice, and only saved ones.                    *)
StoreDistinct ==
  \A i \in DOMAIN MESSAGES : /\ MESSAGES[i] \in saved
                             /\ \A j \in DOMAIN MESSAGES : MESSAGES[i] = MESSAGES[j] => i = j

Answering == main_loop \in {"answer", "clear"}

(* While the loop over the store runs, the store is locked and the pings   *)
(* before next are answered; otherwise none in the store is.               *)
LoopLocked == /\ Answering => messages_locked
              /\ main_loop = "clear" => next > Len(MESSAGES)

AnswersCounted ==
  \A m \in Pings :
    /\ m \notin saved => answers[m] = 0
    /\ m \in saved \ Stored => answers[m] = 1
    /\ \A i \in DOMAIN MESSAGES :
         MESSAGES[i] = m => answers[m] = IF Answering /\ i < next THEN 1 ELSE 0

(* Nothing that decodes gets lost between the channel and the store.       *)
Accounted ==
  \A m \in delivered \ Undecodable :
    m \in saved \/ m = received \/ \E i \in DOMAIN channel : channel[i] = m

(* The receive task ends with an empty channel that nothing enters again.  *)
Ending == /\ receiver_handler # "receiving" => received = NoMessage
          /\ receiver_handler = "ended" => channel = <<>> /\ ~sender_alive
          /\ main_loop = "exited" => receiver_handler = "ended"

IInv == /\ TypeOK
        /\ InTransit /\ StoreDistinct /\ LoopLocked /\ AnswersCounted
        /\ Accounted /\ Ending

-----------------------------------------------------------------------------
LEMMA InitType == Init => TypeOK
<1> SUFFICES ASSUME Init PROVE TypeOK
  OBVIOUS
<1>1. answers \in [Messages -> 0 .. 2]
  BY DEF Init
<1>2. channel \in Seq(Messages) /\ MESSAGES \in Seq(Messages \ Undecodable)
  BY DEF Init
<1>3. block_number \in 0 .. 3 /\ next \in Nat \ {0}
  BY DEF Init
<1>4. /\ running \in BOOLEAN /\ signal \in {"none", "raised", "handled"}
      /\ receiver_handler \in {"spawned", "receiving", "ended"}
      /\ received \in (Messages \ Undecodable) \cup {NoMessage}
      /\ sender_alive \in BOOLEAN /\ messages_locked \in BOOLEAN
  BY DEF Init
<1>5. /\ delivered \subseteq Messages /\ saved \subseteq Messages \ Undecodable
      /\ main_loop \in {"check", "ping", "process", "answer", "clear", "sleep",
                        "stop", "join", "exited", "panicked"}
  BY DEF Init
<1> QED
  BY <1>1, <1>2, <1>3, <1>4, <1>5 DEF TypeOK

LEMMA StepType ==
  ASSUME TypeOK, [Next]_vars PROVE TypeOK'
<1> USE MessagesAssumption
<1> USE DEF TypeOK, task_vars, receiver_vars, agent_vars, store_vars, loop_vars
<1>1. ASSUME NEW m \in Messages, Deliver(m) PROVE TypeOK'
  BY <1>1 DEF Deliver
<1>2. CASE Raise \/ HandleSignal
  BY <1>2 DEF Raise, HandleSignal
<1>3. CASE StartReceiver \/ EndReceiver
  BY <1>3 DEF StartReceiver, EndReceiver
<1>4. CASE Recv
  <2>1. Head(channel) \in Messages /\ Tail(channel) \in Seq(Messages)
    BY <1>4 DEF Recv
  <2>2. received' \in (Messages \ Undecodable) \cup {NoMessage}
    BY <1>4, <2>1 DEF Recv, decoded
  <2> QED
    BY <1>4, <2>1, <2>2 DEF Recv
<1>5. CASE radio_handler
  <2>1. received \in Messages \ Undecodable
    BY <1>5 DEF radio_handler
  <2> QED
    BY <1>5, <2>1 DEF radio_handler
<1>6. CASE Check
  <2>1. block_number' \in 0 .. 3
    BY <1>6 DEF Check
  <2> QED
    BY <1>6, <2>1 DEF Check
<1>7. CASE SendPing \/ LockMessages \/ NothingToAnswer \/ WakeUp \/ Join
  <2>1. CASE SendPing
    BY <2>1 DEF SendPing
  <2>2. CASE LockMessages
    BY <2>2 DEF LockMessages, keep_lock
  <2>3. CASE NothingToAnswer
    BY <2>3 DEF NothingToAnswer
  <2>4. CASE WakeUp
    BY <2>4 DEF WakeUp
  <2>5. CASE Join
    BY <2>5 DEF Join
  <2> QED
    BY <1>7, <2>1, <2>2, <2>3, <2>4, <2>5
<1>8. CASE AnswerNext
  <2>1. answers' \in [Messages -> 0 .. 2]
    <3>1. \A n \in 0 .. 2 : Count(n) \in 0 .. 2
      BY DEF Count
    <3> QED
      BY <1>8, <3>1 DEF AnswerNext
  <2> QED
    BY <1>8, <2>1 DEF AnswerNext
<1>9. CASE ClearMessages \/ StopAgent
  <2>1. CASE ClearMessages
    <3>1. <<>> \in Seq(Messages \ Undecodable)
      OBVIOUS
    <3> QED
      BY <2>1, <3>1 DEF ClearMessages, cleared
  <2>2. CASE StopAgent
    BY <2>2 DEF StopAgent, sender_after_stop
  <2> QED
    BY <1>9, <2>1, <2>2
<1>10. CASE UNCHANGED vars
  BY <1>10 DEF vars
<1> QED
  BY <1>1, <1>2, <1>3, <1>4, <1>5, <1>6, <1>7, <1>8, <1>9, <1>10
     DEF Next, ReceiverStep, MainStep, Terminated

(* Every variable of the radio stays in its range.                         *)
THEOREM TypeCorrect == Spec => []TypeOK
<1>1. Init => TypeOK
  BY InitType
<1>2. TypeOK /\ [Next]_vars => TypeOK'
  BY StepType
<1> QED
  BY <1>1, <1>2, PTL DEF Spec

-----------------------------------------------------------------------------
LEMMA InitInv == Init => IInv
BY InitType, MessagesAssumption
   DEF Init, IInv, InTransit, StoreDistinct, LoopLocked, Answering, AnswersCounted, Accounted,
       Ending, Stored

(* A message enters the channel.                                           *)
LEMMA DeliverInv ==
  ASSUME IInv, NEW m \in Messages, Deliver(m), TypeOK' PROVE IInv'
<1> USE DEF IInv
<1>1. /\ delivered' = delivered \cup {m} /\ channel' = Append(channel, m)
      /\ m \notin delivered /\ sender_alive
      /\ channel \in Seq(Messages)
      /\ UNCHANGED <<sender_alive, received, receiver_handler, saved, MESSAGES,
                     messages_locked, main_loop, next, answers>>
  BY DEF Deliver, TypeOK, task_vars, receiver_vars, store_vars, loop_vars
<1>2. /\ Len(channel) \in Nat /\ DOMAIN channel = 1 .. Len(channel)
      /\ DOMAIN channel' = 1 .. Len(channel) + 1
      /\ \A i \in DOMAIN channel : channel'[i] = channel[i]
      /\ channel'[Len(channel) + 1] = m
  BY <1>1
<1>3. \A i \in DOMAIN channel' : i \in DOMAIN channel \/ i = Len(channel) + 1
  BY <1>2
<1>4. m # received
  BY <1>1, MessagesAssumption DEF InTransit
<1>5. InTransit'
  BY <1>1, <1>2, <1>3, <1>4 DEF InTransit
<1>6. Accounted'
  BY <1>1, <1>2 DEF Accounted
<1>7. StoreDistinct' /\ LoopLocked' /\ AnswersCounted'
  BY <1>1 DEF StoreDistinct, LoopLocked, AnswersCounted, Answering, Stored
<1>8. Ending'
  BY <1>1 DEF Ending
<1> QED
  BY <1>5, <1>6, <1>7, <1>8

(* The receive task takes the first message out of the channel.            *)
LEMMA RecvInv ==
  ASSUME IInv, Recv, TypeOK' PROVE IInv'
<1> USE DEF IInv
<1>1. /\ channel # <<>> /\ channel' = Tail(channel) /\ received' = decoded(Head(channel))
      /\ received = NoMessage /\ receiver_handler = "receiving"
      /\ channel \in Seq(Messages)
      /\ UNCHANGED <<delivered, sender_alive, receiver_handler, saved, MESSAGES,
                     messages_locked, main_loop, next, answers>>
  BY DEF Recv, TypeOK, agent_vars, store_vars, loop_vars
<1>2. /\ Len(channel) \in Nat \ {0} /\ DOMAIN channel = 1 .. Len(channel)
      /\ DOMAIN channel' = 1 .. Len(channel) - 1
      /\ \A i \in DOMAIN channel' : channel'[i] = channel[i + 1] /\ i + 1 \in DOMAIN channel
      /\ Head(channel) = channel[1] /\ 1 \in DOMAIN channel
  BY <1>1
<1>3. received' \in {NoMessage, channel[1]}
      /\ (channel[1] \notin Undecodable => received' = channel[1])
  BY <1>1, <1>2 DEF decoded
<1>4. channel[1] \in delivered \ saved /\ \A i \in DOMAIN channel : channel[i] = channel[1] => i = 1
  BY <1>2 DEF InTransit
<1>5. \A i \in DOMAIN channel' : /\ channel'[i] \in delivered \ saved
                                 /\ channel'[i] # received'
  <2> SUFFICES ASSUME NEW i \in DOMAIN channel'
               PROVE  channel'[i] \in delivered \ saved /\ channel'[i] # received'
    OBVIOUS
  <2>1. channel'[i] = channel[i + 1] /\ i + 1 \in DOMAIN channel /\ i + 1 # 1
    BY <1>2
  <2>2. channel[i + 1] \in Messages
    BY <1>1, <2>1
  <2> QED
    BY <1>3, <1>4, <2>1, <2>2, MessagesAssumption DEF InTransit
<1>6. \A i, j \in DOMAIN channel' : channel'[i] = channel'[j] => i = j
  BY <1>2 DEF InTransit
<1>7. InTransit'
  <2>1. received' # NoMessage => received' \in delivered \ saved
    BY <1>3, <1>4
  <2> QED
    BY <1>1, <1>5, <1>6, <2>1 DEF InTransit
<1>8. Accounted'
  <2> SUFFICES ASSUME NEW m \in delivered \ Undecodable
               PROVE  m \in saved \/ m = received' \/ \E i \in DOMAIN channel' : channel'[i] = m
    BY <1>1 DEF Accounted
  <2>1. CASE m \in saved
    BY <2>1
  <2>2. CASE m = received
    BY <1>1, <2>2, MessagesAssumption DEF TypeOK
  <2>3. CASE \E i \in DOMAIN channel : channel[i] = m
    <3>1. PICK i \in DOMAIN channel : channel[i] = m
      BY <2>3
    <3>2. CASE i = 1
      BY <1>3, <3>1, <3>2
    <3>3. CASE i # 1
      <4>1. i - 1 \in DOMAIN channel' /\ channel'[i - 1] = channel[(i - 1) + 1]
        BY <1>2, <3>3
      <4>2. (i - 1) + 1 = i
        BY <1>2
      <4> QED
        BY <3>1, <4>1, <4>2
    <3> QED
      BY <3>2, <3>3
  <2> QED
    BY <2>1, <2>2, <2>3 DEF Accounted
<1>9. StoreDistinct' /\ LoopLocked' /\ AnswersCounted'
  BY <1>1 DEF StoreDistinct, LoopLocked, AnswersCounted, Answering, Stored
<1>10. Ending'
  BY <1>1 DEF Ending
<1> QED
  BY <1>7, <1>8, <1>9, <1>10

(* The receive task saves its message; the loop does not run meanwhile.    *)
LEMMA SaveInv ==
  ASSUME IInv, radio_handler, TypeOK' PROVE IInv'
<1> USE DEF IInv
<1>1. /\ received # NoMessage /\ ~messages_locked
      /\ MESSAGES' = Append(MESSAGES, received) /\ saved' = saved \cup {received}
      /\ received' = NoMessage
      /\ MESSAGES \in Seq(Messages \ Undecodable)
      /\ received \in delivered \ saved
      /\ received \in Messages \ Undecodable
      /\ UNCHANGED <<delivered, sender_alive, receiver_handler, channel,
                     messages_locked, main_loop, next, answers>>
  BY DEF radio_handler, TypeOK, InTransit, agent_vars, store_vars, loop_vars
<1>2. /\ Len(MESSAGES) \in Nat /\ DOMAIN MESSAGES = 1 .. Len(MESSAGES)
      /\ DOMAIN MESSAGES' = 1 .. Len(MESSAGES) + 1
      /\ \A i \in DOMAIN MESSAGES : MESSAGES'[i] = MESSAGES[i]
      /\ MESSAGES'[Len(MESSAGES) + 1] = received
  BY <1>1
<1>3. \A i \in DOMAIN MESSAGES' : i \in DOMAIN MESSAGES \/ i = Len(MESSAGES) + 1
  BY <1>2
<1>4. ~Answering /\ ~Answering'
  BY <1>1 DEF LoopLocked, Answering
<1>5. InTransit'
  <2>1. \A i \in DOMAIN channel : channel[i] \in Messages
    BY DEF TypeOK
  <2> QED
    BY <1>1, <2>1, MessagesAssumption DEF InTransit
<1>6. StoreDistinct'
  BY <1>1, <1>2, <1>3 DEF StoreDistinct
<1>7. LoopLocked'
  BY <1>1, <1>4 DEF LoopLocked, Answering
<1>8. AnswersCounted'
  <2> SUFFICES ASSUME NEW m \in Pings
               PROVE  /\ m \notin saved' => answers[m] = 0
                      /\ m \in saved' \ Stored' => answers[m] = 1
                      /\ \A i \in DOMAIN MESSAGES' : MESSAGES'[i] = m => answers[m] = 0
    BY <1>1, <1>4 DEF AnswersCounted
  <2>1. /\ m \notin saved => answers[m] = 0
        /\ m \in saved \ Stored => answers[m] = 1
        /\ \A i \in DOMAIN MESSAGES : MESSAGES[i] = m => answers[m] = 0
    BY <1>4 DEF AnswersCounted
  <2>2. Stored' = Stored \cup {received}
    BY <1>2, <1>3 DEF Stored
  <2> QED
    BY <1>1, <1>2, <1>3, <2>1, <2>2
<1>9. Accounted'
  BY <1>1 DEF Accounted
<1>10. Ending'
  BY <1>1 DEF Ending
<1> QED
  BY <1>5, <1>6, <1>7, <1>8, <1>9, <1>10

(* The loop answers the message at next if it is a ping.                   *)
LEMMA AnswerInv ==
  ASSUME IInv, AnswerNext, TypeOK' PROVE IInv'
<1> USE DEF IInv
<1>1. /\ main_loop = "answer" /\ next <= Len(MESSAGES) /\ next' = next + 1
      /\ answers' = IF MESSAGES[next] \in Pings
                    THEN [answers EXCEPT ![MESSAGES[next]] = Count(@)] ELSE answers
      /\ main_loop' = IF next = Len(MESSAGES) THEN "clear" ELSE "answer"
      /\ MESSAGES \in Seq(Messages \ Undecodable) /\ next \in Nat \ {0}
      /\ answers \in [Messages -> 0 .. 2]
      /\ UNCHANGED <<delivered, sender_alive, receiver_handler, received, channel,
                     MESSAGES, saved, messages_locked>>
  BY DEF AnswerNext, TypeOK, agent_vars, receiver_vars, store_vars
<1>2. Len(MESSAGES) \in Nat /\ DOMAIN MESSAGES = 1 .. Len(MESSAGES) /\ next \in DOMAIN MESSAGES
  BY <1>1
<1>3. Answering /\ Answering'
  BY <1>1 DEF Answering
<1>4. AnswersCounted'
  <2> SUFFICES ASSUME NEW m \in Pings
               PROVE  /\ m \notin saved => answers'[m] = 0
                      /\ m \in saved \ Stored => answers'[m] = 1
                      /\ \A i \in DOMAIN MESSAGES :
                           MESSAGES[i] = m => answers'[m] = IF i < next + 1 THEN 1 ELSE 0
    BY <1>1, <1>3 DEF AnswersCounted, Stored
  <2>0. m \in Messages
    BY MessagesAssumption
  <2>1. /\ m \notin saved => answers[m] = 0
        /\ m \in saved \ Stored => answers[m] = 1
        /\ \A i \in DOMAIN MESSAGES : MESSAGES[i] = m => answers[m] = IF i < next THEN 1 ELSE 0
    BY <1>3 DEF AnswersCounted
  <2>2. CASE MESSAGES[next] = m
    <3>1. answers[m] = 0
      <4>1. answers[m] = IF next < next THEN 1 ELSE 0
        BY <1>2, <2>1, <2>2
      <4>2. ~(next < next)
        BY <1>1
      <4> QED
        BY <4>1, <4>2
    <3>2. answers'[m] = 1
      BY <1>1, <2>0, <2>2, <3>1 DEF Count
    <3>3. m \in saved /\ m \in Stored
      BY <1>2, <2>2 DEF StoreDistinct, Stored
    <3>4. \A i \in DOMAIN MESSAGES : MESSAGES[i] = m => i = next
      BY <1>2, <2>2 DEF StoreDistinct
    <3> QED
      BY <1>1, <3>2, <3>3, <3>4
  <2>3. CASE MESSAGES[next] # m
    <3>1. answers'[m] = answers[m]
      BY <1>1, <2>0, <2>3
    <3>2. ASSUME NEW i \in DOMAIN MESSAGES, MESSAGES[i] = m
          PROVE  answers'[m] = IF i < next + 1 THEN 1 ELSE 0
      <4>1. i # next
        BY <2>3, <3>2
      <4>2. i \in Nat /\ next \in Nat
        <5>1. i \in 1 .. Len(MESSAGES)
          BY <1>2, <3>2
        <5>2. Len(MESSAGES) \in Nat
          BY <1>2
        <5>3. i \in Nat
          BY <5>1, <5>2
        <5>4. next \in Nat
          BY <1>1
        <5> QED
          BY <5>3, <5>4
      <4>3. i < next <=> i < next + 1
        BY <4>1, <4>2
      <4>4. answers[m] = IF i < next THEN 1 ELSE 0
        BY <2>1, <3>2
      <4> QED
        BY <3>1, <4>3, <4>4
    <3> QED
      BY <2>1, <3>1, <3>2
  <2> QED
    BY <2>2, <2>3
<1>5. LoopLocked'
  <2>1. messages_locked'
    BY <1>1, <1>3 DEF LoopLocked
  <2>2. main_loop' = "clear" => next = Len(MESSAGES)
    BY <1>1
  <2>3. next = Len(MESSAGES) => next + 1 > Len(MESSAGES)
    BY <1>2
  <2>4. next' = next + 1 /\ MESSAGES' = MESSAGES
    BY <1>1
  <2> QED
    BY <2>1, <2>2, <2>3, <2>4 DEF LoopLocked
<1>6. InTransit' /\ StoreDistinct' /\ Accounted'
  BY <1>1 DEF InTransit, StoreDistinct, Accounted
<1>7. Ending'
  BY <1>1 DEF Ending
<1> QED
  BY <1>4, <1>5, <1>6, <1>7

(* The loop clears the store, all of whose pings it has answered.          *)
LEMMA ClearInv ==
  ASSUME IInv, ClearMessages, TypeOK' PROVE IInv'
<1> USE DEF IInv
<1>1. /\ main_loop = "clear" /\ MESSAGES' = <<>> /\ main_loop' = "sleep"
      /\ UNCHANGED <<delivered, sender_alive, receiver_handler, received, channel,
                     saved, next, answers>>
  BY DEF ClearMessages, cleared, agent_vars, receiver_vars
<1>2. /\ MESSAGES \in Seq(Messages \ Undecodable) /\ next \in Nat /\ Len(MESSAGES) \in Nat
      /\ DOMAIN MESSAGES = 1 .. Len(MESSAGES)
  BY DEF TypeOK
<1>3. Answering /\ next > Len(MESSAGES) /\ ~Answering'
  BY <1>1 DEF LoopLocked, Answering
<1>4. \A i \in DOMAIN MESSAGES : i < next
  BY <1>2, <1>3
<1>5. \A m \in Pings \cap saved : answers[m] = 1
  BY <1>3, <1>4 DEF AnswersCounted, Stored
<1>6. DOMAIN MESSAGES' = {}
  BY <1>1
<1>7. AnswersCounted'
  BY <1>1, <1>5, <1>6 DEF AnswersCounted
<1>8. InTransit' /\ StoreDistinct' /\ Accounted'
  BY <1>1, <1>6 DEF InTransit, StoreDistinct, Accounted
<1>9. LoopLocked' /\ Ending'
  BY <1>1, <1>3 DEF LoopLocked, Ending
<1> QED
  BY <1>7, <1>8, <1>9

(* The loop takes the lock, or leaves the store alone.                     *)
LEMMA LoopInv ==
  ASSUME IInv, TypeOK',
         \/ Check \/ SendPing \/ LockMessages \/ NothingToAnswer \/ WakeUp \/ StopAgent \/ Join
  PROVE  IInv'
<1> USE DEF IInv
<1>1. UNCHANGED <<delivered, receiver_handler, received, channel, MESSAGES, saved, answers>>
  BY DEF Check, SendPing, LockMessages, NothingToAnswer, WakeUp, StopAgent, Join,
         receiver_vars, agent_vars, store_vars
<1>2. InTransit' /\ StoreDistinct' /\ Accounted'
  BY <1>1 DEF InTransit, StoreDistinct, Accounted
<1>3. Ending'
  <2>1. sender_alive' = sender_alive \/ sender_alive' = FALSE
    BY DEF Check, SendPing, LockMessages, NothingToAnswer, WakeUp, StopAgent, Join,
           agent_vars, sender_after_stop
  <2>2. main_loop' = "exited" => receiver_handler = "ended"
    BY DEF Check, SendPing, LockMessages, NothingToAnswer, WakeUp, StopAgent, Join
  <2> QED
    BY <1>1, <2>1, <2>2 DEF Ending
<1>4. LoopLocked' /\ AnswersCounted'
  <2>1. CASE LockMessages
    <3>1. /\ main_loop = "process" /\ main_loop' = "answer" /\ next' = 1 /\ messages_locked' = TRUE
      BY <2>1 DEF LockMessages, keep_lock
    <3>2. \A i \in DOMAIN MESSAGES : ~(i < 1)
      BY DEF TypeOK
    <3> QED
      BY <1>1, <3>1, <3>2 DEF LoopLocked, AnswersCounted, Answering, Stored
  <2>2. CASE NothingToAnswer
    BY <1>1, <2>2 DEF NothingToAnswer, LoopLocked, AnswersCounted, Answering, Stored, store_vars
  <2>3. CASE Check \/ SendPing \/ WakeUp \/ StopAgent \/ Join
    <3>1. ~Answering /\ ~Answering' /\ main_loop' # "clear"
      BY <2>3 DEF Check, SendPing, WakeUp, StopAgent, Join, Answering
    <3> QED
      BY <1>1, <3>1 DEF LoopLocked, AnswersCounted, Stored
  <2> QED
    BY <2>1, <2>2, <2>3
<1> QED
  BY <1>2, <1>3, <1>4

(* Signals and the beginning and end of the receive task touch no message. *)
LEMMA TaskInv ==
  ASSUME IInv, TypeOK', Raise \/ HandleSignal \/ StartReceiver \/ EndReceiver
  PROVE  IInv'
<1> USE DEF IInv
<1>1. UNCHANGED <<delivered, sender_alive, received, channel, MESSAGES, messages_locked, saved,
                  main_loop, next, answers>>
  BY DEF Raise, HandleSignal, StartReceiver, EndReceiver, receiver_vars, agent_vars,
         store_vars, loop_vars
<1>2. InTransit' /\ StoreDistinct' /\ Accounted' /\ LoopLocked' /\ AnswersCounted'
  BY <1>1 DEF InTransit, StoreDistinct, Accounted, LoopLocked, AnswersCounted, Answering, Stored
<1>3. Ending'
  <2>1. CASE Raise \/ HandleSignal
    BY <1>1, <2>1 DEF Raise, HandleSignal, receiver_vars, Ending
  <2>2. CASE StartReceiver
    BY <1>1, <2>2 DEF StartReceiver, Ending, Exited
  <2>3. CASE EndReceiver
    BY <1>1, <2>3 DEF EndReceiver, is_disconnected, Ending
  <2> QED
    BY <2>1, <2>2, <2>3
<1> QED
  BY <1>2, <1>3

LEMMA StepInv == IInv /\ [Next]_vars => IInv'
<1> SUFFICES ASSUME IInv, [Next]_vars PROVE IInv'
  OBVIOUS
<1>1. TypeOK'
  BY StepType DEF IInv
<1>2. CASE UNCHANGED vars
  BY <1>1, <1>2 DEF vars, task_vars, receiver_vars, agent_vars, store_vars, loop_vars, IInv,
     InTransit, StoreDistinct, LoopLocked, Answering, AnswersCounted, Accounted, Ending, Stored
<1>3. CASE Next
  BY <1>1, <1>2, <1>3, DeliverInv, RecvInv, SaveInv, AnswerInv, ClearInv, LoopInv, TaskInv
     DEF Next, ReceiverStep, MainStep, Terminated
<1> QED
  BY <1>2, <1>3

LEMMA Invariant == Spec => []IInv
BY InitInv, StepInv, PTL DEF Spec

-----------------------------------------------------------------------------
(* No ping leaves the store without an answer, and none is answered twice. *)
THEOREM AnsweredOnce == Spec => []PingsAnsweredOnce
<1>1. IInv => PingsAnsweredOnce
  <2> SUFFICES ASSUME IInv, NEW m \in Pings
               PROVE  /\ answers[m] <= 1
                      /\ m \in saved \ Stored => answers[m] = 1
    BY DEF PingsAnsweredOnce
  <2>1. \/ m \notin saved
        \/ m \in saved \ Stored
        \/ \E i \in DOMAIN MESSAGES : MESSAGES[i] = m
    BY DEF Stored
  <2> QED
    BY <2>1 DEF IInv, AnswersCounted
<1> QED
  BY <1>1, Invariant, PTL

(* When the program has joined the receive task, every message that the    *)
(* agent delivered and that decodes is saved.                              *)
THEOREM Drained == Spec => []ExitDrained
<1>1. IInv => ExitDrained
  <2> SUFFICES ASSUME IInv, main_loop = "exited"
               PROVE  channel = <<>> /\ delivered \ Undecodable = saved
    BY DEF ExitDrained
  <2>1. receiver_handler = "ended"
    BY DEF IInv, Ending
  <2>2. channel = <<>> /\ received = NoMessage
    BY <2>1 DEF IInv, Ending
  <2>3. delivered \ Undecodable \subseteq saved
    BY <2>2, MessagesAssumption DEF IInv, Accounted, TypeOK
  <2>4. saved \subseteq delivered \ Undecodable
    BY DEF IInv, InTransit, TypeOK
  <2> QED
    BY <2>2, <2>3, <2>4
<1> QED
  BY <1>1, Invariant, PTL

-----------------------------------------------------------------------------
(* The shutdown: main stops the agent and blocks in the join.              *)

(* The store is locked only while the main loop looks through it, and the  *)
(* sender is gone before the join.                                         *)
Released == /\ messages_locked => Answering
            /\ main_loop \in {"join", "exited"} => ~sender_alive

(* A main thread that waits in the join never waits in vain: the receive   *)
(* task has ended, or it has a step to make, whatever is in the channel    *)
(* and whichever of the two got the mutex of the store last.  (Deadlock    *)
(* between join, recv and the mutex.)                                      *)
JoinNotStuck ==
  main_loop = "join" =>
    \/ receiver_handler \in {"ended", "spawned"}
    \/ received # NoMessage /\ ~messages_locked
    \/ received = NoMessage /\ (channel # <<>> \/ is_disconnected)

(* What the receive task still has to do.                                  *)
ToReceive == 2 * Len(channel)
             + (IF received # NoMessage THEN 1 ELSE 0)
             + (CASE receiver_handler = "spawned" -> 2
                  [] receiver_handler = "receiving" -> 1
                  [] receiver_handler = "ended" -> 0)

(* During the join nothing adds to the work of the receive task, and each  *)
(* of its steps takes something off it, so it ends after finitely many.    *)
JoinComesNearer ==
  [][main_loop = "join" =>
       \/ ToReceive' < ToReceive
       \/ UNCHANGED <<receiver_vars, agent_vars, channel, store_vars>>]_vars

LEMMA ReleasedStep ==
  ASSUME Released, [Next]_vars PROVE Released'
<1> USE DEF Released, Answering
<1>1. CASE (\E m \in Messages : Deliver(m)) \/ Raise \/ HandleSignal \/ ReceiverStep
           \/ radio_handler \/ Terminated \/ UNCHANGED vars
  BY <1>1 DEF Deliver, Raise, HandleSignal, ReceiverStep, StartReceiver, Recv, EndReceiver,
     radio_handler, Terminated, vars, agent_vars, store_vars, loop_vars
<1>2. CASE MainStep
  BY <1>2 DEF MainStep, Check, SendPing, LockMessages, AnswerNext, NothingToAnswer,
     ClearMessages, WakeUp, StopAgent, Join, sender_after_stop, agent_vars, store_vars
<1> QED
  BY <1>1, <1>2 DEF Next

LEMMA ReleasedInvariant == Spec => []Released
<1>1. Init => Released
  BY DEF Init, Released, Answering
<1>2. Released /\ [Next]_vars => Released'
  BY ReleasedStep
<1> QED
  BY <1>1, <1>2, PTL DEF Spec

(* Main and the receive task do not wait for each other.                   *)
THEOREM JoinGoesOn == Spec => []JoinNotStuck
<1>1. Released => JoinNotStuck
  BY DEF Released, Answering, JoinNotStuck, is_disconnected
<1> QED
  BY <1>1, ReleasedInvariant, PTL

(* The receive task ends during the join.                                  *)
THEOREM JoinEnds == Spec => JoinComesNearer
<1>1. ASSUME IInv, Released, Next, main_loop = "join"
      PROVE  \/ ToReceive' < ToReceive
             \/ UNCHANGED <<receiver_vars, agent_vars, channel, store_vars>>
  <2>1. CASE (\E m \in Messages : Deliver(m)) \/ Raise \/ HandleSignal \/ Terminated
    BY <1>1, <2>1 DEF Released, Deliver, Raise, HandleSignal, Terminated, vars
  <2>2. CASE MainStep
    BY <1>1, <2>2 DEF MainStep, Check, SendPing, LockMessages, AnswerNext, NothingToAnswer,
       ClearMessages, WakeUp, StopAgent, Join, agent_vars, store_vars
  <2>3. /\ Len(channel) \in Nat
        /\ receiver_handler \in {"spawned", "receiving", "ended"}
    BY <1>1 DEF IInv, TypeOK
  <2>4. CASE StartReceiver
    BY <2>3, <2>4 DEF StartReceiver, ToReceive
  <2>5. CASE Recv
    <3>1. Len(channel') = Len(channel) - 1 /\ Len(channel) > 0
      BY <1>1, <2>5 DEF Recv, IInv, TypeOK
    <3>2. ToReceive = 2 * Len(channel) + 1
      BY <2>3, <2>5 DEF Recv, ToReceive
    <3>3. ToReceive' \in {2 * Len(channel') + 1, 2 * Len(channel') + 2}
      BY <2>3, <2>5, <3>1 DEF Recv, ToReceive
    <3> QED
      BY <2>3, <3>1, <3>2, <3>3
  <2>6. CASE EndReceiver
    BY <2>3, <2>6 DEF EndReceiver, ToReceive
  <2>7. CASE radio_handler
    BY <2>3, <2>7 DEF radio_handler, ToReceive
  <2> QED
    BY <1>1, <2>1, <2>2, <2>4, <2>5, <2>6, <2>7 DEF Next, ReceiverStep
<1>2. IInv /\ Released /\ [Next]_vars =>
        [main_loop = "join" =>
           \/ ToReceive' < ToReceive
           \/ UNCHANGED <<receiver_vars, agent_vars, channel, store_vars>>]_vars
  BY <1>1
<1> QED
  BY <1>2, Invariant, ReleasedInvariant, PTL DEF Spec, JoinComesNearer
=============================================================================
