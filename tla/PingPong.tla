------------------------------ MODULE PingPong ------------------------------
(***************************************************************************)
(* The ping-pong radio: its main loop, which sends a ping or answers the   *)
(* saved pings; the receive task, which saves what the agent puts into the *)
(* channel; the task that waits for a termination signal; and the shutdown *)
(* in which they meet.  The two spawned tasks share the worker threads of  *)
(* the tokio runtime, and recv blocks the worker it runs on.  The agent is *)
(* seen from outside: it delivers each message at most once, and lets go   *)
(* of its end of the channel when it is stopped (GraphcastAgent).          *)
(***************************************************************************)
EXTENDS Naturals, Sequences

CONSTANTS
  Messages,             \* what the agent may deliver, each once
  Pings,                \* those whose content is "Ping"
  Undecodable,          \* those that are no SimpleMessage
  Workers,              \* worker threads of the runtime
  NoMessage

ASSUME MessagesAssumption == /\ Pings \subseteq Messages \ Undecodable
                             /\ Undecodable \subseteq Messages
                             /\ NoMessage \notin Messages
ASSUME WorkersAssumption == Workers \in Nat \ {0}

VARIABLES
  running,              \* the flag that the main loop reads
  signal,               \* "none", "raised" by the system, or "handled"
  receiver_handler,     \* the task: "spawned", "receiving" or "ended"
  received,             \* the message it is handling
  delivered,            \* messages the agent has put into the channel
  channel,
  sender_alive,         \* whether the agent still holds the sending end
  MESSAGES,             \* the saved messages
  messages_locked,      \* whether the main loop holds their mutex
  saved,                \* every message that was ever saved
  main_loop,            \* where the main thread is
  block_number,         \* modulo 4, which is all the loop looks at
  next,                 \* the saved message it looks at next
  answers               \* how often each message was answered, up to 2

task_vars == <<running, signal>>
receiver_vars == <<receiver_handler, received>>
agent_vars == <<delivered, sender_alive>>
store_vars == <<MESSAGES, messages_locked, saved>>
loop_vars == <<main_loop, block_number, next, answers>>
vars == <<task_vars, receiver_vars, agent_vars, channel, store_vars, loop_vars>>

Init == /\ running = TRUE
        /\ signal = "none"
        /\ receiver_handler = "spawned" /\ received = NoMessage
        /\ delivered = {} /\ sender_alive = TRUE
        /\ channel = <<>>
        /\ MESSAGES = <<>> /\ messages_locked = FALSE /\ saved = {}
        /\ main_loop = "check" /\ block_number = 0 /\ next = 1
        /\ answers = [m \in Messages |-> 0]

Exited == main_loop \in {"exited", "panicked"}

-----------------------------------------------------------------------------
(* The agent's callback puts a message into the channel.                   *)
Deliver(m) == /\ ~Exited
              /\ sender_alive
              /\ m \notin delivered
              /\ delivered' = delivered \cup {m}
              /\ channel' = Append(channel, m)
              /\ UNCHANGED <<sender_alive, task_vars, receiver_vars, store_vars,
                             loop_vars>>

(* Ctrl+C or SIGTERM.                                                      *)
Raise == /\ ~Exited
         /\ signal = "none"
         /\ signal' = "raised"
         /\ UNCHANGED <<running, receiver_vars, agent_vars, channel, store_vars,
                        loop_vars>>

(* A worker polls a task only while recv does not block it.                *)
FreeWorker == receiver_handler # "receiving" \/ Workers > 1

HandleSignal == /\ ~Exited
                /\ signal = "raised"
                /\ FreeWorker
                /\ signal' = "handled"
                /\ running' = FALSE
                /\ UNCHANGED <<receiver_vars, agent_vars, channel, store_vars,
                               loop_vars>>

-----------------------------------------------------------------------------
(* The receive task.                                                       *)

StartReceiver == /\ ~Exited
                 /\ receiver_handler = "spawned"
                 /\ receiver_handler' = "receiving"
                 /\ UNCHANGED <<received, task_vars, agent_vars, channel,
                                store_vars, loop_vars>>

(* Seeded fault: what does not decode is handled like the rest.            *)
decoded_any(m) == m

(* A message that does not decode is dropped.                              *)
decoded(m) == IF m \in Undecodable THEN NoMessage ELSE m

Recv == /\ ~Exited
        /\ receiver_handler = "receiving" /\ received = NoMessage
        /\ channel # <<>>
        /\ channel' = Tail(channel)
        /\ received' = decoded(Head(channel))
        /\ UNCHANGED <<receiver_handler, task_vars, agent_vars, store_vars,
                       loop_vars>>

(* radio_handler, once the mutex of MESSAGES is free.                      *)
radio_handler == /\ ~Exited
                 /\ received # NoMessage
                 /\ ~messages_locked
                 /\ MESSAGES' = Append(MESSAGES, received)
                 /\ saved' = saved \cup {received}
                 /\ received' = NoMessage
                 /\ UNCHANGED <<receiver_handler, messages_locked, task_vars,
                                agent_vars, channel, loop_vars>>

(* Seeded fault: the loop ends with the sender, not with the channel.      *)
is_closed == ~sender_alive

is_disconnected == ~sender_alive /\ channel = <<>>

EndReceiver == /\ ~Exited
               /\ receiver_handler = "receiving" /\ received = NoMessage
               /\ is_disconnected
               /\ receiver_handler' = "ended"
               /\ UNCHANGED <<received, task_vars, agent_vars, channel, store_vars,
                              loop_vars>>

-----------------------------------------------------------------------------
(* The main loop.                                                          *)

(* Seeded fault: every block is taken for one that pings.                  *)
sends_ping_always(b) == TRUE

sends_ping(b) == b \div 2 = 0           \* b & 2 == 0, for b modulo 4

Check == /\ main_loop = "check"
         /\ \/ /\ running
               /\ block_number' = (block_number + 1) % 4
               /\ main_loop' = IF sends_ping(block_number') THEN "ping" ELSE "process"
            \/ /\ ~running
               /\ main_loop' = "stop"
               /\ UNCHANGED block_number
         /\ UNCHANGED <<next, answers, task_vars, receiver_vars, agent_vars, channel,
                        store_vars>>

(* A send that fails is logged like one that succeeds.                     *)
SendPing == /\ main_loop = "ping"
            /\ main_loop' = "sleep"
            /\ UNCHANGED <<block_number, next, answers, task_vars, receiver_vars,
                           agent_vars, channel, store_vars>>

(* Seeded fault: the messages are looked at without keeping their mutex.   *)
keep_lock_no == FALSE

keep_lock == TRUE

LockMessages == /\ main_loop = "process"
                /\ messages_locked' = keep_lock
                /\ main_loop' = "answer"
                /\ next' = 1
                /\ UNCHANGED <<block_number, answers, MESSAGES, saved, task_vars,
                               receiver_vars, agent_vars, channel>>

Count(n) == IF n < 2 THEN n + 1 ELSE n

AnswerNext == /\ main_loop = "answer"
              /\ next <= Len(MESSAGES)
              /\ next' = next + 1
              /\ answers' = IF MESSAGES[next] \in Pings
                            THEN [answers EXCEPT ![MESSAGES[next]] = Count(@)]
                            ELSE answers
              /\ main_loop' = IF next = Len(MESSAGES) THEN "clear" ELSE "answer"
              /\ UNCHANGED <<block_number, task_vars, receiver_vars, agent_vars,
                             channel, store_vars>>

NothingToAnswer == /\ main_loop = "answer"
                   /\ next > Len(MESSAGES)
                   /\ main_loop' = "clear"
                   /\ UNCHANGED <<block_number, next, answers, task_vars,
                                  receiver_vars, agent_vars, channel, store_vars>>

cleared == <<>>

ClearMessages == /\ main_loop = "clear"
                 /\ MESSAGES' = cleared
                 /\ messages_locked' = FALSE
                 /\ main_loop' = "sleep"
                 /\ UNCHANGED <<block_number, next, answers, saved, task_vars,
                                receiver_vars, agent_vars, channel>>

WakeUp == /\ main_loop = "sleep"
          /\ main_loop' = "check"
          /\ UNCHANGED <<block_number, next, answers, task_vars, receiver_vars,
                         agent_vars, channel, store_vars>>

(* Seeded fault: the agent keeps its sender when it is stopped.            *)
sender_after_stop_kept == TRUE

sender_after_stop == FALSE

(* stop succeeds, and the task is joined, or fails and the radio panics.   *)
StopAgent == /\ main_loop = "stop"
             /\ sender_alive' = sender_after_stop
             /\ main_loop' \in {"join", "panicked"}
             /\ UNCHANGED <<block_number, next, answers, task_vars, receiver_vars,
                            delivered, channel, store_vars>>

Join == /\ main_loop = "join"
        /\ receiver_handler = "ended"
        /\ main_loop' = "exited"
        /\ UNCHANGED <<block_number, next, answers, task_vars, receiver_vars,
                       agent_vars, channel, store_vars>>

MainStep == \/ Check \/ SendPing \/ LockMessages \/ AnswerNext \/ NothingToAnswer
            \/ ClearMessages \/ WakeUp \/ StopAgent \/ Join

ReceiverStep == StartReceiver \/ Recv \/ EndReceiver

Terminated == Exited /\ UNCHANGED vars

Next == \/ \E m \in Messages : Deliver(m)
        \/ Raise \/ HandleSignal
        \/ ReceiverStep \/ radio_handler
        \/ MainStep
        \/ Terminated

Spec == Init /\ [][Next]_vars

(* Every thread that can run does.  radio_handler waits for a mutex that   *)
(* the main loop gives up for five seconds in every round, so it gets it   *)
(* if it is free again and again.                                          *)
FairSpec == /\ Spec
            /\ WF_vars(MainStep)
            /\ WF_vars(ReceiverStep)
            /\ SF_vars(radio_handler)
            /\ WF_vars(HandleSignal)

-----------------------------------------------------------------------------
(* Every variable stays in its range.                                      *)
TypeOK == /\ running \in BOOLEAN
          /\ signal \in {"none", "raised", "handled"}
          /\ receiver_handler \in {"spawned", "receiving", "ended"}
          /\ received \in (Messages \ Undecodable) \cup {NoMessage}
          /\ delivered \subseteq Messages
          /\ sender_alive \in BOOLEAN
          /\ channel \in Seq(Messages)
          /\ MESSAGES \in Seq(Messages \ Undecodable)
          /\ messages_locked \in BOOLEAN
          /\ saved \subseteq Messages \ Undecodable
          /\ main_loop \in {"check", "ping", "process", "answer", "clear", "sleep",
                            "stop", "join", "exited", "panicked"}
          /\ block_number \in 0 .. 3
          /\ next \in Nat \ {0}
          /\ answers \in [Messages -> 0 .. 2]

Stored == {MESSAGES[i] : i \in DOMAIN MESSAGES}

(* The store is cleared while messages come in, yet a ping that has left   *)
(* it was answered, and none is answered twice: the main loop holds the    *)
(* mutex from the first message it looks at to the clearing.               *)
PingsAnsweredOnce ==
  /\ \A m \in Pings : answers[m] <= 1
  /\ \A m \in (saved \cap Pings) \ Stored : answers[m] = 1

(* When the program exits after a join, everything the agent delivered has *)
(* been taken out of the channel and saved.                                *)
ExitDrained == main_loop = "exited" =>
                 channel = <<>> /\ delivered \ Undecodable = saved

(* A saved ping is answered unless the radio is told to end.               *)
PingsGetAnswers == \A m \in Pings : m \in saved ~> answers[m] > 0 \/ ~running

(* A termination signal ends the program ("Ctrl+C received! Shutting       *)
(* down..."): the signal task gets to run, the main loop ends, the agent   *)
(* stops and the receive task is joined.                                   *)
SignalEndsProgram == signal = "raised" ~> Exited
=============================================================================
