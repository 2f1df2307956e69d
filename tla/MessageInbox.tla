---------------------------- MODULE MessageInbox ----------------------------
(***************************************************************************)
(* What the Graphcast agent promises to the radio that runs on top of it:  *)
(* gossip may deliver a Waku message any number of times, but the radio    *)
(* gets one verdict per message.  The verdict is final, a message that is  *)
(* accepted is handed over at most once, in the order in which it was put  *)
(* into the channel, and an ignored message is never handed over.          *)
(***************************************************************************)
EXTENDS Sequences

CONSTANT Messages       \* the Waku messages, identified by their message id

VARIABLES
  fate,                 \* what became of each message
  queue                 \* messages waiting for the radio, oldest first

vars == <<fate, queue>>

Fates == {"unknown", "ignored", "accepted", "queued", "received", "lost"}

TypeOK == /\ fate \in [Messages -> Fates]
          /\ queue \in Seq(Messages)

Init == /\ fate = [m \in Messages |-> "unknown"]
        /\ queue = <<>>

Become(m, f) == fate' = [fate EXCEPT ![m] = f]

(* The one verdict on m.                                                   *)
Decide(m) == /\ fate[m] = "unknown"
             /\ Become(m, "ignored") \/ Become(m, "accepted")
             /\ UNCHANGED queue

(* An accepted message goes to the end of the queue ...                    *)
Enqueue(m) == /\ fate[m] = "accepted"
              /\ Become(m, "queued")
              /\ queue' = Append(queue, m)

(* ... unless the radio no longer listens.                                 *)
Lose(m) == /\ fate[m] = "accepted"
           /\ Become(m, "lost")
           /\ UNCHANGED queue

Receive == /\ queue # <<>>
           /\ fate[Head(queue)] = "queued"
           /\ Become(Head(queue), "received")
           /\ queue' = Tail(queue)

(* The radio drops its end of the channel with what is still queued.       *)
Abandon == /\ fate' = [m \in Messages |-> IF fate[m] = "queued" THEN "lost"
                                                               ELSE fate[m]]
           /\ queue' = <<>>

Next == \/ \E m \in Messages : Decide(m) \/ Enqueue(m) \/ Lose(m)
        \/ Receive
        \/ Abandon

Spec == Init /\ [][Next]_vars

-----------------------------------------------------------------------------
(* What waits for the radio waits once, and nothing is said to wait that   *)
(* does not.                                                               *)
QueuedOnce ==
  /\ \A i, j \in DOMAIN queue : queue[i] = queue[j] => i = j
  /\ \A m \in Messages : fate[m] = "queued" <=> \E i \in DOMAIN queue : queue[i] = m

(* A verdict is final: an ignored message is never handed over, an         *)
(* accepted one is on its way to the radio until it is received, from the  *)
(* head of the queue and once, or lost for good.                           *)
VerdictFinal ==
  [][\A m \in Messages :
       /\ fate[m] \in {"ignored", "received", "lost"} => fate'[m] = fate[m]
       /\ fate[m] \in {"accepted", "queued"} =>
            fate'[m] \in {"accepted", "queued", "received", "lost"}
       /\ fate[m] # "received" /\ fate'[m] = "received" =>
            queue # <<>> /\ m = Head(queue)]_vars
=============================================================================
