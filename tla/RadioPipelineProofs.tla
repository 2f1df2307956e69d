------------------------- MODULE RadioPipelineProofs -------------------------
(***************************************************************************)
(* Theorems about MessageValidity, for any messages, signers, clock and    *)
(* MSG_REPLAY_LIMIT, and about RadioPipeline, which adds deliveries and    *)
(* restarts: what a radio acts on.  Within a run of the radio the          *)
(* invariant of MessageValidity holds of the pipeline too; what is added   *)
(* there relates the nonces to the order in which messages were sent, and  *)
(* to the restarts.                                                        *)
(***************************************************************************)
EXTENDS RadioPipeline, TLAPS

-----------------------------------------------------------------------------
(* Part 1: message validation, of Spec in MessageValidity.                 *)

(* Behind valid_time a nonce is not ahead of the clock, and behind the     *)
(* recovery in valid_nonce a message has a signer.                         *)
PastTime == /\ \A m \in Messages :
                 stage[m] \in {"nonce", "first", "stale", "accepted"}
                   => NonceOf[m] <= clock
            /\ \A m \in Messages :
                 stage[m] \in {"first", "stale", "accepted"} => KeyOf(m) \in Keys

IInv == /\ TypeOK
        /\ PastTime
        /\ SavedNonceIsHighest
        /\ OneFirstMessage
        /\ OwnMessagesRejected

(* The invariant holds before any message is validated.                    *)
LEMMA InitIInv == Init => IInv
<1> SUFFICES ASSUME Init PROVE IInv
  OBVIOUS
<1> USE DEF Init
<1>1. TypeOK
  BY ClockAssumption DEF TypeOK, Stages
<1>2. \A k \in Keys : Compared(k) = {}
  BY DEF Compared
<1>3. PastTime /\ OwnMessagesRejected
  BY DEF PastTime, OwnMessagesRejected
<1>4. SavedNonceIsHighest /\ OneFirstMessage
  BY <1>2 DEF SavedNonceIsHighest, OneFirstMessage
<1> QED BY <1>1, <1>3, <1>4 DEF IInv

(* Every step of a validation keeps the variables in their ranges.         *)
LEMMA TypeStep == TypeOK /\ [Next]_vars => TypeOK'
<1> SUFFICES ASSUME TypeOK, [Next]_vars PROVE TypeOK'
  OBVIOUS
<1> USE DEF TypeOK, Stages, Advance
<1>1. ASSUME NEW m \in Messages, valid_sender(m) \/ verify_returns(m) \/ valid_time(m)
      PROVE  TypeOK'
  BY <1>1 DEF valid_sender, verify_returns, valid_time
<1>2. ASSUME NEW m \in Messages, valid_nonce(m) PROVE TypeOK'
  <2>1. NonceOf[m] \in Nat
    BY MessagesAssumption
  <2> QED BY <1>2, <2>1 DEF valid_nonce, prepare_nonces
<1>3. CASE Tick
  BY <1>3 DEF Tick
<1>4. CASE UNCHANGED vars
  BY <1>4 DEF vars
<1> QED BY <1>1, <1>2, <1>3, <1>4 DEF Next

(* A message that reaches the comparison is counted for its own key only.  *)
LEMMA ComparedStep ==
  ASSUME TypeOK, NEW m \in Messages, NEW to \in Stages,
         stage[m] = "nonce", stage' = [stage EXCEPT ![m] = to],
         to \in {"first", "stale", "accepted"}
  PROVE  /\ m \notin Compared(KeyOf(m))
         /\ Compared(KeyOf(m))' = Compared(KeyOf(m)) \cup {m}
         /\ \A k \in Keys \ {KeyOf(m)} : Compared(k)' = Compared(k)
BY DEF TypeOK, Compared, KeyOf

(* The steps before the comparison, and the clock, leave it alone.         *)
LEMMA ComparedSame ==
  ASSUME TypeOK, NEW m \in Messages, NEW to,
         stage[m] \notin {"first", "stale", "accepted"},
         to \notin {"first", "stale", "accepted"},
         stage' = [stage EXCEPT ![m] = to]
  PROVE  /\ \A k \in Keys : Compared(k)' = Compared(k)
         /\ \A k \in Keys : \A n \in Compared(k) : stage'[n] = stage[n]
BY DEF TypeOK, Compared, KeyOf

(* What each branch of valid_nonce does to the two facts about a key.      *)
LEMMA NonceStep ==
  ASSUME IInv, NEW m \in Messages, valid_nonce(m)
  PROVE  SavedNonceIsHighest' /\ OneFirstMessage'
<1> USE DEF IInv, TypeOK, Advance
<1>1. CASE SignerOf[m] = BadSignature
  <2>1. /\ \A j \in Keys : Compared(j)' = Compared(j)
        /\ \A j \in Keys : \A n \in Compared(j) : stage'[n] = stage[n]
        /\ nonces' = nonces
    BY <1>1, ComparedSame DEF valid_nonce
  <2> QED BY <2>1 DEF SavedNonceIsHighest, OneFirstMessage
<1>2. CASE SignerOf[m] # BadSignature
  <2>1. KeyOf(m) \in Keys /\ NonceOf[m] \in Nat
    BY <1>2, MessagesAssumption DEF Keys, KeyOf
  <2>2. PICK k \in Keys : k = KeyOf(m)
    BY <2>1
  <2>3. PICK to \in {"first", "stale", "accepted"} :
           stage[m] = "nonce" /\ stage' = [stage EXCEPT ![m] = to]
    BY <1>2 DEF valid_nonce
  <2>4. /\ m \notin Compared(k)
        /\ Compared(k)' = Compared(k) \cup {m}
        /\ \A j \in Keys \ {k} : Compared(j)' = Compared(j)
    BY <2>2, <2>3, ComparedStep DEF Stages
  <2>5. stage'[m] = to /\ \A n \in Messages \ {m} : stage'[n] = stage[n]
    BY <2>3
  <2>6. \A j \in Keys : Compared(j) \subseteq Messages
    BY DEF Compared
  <2>7. \A j \in Keys \ {k} : nonces'[j] = nonces[j] /\ m \notin Compared(j)
    BY <1>2, <2>2 DEF valid_nonce, prepare_nonces, Compared
  <2>8. \/ to = "first" /\ nonces[k] = NoNonce /\ nonces'[k] = NonceOf[m]
        \/ to = "stale" /\ nonces[k] # NoNonce /\ nonces[k] > NonceOf[m]
           /\ nonces'[k] = nonces[k]
        \/ to = "accepted" /\ nonces[k] # NoNonce /\ ~(nonces[k] > NonceOf[m])
           /\ nonces'[k] = NonceOf[m]
    BY <1>2, <2>2, <2>3, <2>5 DEF valid_nonce, prepare_nonces, is_stale
  <2>9. /\ nonces'[k] # NoNonce /\ nonces'[k] \in Nat
        /\ \E n \in Compared(k) \cup {m} : NonceOf[n] = nonces'[k]
        /\ \A n \in Compared(k) \cup {m} : NonceOf[n] <= nonces'[k]
    <3>1. nonces[k] = NoNonce => Compared(k) = {}
      BY DEF SavedNonceIsHighest
    <3>2. nonces[k] # NoNonce => /\ nonces[k] \in Nat
                                 /\ \E n \in Compared(k) : NonceOf[n] = nonces[k]
                                 /\ \A n \in Compared(k) : NonceOf[n] <= nonces[k]
      BY DEF SavedNonceIsHighest
    <3>3. \A n \in Compared(k) : NonceOf[n] \in Nat
      BY <2>6, MessagesAssumption
    <3> QED BY <2>1, <2>8, <3>1, <3>2, <3>3, NonceAssumption
  <2>10. SavedNonceIsHighest'
    <3>1. ASSUME NEW j \in Keys
          PROVE  IF nonces'[j] = NoNonce
                 THEN Compared(j)' = {}
                 ELSE /\ \E n \in Compared(j)' : NonceOf[n] = nonces'[j]
                      /\ \A n \in Compared(j)' : NonceOf[n] <= nonces'[j]
      <4>1. CASE j = k
        BY <2>4, <2>9, <4>1
      <4>2. CASE j # k
        BY <2>4, <2>7, <4>2 DEF SavedNonceIsHighest
      <4> QED BY <4>1, <4>2
    <3> QED BY <3>1 DEF SavedNonceIsHighest
  <2>11. OneFirstMessage'
    <3>1. ASSUME NEW j \in Keys, Compared(j)' # {}
          PROVE  \E x \in Compared(j)' :
                   \A n \in Compared(j)' : stage'[n] = "first" <=> n = x
      <4>1. CASE j # k
        BY <2>4, <2>5, <2>6, <2>7, <3>1, <4>1 DEF OneFirstMessage
      <4>2. CASE j = k /\ nonces[k] = NoNonce
        <5>1. Compared(k)' = {m} /\ to = "first"
          BY <2>4, <2>8, <4>2 DEF SavedNonceIsHighest
        <5> QED BY <2>5, <4>2, <5>1
      <4>3. CASE j = k /\ nonces[k] # NoNonce
        <5>1. Compared(k) # {} /\ to # "first"
          BY <2>8, <4>3 DEF SavedNonceIsHighest
        <5>2. PICK x \in Compared(k) : \A n \in Compared(k) : stage[n] = "first" <=> n = x
          BY <5>1 DEF OneFirstMessage
        <5>3. \A n \in Compared(k) \cup {m} : stage'[n] = "first" <=> n = x
          BY <2>4, <2>5, <2>6, <5>1, <5>2
        <5> QED BY <2>4, <4>3, <5>3
      <4> QED BY <4>1, <4>2, <4>3
    <3> QED BY <3>1 DEF OneFirstMessage
  <2> QED BY <2>10, <2>11
<1> QED BY <1>1, <1>2

(* Every step preserves the invariant.                                     *)
LEMMA InvStep == IInv /\ [Next]_vars => IInv'
<1> SUFFICES ASSUME IInv, [Next]_vars PROVE IInv'
  OBVIOUS
<1>1. TypeOK'
  BY TypeStep DEF IInv
<1>2. ASSUME NEW m \in Messages, valid_sender(m) \/ verify_returns(m) \/ valid_time(m)
      PROVE  IInv'
  <2> USE DEF IInv, TypeOK, Advance, valid_sender, verify_returns, valid_time
  <2>1. PICK to \in {"verify", "time", "nonce", "rejected"} :
          /\ stage[m] \in {"new", "verify", "time"}
          /\ stage' = [stage EXCEPT ![m] = to]
          /\ to = "nonce" => in_time(m)
    BY <1>2
  <2>2. UNCHANGED <<id_validation, nonces, clock>>
    BY <1>2
  <2>3. PastTime'
    BY <2>1, <2>2 DEF PastTime, in_time
  <2>4. /\ \A k \in Keys : Compared(k)' = Compared(k)
        /\ \A k \in Keys : \A n \in Compared(k) : stage'[n] = stage[n]
    BY <2>1, ComparedSame
  <2>5. SavedNonceIsHighest' /\ OneFirstMessage'
    BY <2>2, <2>4 DEF SavedNonceIsHighest, OneFirstMessage
  <2>6. OwnMessagesRejected'
    BY <1>2 DEF OwnMessagesRejected, remote_account, from_self
  <2> QED BY <1>1, <2>3, <2>5, <2>6
<1>3. ASSUME NEW m \in Messages, valid_nonce(m) PROVE IInv'
  <2>1. SavedNonceIsHighest' /\ OneFirstMessage'
    BY <1>3, NonceStep
  <2> USE DEF IInv, TypeOK, Advance
  <2>2. PICK to \in {"rejected", "first", "stale", "accepted"} :
          /\ stage[m] = "nonce" /\ stage' = [stage EXCEPT ![m] = to]
          /\ to # "rejected" => SignerOf[m] # BadSignature
          /\ UNCHANGED <<id_validation, clock>>
    BY <1>3 DEF valid_nonce
  <2>3. SignerOf[m] # BadSignature => KeyOf(m) \in Keys
    BY MessagesAssumption DEF Keys, KeyOf
  <2>4. PastTime'
    BY <2>2, <2>3 DEF PastTime, KeyOf
  <2>5. OwnMessagesRejected'
    BY <2>2 DEF OwnMessagesRejected
  <2> QED BY <1>1, <2>1, <2>4, <2>5
<1>4. CASE Tick
  <2>1. clock \in Nat /\ clock' = clock + 1 /\ UNCHANGED <<id_validation, stage, nonces>>
    BY <1>4 DEF Tick, IInv, TypeOK
  <2>2. PastTime'
    <3>1. \A m \in Messages : NonceOf[m] <= clock => NonceOf[m] <= clock'
      BY <2>1, MessagesAssumption
    <3> QED BY <2>1, <3>1 DEF PastTime, IInv
  <2>3. SavedNonceIsHighest' /\ OneFirstMessage' /\ OwnMessagesRejected'
    BY <2>1 DEF IInv, SavedNonceIsHighest, OneFirstMessage, OwnMessagesRejected, Compared
  <2> QED BY <1>1, <2>2, <2>3 DEF IInv
<1>5. CASE UNCHANGED vars
  BY <1>1, <1>5 DEF vars, IInv, PastTime, SavedNonceIsHighest, OneFirstMessage,
                    OwnMessagesRejected, Compared
<1> QED BY <1>2, <1>3, <1>4, <1>5 DEF Next

(* The invariant holds always.                                             *)
LEMMA Invariance == Spec => []IInv
<1>1. Init => IInv
  BY InitIInv
<1>2. IInv /\ [Next]_vars => IInv'
  BY InvStep
<1> QED BY <1>1, <1>2, PTL DEF Spec

-----------------------------------------------------------------------------
(* Every variable of the validation stays in its range.                    *)
THEOREM TypeCorrect == Spec => []TypeOK
BY Invariance, PTL DEF IInv

(* The nonce saved for a signer on an identifier is the highest one that   *)
(* got as far as valid_nonce, whatever the interleaving.                   *)
THEOREM HighestSaved == Spec => []SavedNonceIsHighest
BY Invariance, PTL DEF IInv

(* Exactly one message of a signer on an identifier is spent on the first  *)
(* nonce.                                                                  *)
THEOREM OneFirst == Spec => []OneFirstMessage
BY Invariance, PTL DEF IInv

(* With an identity check on, the radio's own messages do not pass.        *)
THEOREM OwnRejected == Spec => []OwnMessagesRejected
BY Invariance, PTL DEF IInv

(* No message can push a saved nonce ahead of the clock.                   *)
THEOREM NotAhead == Spec => []SavedNonceNotAhead
<1>1. IInv => SavedNonceNotAhead
  <2> SUFFICES ASSUME IInv, NEW k \in Keys, nonces[k] # NoNonce
               PROVE  nonces[k] <= clock
    BY DEF SavedNonceNotAhead
  <2>1. PICK m \in Compared(k) : NonceOf[m] = nonces[k]
    BY DEF IInv, SavedNonceIsHighest
  <2> QED BY <2>1 DEF IInv, PastTime, Compared
<1> QED BY <1>1, Invariance, PTL

(* A step of a validation lowers no saved nonce.                           *)
LEMMA MonotoneStep ==
  ASSUME IInv, Next, NEW k \in Keys, nonces[k] # NoNonce
  PROVE  nonces'[k] # NoNonce /\ nonces'[k] >= nonces[k]
<1>1. nonces[k] \in Nat
  BY DEF IInv, TypeOK
<1>2. CASE nonces' = nonces
  BY <1>1, <1>2
<1>3. ASSUME NEW m \in Messages, valid_nonce(m), nonces' # nonces
      PROVE  nonces'[k] # NoNonce /\ nonces'[k] >= nonces[k]
  <2>1. NonceOf[m] \in Nat
    BY MessagesAssumption
  <2> QED BY <1>1, <1>3, <2>1, NonceAssumption
          DEF valid_nonce, prepare_nonces, is_stale, IInv, TypeOK
<1> QED BY <1>2, <1>3
        DEF Next, valid_sender, verify_returns, valid_time, valid_nonce, Tick

(* A saved nonce is never forgotten or lowered.                            *)
THEOREM Monotone == Spec => NoncesMonotone
<1>1. ASSUME IInv, [Next]_vars
      PROVE  [\A k \in Keys : nonces[k] # NoNonce =>
                nonces'[k] # NoNonce /\ nonces'[k] >= nonces[k]]_vars
  BY <1>1, MonotoneStep
<1> QED BY <1>1, Invariance, PTL DEF Spec, NoncesMonotone

(* Messages of one signer on one identifier are accepted in the order of   *)
(* their nonces.                                                           *)
THEOREM InOrder == Spec => AcceptedInOrder
<1> DEFINE Ordered == \A m, n \in Messages :
                        /\ stage[m] = "accepted"
                        /\ stage[n] # "accepted" /\ stage'[n] = "accepted"
                        /\ KeyOf(m) = KeyOf(n)
                        => NonceOf[m] <= NonceOf[n]
<1>1. ASSUME IInv, Next PROVE Ordered
  <2> SUFFICES ASSUME NEW m \in Messages, NEW n \in Messages,
                      stage[m] = "accepted",
                      stage[n] # "accepted", stage'[n] = "accepted",
                      KeyOf(m) = KeyOf(n)
               PROVE  NonceOf[m] <= NonceOf[n]
    OBVIOUS
  <2>1. PICK k \in Keys : k = KeyOf(m)
    BY <1>1 DEF IInv, PastTime
  <2>2. nonces[k] # NoNonce /\ NonceOf[m] <= nonces[k]
    BY <1>1, <2>1 DEF IInv, SavedNonceIsHighest, Compared
  <2>3. valid_nonce(n)
    BY <1>1 DEF Next, valid_sender, verify_returns, valid_time, valid_nonce, Tick,
                Advance, IInv, TypeOK
  <2>4. ~(nonces[k] > NonceOf[n])
    BY <1>1, <2>1, <2>2, <2>3 DEF valid_nonce, Advance, is_stale, IInv, TypeOK
  <2>5. nonces[k] \in Nat /\ NonceOf[m] \in Nat /\ NonceOf[n] \in Nat
    BY <1>1, <2>2, MessagesAssumption DEF IInv, TypeOK
  <2> QED BY <2>2, <2>4, <2>5
<1>2. ASSUME IInv, [Next]_vars PROVE [Ordered]_vars
  BY <1>1, <1>2
<1> QED BY <1>2, Invariance, PTL DEF Spec, AcceptedInOrder

-----------------------------------------------------------------------------
(* Part 2: the pipeline, of PipelineSpec in RadioPipeline.                 *)

Late == {"nonce", "first", "stale", "accepted"}

(* A message is delivered only if it was sent, and validated only once the *)
(* agent has handed it over.                                               *)
OnlySent == \A m \in Messages : /\ fate[m] # "unknown" => m \in Sent
                                /\ stage[m] # "new" => fate[m] = "received"

(* A sender stamps with a clock that does not go back.                     *)
SentInOrder ==
  /\ \A i \in DOMAIN sent :
       SignerOf[sent[i]] # BadSignature =>
         NonceOf[sent[i]] <= clock + Skew[SignerOf[sent[i]]]
  /\ \A i, j \in DOMAIN sent :
       i < j /\ SignerOf[sent[i]] = SignerOf[sent[j]] /\ SignerOf[sent[i]] # BadSignature
         => NonceOf[sent[i]] <= NonceOf[sent[j]]

(* What is past valid_time was young enough at some time of this run.      *)
YoungEnough == \A m \in Messages :
                 stage[m] \in Late => started < NonceOf[m] + MSG_REPLAY_LIMIT

(* A stale message has met a higher nonce, an accepted one is not below    *)
(* the first.                                                              *)
StaleBelow == \A m \in Messages :
                stage[m] = "stale" => \E n \in Compared(KeyOf(m)) : NonceOf[n] > NonceOf[m]
FirstLowest == \A m, n \in Messages :
                 stage[n] = "first" /\ stage[m] = "accepted" /\ KeyOf(n) = KeyOf(m)
                   => NonceOf[n] <= NonceOf[m]

AcceptedListed == \A i \in DOMAIN accepted : stage[accepted[i]] = "accepted"

PInv == /\ IInv /\ PipelineTypeOK
        /\ OnlySent /\ SentInOrder
        /\ YoungEnough /\ StaleBelow /\ FirstLowest
        /\ AcceptedListed /\ ActsInOrder

-----------------------------------------------------------------------------
LEMMA PipelineInitInv == PipelineInit => PInv
<1> SUFFICES ASSUME PipelineInit PROVE PInv
  OBVIOUS
<1>1. IInv
  BY InitIInv DEF PipelineInit
<1>2. PipelineTypeOK
  BY <1>1, ClockAssumption, RestartsAssumption
     DEF PipelineInit, PipelineTypeOK, IInv, Init, Inbox!Init, Inbox!TypeOK, Inbox!Fates
<1>3. \A m \in Messages : fate[m] = "unknown" /\ stage[m] = "new"
  BY DEF PipelineInit, Init, Inbox!Init
<1>4. OnlySent /\ YoungEnough /\ StaleBelow /\ FirstLowest
  BY <1>3 DEF OnlySent, YoungEnough, StaleBelow, FirstLowest, Late
<1>5. sent = <<>> /\ accepted = <<>>
  BY DEF PipelineInit
<1>6. SentInOrder /\ AcceptedListed /\ ActsInOrder
  BY <1>5 DEF SentInOrder, AcceptedListed, ActsInOrder
<1> QED
  BY <1>1, <1>2, <1>4, <1>6 DEF PInv

(* The clock and the steps of one message are steps of MessageValidity.    *)
LEMMA ValidityStep ==
  ASSUME IInv, PipelineTick \/ (\E m \in Messages : Validate(m)) \/ UNCHANGED <<validation, clock>>
  PROVE  IInv'
BY InvStep DEF Next, vars, validation, PipelineTick, Validate

(* What one step of the validation of m does.                              *)
LEMMA StageStep ==
  ASSUME TypeOK, NEW m \in Messages, Validate(m)
  PROVE  /\ UNCHANGED <<clock, agent, sent, runs>>
         /\ \E to \in Stages :
              /\ stage' = [stage EXCEPT ![m] = to]
              /\ accepted' = IF to = "accepted" THEN Append(accepted, m) ELSE accepted
              /\ \/ /\ stage[m] \in {"new", "verify", "time"}
                    /\ to \in {"verify", "time", "nonce", "rejected"}
                    /\ to = "nonce" => in_time(m)
                    /\ UNCHANGED nonces
                 \/ stage[m] = "nonce" /\ to = "rejected" /\ UNCHANGED nonces
                 \/ /\ stage[m] = "nonce" /\ to \in {"first", "stale", "accepted"}
                    /\ SignerOf[m] # BadSignature
                    /\ to = "first" => nonces[KeyOf(m)] = NoNonce
                    /\ to = "stale" => is_stale(m)
                    /\ to = "accepted" => nonces[KeyOf(m)] # NoNonce /\ ~is_stale(m)
<1> USE DEF TypeOK, Advance
<1>1. UNCHANGED <<clock, agent, sent, runs>>
  BY DEF Validate, valid_sender, verify_returns, valid_time, valid_nonce
<1>2. \A to \in Stages : stage' = [stage EXCEPT ![m] = to] =>
        accepted' = IF to = "accepted" THEN Append(accepted, m) ELSE accepted
  BY DEF Validate
<1>3. CASE valid_sender(m)
  BY <1>1, <1>2, <1>3 DEF valid_sender, Stages
<1>4. CASE verify_returns(m)
  BY <1>1, <1>2, <1>4 DEF verify_returns, Stages
<1>5. CASE valid_time(m)
  BY <1>1, <1>2, <1>5 DEF valid_time, Stages
<1>6. CASE valid_nonce(m)
  BY <1>1, <1>2, <1>6 DEF valid_nonce, Stages
<1> QED
  BY <1>3, <1>4, <1>5, <1>6 DEF Validate

-----------------------------------------------------------------------------
LEMMA InboxType ==
  ASSUME Inbox!TypeOK,
         HandOver \/ \E m \in Messages : Deliver(m)
  PROVE  /\ Inbox!TypeOK'
         /\ \A n \in Messages : /\ fate[n] = "received" => fate'[n] = "received"
                                /\ fate'[n] # "unknown" =>
                                     fate[n] # "unknown" \/ (Deliver(n) /\ n \in Sent)
<1> USE DEF Inbox!TypeOK, Inbox!Fates, Inbox!Become
<1>1. ASSUME NEW m \in Messages, Deliver(m)
      PROVE  /\ Inbox!TypeOK'
             /\ \A n \in Messages : /\ fate[n] = "received" => fate'[n] = "received"
                                    /\ fate'[n] # "unknown" =>
                                         fate[n] # "unknown" \/ (Deliver(n) /\ n \in Sent)
  <2>1. /\ fate[m] = "unknown" /\ m \in Sent /\ queue' = queue
        /\ \/ fate' = [fate EXCEPT ![m] = "ignored"]
           \/ fate' = [fate EXCEPT ![m] = "accepted"]
    BY <1>1 DEF Deliver, Inbox!Decide
  <2> QED
    BY <1>1, <2>1
<1>2. ASSUME NEW m \in Messages, Inbox!Enqueue(m)
      PROVE  /\ Inbox!TypeOK'
             /\ \A n \in Messages : /\ fate[n] = "received" => fate'[n] = "received"
                                    /\ fate'[n] # "unknown" => fate[n] # "unknown"
  BY <1>2 DEF Inbox!Enqueue
<1>3. ASSUME Inbox!Receive
      PROVE  /\ Inbox!TypeOK'
             /\ \A n \in Messages : /\ fate[n] = "received" => fate'[n] = "received"
                                    /\ fate'[n] # "unknown" => fate[n] # "unknown"
  <2>1. Head(queue) \in Messages /\ Tail(queue) \in Seq(Messages)
    BY <1>3 DEF Inbox!Receive
  <2> QED
    BY <1>3, <2>1 DEF Inbox!Receive
<1> QED
  BY <1>1, <1>2, <1>3 DEF HandOver

LEMMA PipelineTypeStep ==
  ASSUME PInv, [PipelineNext]_pipelineVars PROVE PipelineTypeOK'
<1> USE DEF PipelineTypeOK
<1>0. PipelineTypeOK /\ IInv
  BY DEF PInv
<1>1. ASSUME NEW m \in Messages, Send(m) PROVE PipelineTypeOK'
  <2>1. sent' \in Seq(Messages)
    BY <1>0, <1>1 DEF Send
  <2> QED
    BY <1>0, <1>1, <2>1 DEF Send, validation, agent, runs, TypeOK, Inbox!TypeOK
<1>2. CASE HandOver \/ \E m \in Messages : Deliver(m)
  <2>1. Inbox!TypeOK'
    BY <1>0, <1>2, InboxType
  <2>2. UNCHANGED <<validation, clock, sent, runs, accepted>>
    BY <1>2 DEF HandOver, Deliver
  <2> QED
    BY <1>0, <2>1, <2>2 DEF validation, runs, TypeOK
<1>3. ASSUME NEW m \in Messages, Validate(m) PROVE PipelineTypeOK'
  <2>1. TypeOK'
    BY <1>0, <1>3, ValidityStep DEF IInv
  <2>2. /\ UNCHANGED <<clock, agent, sent, runs>>
        /\ accepted' = Append(accepted, m) \/ accepted' = accepted
    BY <1>0, <1>3, StageStep
  <2>3. accepted' \in Seq(Messages)
    BY <1>0, <2>2
  <2> QED
    BY <1>0, <2>1, <2>2, <2>3 DEF agent, runs, Inbox!TypeOK
<1>4. CASE Restart
  <2>1. TypeOK'
    BY <1>0, <1>4 DEF Restart, TypeOK, fresh_nonces, Stages
  <2>2. Inbox!TypeOK'
    BY <1>4 DEF Restart, Inbox!TypeOK, Inbox!Fates
  <2>3. \A i \in DOMAIN accepted : accepted[i] \in Messages
    BY <1>0
  <2>4. accepted_before' \subseteq Messages /\ accepted' \in Seq(Messages)
    BY <1>0, <1>4, <2>3 DEF Restart
  <2>5. /\ restarts' \in 0..MaxRestarts /\ started' \in Nat /\ started' <= clock'
        /\ sent' \in Seq(Messages)
    BY <1>0, <1>4, RestartsAssumption DEF Restart, TypeOK
  <2> QED
    BY <2>1, <2>2, <2>4, <2>5
<1>5. CASE PipelineTick
  <2>1. TypeOK' /\ clock \in Nat /\ clock' = clock + 1
    BY <1>0, <1>5, ValidityStep DEF IInv, TypeOK, PipelineTick, Tick
  <2> QED
    BY <1>0, <1>5, <2>1 DEF PipelineTick, agent, runs, Inbox!TypeOK
<1>6. CASE UNCHANGED pipelineVars
  BY <1>0, <1>6 DEF pipelineVars, validation, agent, runs, TypeOK, Inbox!TypeOK
<1> QED
  BY <1>1, <1>2, <1>3, <1>4, <1>5, <1>6 DEF PipelineNext

-----------------------------------------------------------------------------
(* The order of sending survives every step.                               *)
LEMMA SentStep ==
  ASSUME PInv, [PipelineNext]_pipelineVars PROVE OnlySent' /\ SentInOrder'
<1>0. /\ TypeOK /\ sent \in Seq(Messages) /\ Inbox!TypeOK /\ OnlySent /\ SentInOrder
      /\ clock \in Nat
  BY DEF PInv, PipelineTypeOK, TypeOK
<1>1. ASSUME NEW m \in Messages, Send(m) PROVE OnlySent' /\ SentInOrder'
  <2>1. /\ sent' = Append(sent, m) /\ stamped(m)
        /\ UNCHANGED <<stage, fate, clock>>
    BY <1>1 DEF Send, validation, agent
  <2>2. /\ Len(sent) \in Nat /\ DOMAIN sent' = 1 .. Len(sent) + 1 /\ DOMAIN sent = 1 .. Len(sent)
        /\ \A i \in DOMAIN sent : sent'[i] = sent[i]
        /\ sent'[Len(sent) + 1] = m
    BY <1>0, <2>1
  <2>3. \A n : n \in Sent => n \in Sent'
    BY <2>2 DEF Sent
  <2>4. OnlySent'
    BY <1>0, <2>1, <2>3 DEF OnlySent
  <2>5. \A i \in DOMAIN sent' : i \in DOMAIN sent \/ i = Len(sent) + 1
    BY <2>2
  <2>6. SignerOf[m] # BadSignature => /\ NonceOf[m] = clock + Skew[SignerOf[m]]
    BY <2>1 DEF stamped
  <2>7. \A i \in DOMAIN sent' : sent'[i] \in Messages
    BY <1>0, <2>1
  <2>8. ASSUME NEW i \in DOMAIN sent', SignerOf[sent'[i]] # BadSignature
        PROVE  NonceOf[sent'[i]] <= clock + Skew[SignerOf[sent'[i]]]
    <3>1. CASE i \in DOMAIN sent
      BY <1>0, <2>2, <2>8, <3>1 DEF SentInOrder
    <3>2. CASE i = Len(sent) + 1
      <4>1. NonceOf[m] \in Nat
        BY MessagesAssumption
      <4> QED
        BY <2>2, <2>6, <2>8, <3>2, <4>1
    <3> QED
      BY <2>5, <3>1, <3>2
  <2>9. ASSUME NEW i \in DOMAIN sent', NEW j \in DOMAIN sent', i < j,
               SignerOf[sent'[i]] = SignerOf[sent'[j]], SignerOf[sent'[i]] # BadSignature
        PROVE  NonceOf[sent'[i]] <= NonceOf[sent'[j]]
    <3>1. i \in DOMAIN sent
      BY <2>2, <2>5, <2>9
    <3>2. CASE j \in DOMAIN sent
      BY <1>0, <2>2, <2>9, <3>1, <3>2 DEF SentInOrder
    <3>3. CASE j = Len(sent) + 1
      BY <2>2, <2>6, <2>8, <2>9, <3>1, <3>3
    <3> QED
      BY <2>5, <3>2, <3>3
  <2> QED
    BY <2>1, <2>4, <2>8, <2>9 DEF SentInOrder
<1>2. CASE HandOver \/ \E m \in Messages : Deliver(m)
  <2>1. UNCHANGED <<stage, clock, sent>>
    BY <1>2 DEF HandOver, Deliver, validation
  <2>2. \A n \in Messages : /\ fate[n] = "received" => fate'[n] = "received"
                            /\ fate'[n] # "unknown" => fate[n] # "unknown" \/ n \in Sent
    BY <1>0, <1>2, InboxType
  <2>3. OnlySent'
    BY <1>0, <2>1, <2>2 DEF OnlySent, Sent
  <2> QED
    BY <1>0, <2>1, <2>3 DEF SentInOrder
<1>3. ASSUME NEW m \in Messages, Validate(m) PROVE OnlySent' /\ SentInOrder'
  <2>1. UNCHANGED <<clock, fate, sent>> /\ \E to : stage' = [stage EXCEPT ![m] = to]
    BY <1>0, <1>3, StageStep DEF agent
  <2>2. fate[m] = "received"
    BY <1>3 DEF Validate
  <2>3. OnlySent'
    BY <1>0, <2>1, <2>2 DEF OnlySent, Sent, TypeOK
  <2> QED
    BY <1>0, <2>1, <2>3 DEF SentInOrder
<1>4. CASE Restart
  <2>1. UNCHANGED <<clock, sent>>
        /\ \A m \in Messages : fate'[m] = "unknown" /\ stage'[m] = "new"
    BY <1>4 DEF Restart
  <2>2. OnlySent'
    BY <2>1 DEF OnlySent
  <2> QED
    BY <1>0, <2>1, <2>2 DEF SentInOrder
<1>5. CASE PipelineTick
  <2>1. UNCHANGED <<stage, fate, sent>> /\ clock' = clock + 1
    BY <1>5 DEF PipelineTick, Tick, agent
  <2>2. OnlySent'
    BY <1>0, <2>1 DEF OnlySent, Sent
  <2>3. ASSUME NEW i \in DOMAIN sent, SignerOf[sent[i]] # BadSignature
        PROVE  NonceOf[sent[i]] <= clock + 1 + Skew[SignerOf[sent[i]]]
    <3>1. sent[i] \in Messages
      BY <1>0
    <3>2. NonceOf[sent[i]] \in Nat /\ SignerOf[sent[i]] \in Signers
      BY <2>3, <3>1, MessagesAssumption
    <3>3. Skew[SignerOf[sent[i]]] \in Int
      BY <3>2, SkewAssumption
    <3>4. NonceOf[sent[i]] <= clock + Skew[SignerOf[sent[i]]]
      BY <1>0, <2>3 DEF SentInOrder
    <3> QED
      BY <1>0, <3>2, <3>3, <3>4
  <2> QED
    BY <1>0, <2>1, <2>2, <2>3 DEF SentInOrder
<1>6. CASE UNCHANGED pipelineVars
  BY <1>0, <1>6 DEF pipelineVars, validation, agent, OnlySent, Sent, SentInOrder
<1> QED
  BY <1>1, <1>2, <1>3, <1>4, <1>5, <1>6 DEF PipelineNext

-----------------------------------------------------------------------------
RunInv == YoungEnough /\ StaleBelow /\ FirstLowest /\ AcceptedListed /\ ActsInOrder

(* A step of the validation of m keeps what is known of the run.           *)
LEMMA ValidateStep ==
  ASSUME PInv, NEW m \in Messages, Validate(m) PROVE RunInv'
<1>0. /\ IInv /\ TypeOK /\ accepted \in Seq(Messages) /\ started \in Nat /\ started <= clock
      /\ clock \in Nat
      /\ YoungEnough /\ StaleBelow /\ FirstLowest /\ AcceptedListed /\ ActsInOrder
  BY DEF PInv, PipelineTypeOK, TypeOK
<1>1. PICK to \in Stages :
              /\ stage' = [stage EXCEPT ![m] = to]
              /\ accepted' = IF to = "accepted" THEN Append(accepted, m) ELSE accepted
              /\ \/ /\ stage[m] \in {"new", "verify", "time"}
                    /\ to \in {"verify", "time", "nonce", "rejected"}
                    /\ to = "nonce" => in_time(m)
                    /\ UNCHANGED nonces
                 \/ stage[m] = "nonce" /\ to = "rejected" /\ UNCHANGED nonces
                 \/ /\ stage[m] = "nonce" /\ to \in {"first", "stale", "accepted"}
                    /\ SignerOf[m] # BadSignature
                    /\ to = "first" => nonces[KeyOf(m)] = NoNonce
                    /\ to = "stale" => is_stale(m)
                    /\ to = "accepted" => nonces[KeyOf(m)] # NoNonce /\ ~is_stale(m)
  BY <1>0, StageStep
<1>2. UNCHANGED <<clock, started>>
  BY <1>0, StageStep DEF runs
<1>3. stage'[m] = to /\ \A n \in Messages \ {m} : stage'[n] = stage[n]
  BY <1>0, <1>1 DEF TypeOK
<1>4. stage[m] \notin {"first", "stale", "accepted"}
  BY <1>1
<1>5. \A n \in Messages : stage[n] \in {"first", "stale", "accepted"} => stage'[n] = stage[n]
  BY <1>3, <1>4
<1>6. NonceOf[m] \in Nat /\ \A n \in Messages : NonceOf[n] \in Nat
  BY MessagesAssumption
<1>7. to \in {"first", "stale", "accepted"} => KeyOf(m) \in Keys
  BY <1>1, MessagesAssumption DEF Keys, KeyOf
<1>8. to = "stale" => \E n \in Compared(KeyOf(m)) : NonceOf[n] > NonceOf[m]
  <2> SUFFICES ASSUME to = "stale" PROVE \E n \in Compared(KeyOf(m)) : NonceOf[n] > NonceOf[m]
    OBVIOUS
  <2>1. nonces[KeyOf(m)] # NoNonce /\ nonces[KeyOf(m)] > NonceOf[m]
    BY <1>1 DEF is_stale
  <2> QED
    BY <1>0, <1>7, <2>1 DEF IInv, SavedNonceIsHighest
<1>9. to = "accepted" => \A n \in Messages :
        stage[n] \in {"first", "accepted"} /\ KeyOf(n) = KeyOf(m) => NonceOf[n] <= NonceOf[m]
  <2> SUFFICES ASSUME to = "accepted", NEW n \in Messages,
                      stage[n] \in {"first", "accepted"}, KeyOf(n) = KeyOf(m)
               PROVE  NonceOf[n] <= NonceOf[m]
    OBVIOUS
  <2>1. nonces[KeyOf(m)] # NoNonce /\ ~(nonces[KeyOf(m)] > NonceOf[m])
    BY <1>1 DEF is_stale
  <2>2. nonces[KeyOf(m)] \in Nat
    BY <1>0, <1>7, <2>1 DEF TypeOK
  <2>3. n \in Compared(KeyOf(m))
    BY DEF Compared
  <2>4. NonceOf[n] <= nonces[KeyOf(m)]
    BY <1>0, <1>7, <2>1, <2>3 DEF IInv, SavedNonceIsHighest
  <2> QED
    BY <1>6, <2>1, <2>2, <2>4
<1>10. to = "first" => \A n \in Messages : stage[n] = "accepted" => KeyOf(n) # KeyOf(m)
  <2> SUFFICES ASSUME to = "first", NEW n \in Messages, stage[n] = "accepted", KeyOf(n) = KeyOf(m)
               PROVE  FALSE
    OBVIOUS
  <2>1. n \in Compared(KeyOf(m)) /\ nonces[KeyOf(m)] = NoNonce
    BY <1>1 DEF Compared
  <2> QED
    BY <1>0, <1>7, <2>1 DEF IInv, SavedNonceIsHighest
<1>11. YoungEnough'
  <2>1. to \in Late => started < NonceOf[m] + MSG_REPLAY_LIMIT
    <3>1. CASE stage[m] = "nonce"
      BY <1>0, <3>1 DEF YoungEnough, Late
    <3>2. CASE to = "nonce" /\ in_time(m)
      BY <1>0, <1>6, <3>2, ClockAssumption DEF in_time
    <3> QED
      BY <1>1, <3>1, <3>2 DEF Late
  <2> QED
    BY <1>0, <1>2, <1>3, <2>1 DEF YoungEnough
<1>12. StaleBelow'
  <2>1. \A k : \A n \in Compared(k) : n \in Compared(k)'
    BY <1>5 DEF Compared
  <2> QED
    BY <1>0, <1>3, <1>8, <2>1 DEF StaleBelow
<1>13. FirstLowest'
  <2> SUFFICES ASSUME NEW a \in Messages, NEW b \in Messages,
                      stage'[b] = "first", stage'[a] = "accepted", KeyOf(b) = KeyOf(a)
               PROVE  NonceOf[b] <= NonceOf[a]
    BY DEF FirstLowest
  <2>1. CASE a = m
    BY <1>3, <1>9, <2>1
  <2>2. CASE a # m /\ b = m
    BY <1>3, <1>10, <2>2
  <2>3. CASE a # m /\ b # m
    BY <1>0, <1>3, <2>3 DEF FirstLowest
  <2> QED
    BY <2>1, <2>2, <2>3
<1>14. AcceptedListed' /\ ActsInOrder'
  <2>1. \A i \in DOMAIN accepted : /\ accepted[i] \in Messages
                                   /\ stage[accepted[i]] = "accepted"
                                   /\ accepted[i] # m
    BY <1>0, <1>4 DEF AcceptedListed
  <2>2. CASE to # "accepted"
    <3>1. accepted' = accepted
      BY <1>1, <2>2
    <3>2. AcceptedListed'
      BY <1>5, <2>1, <3>1 DEF AcceptedListed
    <3> QED
      BY <1>0, <3>1, <3>2 DEF ActsInOrder
  <2>3. CASE to = "accepted"
    <3>1. /\ Len(accepted) \in Nat /\ DOMAIN accepted = 1 .. Len(accepted)
          /\ DOMAIN accepted' = 1 .. Len(accepted) + 1
          /\ \A i \in DOMAIN accepted : accepted'[i] = accepted[i]
          /\ accepted'[Len(accepted) + 1] = m
      BY <1>0, <1>1, <2>3
    <3>2. \A i \in DOMAIN accepted' : i \in DOMAIN accepted \/ i = Len(accepted) + 1
      BY <3>1
    <3>3. AcceptedListed'
      BY <1>3, <1>5, <2>1, <2>3, <3>1, <3>2 DEF AcceptedListed
    <3>4. ASSUME NEW i \in DOMAIN accepted', NEW j \in DOMAIN accepted', i < j
          PROVE  /\ accepted'[i] # accepted'[j]
                 /\ KeyOf(accepted'[i]) = KeyOf(accepted'[j]) =>
                      NonceOf[accepted'[i]] <= NonceOf[accepted'[j]]
      <4>1. i \in DOMAIN accepted
        BY <3>1, <3>2, <3>4
      <4>2. CASE j \in DOMAIN accepted
        BY <1>0, <3>1, <3>4, <4>1, <4>2 DEF ActsInOrder
      <4>3. CASE j = Len(accepted) + 1
        BY <1>9, <2>1, <2>3, <3>1, <4>1, <4>3
      <4> QED
        BY <3>2, <4>2, <4>3
    <3> QED
      BY <3>3, <3>4 DEF ActsInOrder
  <2> QED
    BY <2>2, <2>3
<1> QED
  BY <1>11, <1>12, <1>13, <1>14 DEF RunInv

LEMMA PipelineStep == PInv /\ [PipelineNext]_pipelineVars => PInv'
<1> SUFFICES ASSUME PInv, [PipelineNext]_pipelineVars PROVE PInv'
  OBVIOUS
<1>1. PipelineTypeOK' /\ OnlySent' /\ SentInOrder'
  BY PipelineTypeStep, SentStep
<1>2. IInv' /\ RunInv'
  <2>1. ASSUME NEW m \in Messages, Validate(m) PROVE IInv' /\ RunInv'
    BY <2>1, ValidityStep, ValidateStep DEF PInv
  <2>2. CASE Restart
    <3>1. \A m \in Messages : stage'[m] = "new"
      BY <2>2 DEF Restart
    <3>2. nonces' = fresh_nonces /\ accepted' = <<>>
      BY <2>2 DEF Restart
    <3>3. TypeOK'
      BY <1>1 DEF PipelineTypeOK
    <3>4. PastTime' /\ OwnMessagesRejected'
      BY <3>1 DEF PastTime, OwnMessagesRejected
    <3>5. \A k \in Keys : Compared(k)' = {} /\ nonces'[k] = NoNonce
      BY <3>1, <3>2 DEF Compared, fresh_nonces
    <3>6. SavedNonceIsHighest' /\ OneFirstMessage'
      BY <3>5 DEF SavedNonceIsHighest, OneFirstMessage
    <3>7. RunInv'
      BY <3>1, <3>2 DEF RunInv, YoungEnough, StaleBelow, FirstLowest, AcceptedListed,
                        ActsInOrder, Late
    <3> QED
      BY <3>3, <3>4, <3>6, <3>7 DEF IInv
  <2>3. CASE UNCHANGED <<stage, started, accepted>>
             /\ (PipelineTick \/ UNCHANGED <<validation, clock>>)
    <3>1. IInv'
      BY <2>3, ValidityStep DEF PInv
    <3>2. YoungEnough' /\ StaleBelow' /\ FirstLowest'
      BY <2>3 DEF PInv, YoungEnough, StaleBelow, FirstLowest, Compared
    <3>3. AcceptedListed' /\ ActsInOrder'
      BY <2>3 DEF PInv, AcceptedListed, ActsInOrder
    <3> QED
      BY <3>1, <3>2, <3>3 DEF RunInv
  <2>4. CASE PipelineTick \/ HandOver \/ UNCHANGED pipelineVars
             \/ (\E m \in Messages : Send(m) \/ Deliver(m))
    <3>1. UNCHANGED <<stage, started, accepted>>
          /\ (PipelineTick \/ UNCHANGED <<validation, clock>>)
      BY <2>4 DEF PipelineTick, Tick, HandOver, Send, Deliver, pipelineVars, validation, runs
    <3> QED
      BY <2>3, <3>1
  <2> QED
    BY <2>1, <2>2, <2>4 DEF PipelineNext
<1> QED
  BY <1>1, <1>2 DEF PInv, RunInv

LEMMA PipelineInvariant == PipelineSpec => []PInv
BY PipelineInitInv, PipelineStep, PTL DEF PipelineSpec

-----------------------------------------------------------------------------
(* Every variable of the pipeline stays in its range.                      *)
THEOREM PipelineTypeCorrect == PipelineSpec => []PipelineTypeOK
BY PipelineInvariant, PTL DEF PInv

(* Only a message that its sender has overtaken is dropped as stale,       *)
(* whatever gossip does and however the clocks of the radios differ.       *)
THEOREM OvertakenOnly == PipelineSpec => []StaleMeansOvertaken
<1>1. PInv => StaleMeansOvertaken
  <2> SUFFICES ASSUME PInv, NEW m \in Messages, stage[m] = "stale"
               PROVE  \E n \in Compared(KeyOf(m)) : SentLater(m, n)
    BY DEF StaleMeansOvertaken
  <2>1. PICK n \in Compared(KeyOf(m)) : NonceOf[n] > NonceOf[m]
    BY DEF PInv, StaleBelow
  <2>2. /\ n \in Messages /\ stage[n] # "new" /\ SignerOf[n] = SignerOf[m]
        /\ NonceOf[n] \in Nat /\ NonceOf[m] \in Nat
    BY MessagesAssumption DEF Compared, KeyOf
  <2>3. SignerOf[m] # BadSignature
    BY SignersAssumption DEF PInv, IInv, PastTime, Keys, KeyOf
  <2>4. m \in Sent /\ n \in Sent
    BY <2>2 DEF PInv, OnlySent
  <2>5. PICK i \in DOMAIN sent : sent[i] = m
    BY <2>4 DEF Sent
  <2>6. PICK j \in DOMAIN sent : sent[j] = n
    BY <2>4 DEF Sent
  <2>7. ~(j < i) /\ i # j
    BY <2>1, <2>2, <2>3, <2>5, <2>6 DEF PInv, SentInOrder
  <2>8. i \in Nat /\ j \in Nat
    BY DEF PInv, PipelineTypeOK
  <2>9. i < j
    BY <2>7, <2>8
  <2> QED
    BY <2>5, <2>6, <2>9 DEF SentLater
<1> QED
  BY <1>1, PipelineInvariant, PTL

(* In one run a radio acts on a message once, and on those of a sender     *)
(* about one thing in the order of their stamps.                           *)
THEOREM OrderedOnce == PipelineSpec => []ActsInOrder
BY PipelineInvariant, PTL DEF PInv

(* Restarts do not widen the window in which a message can be replayed.    *)
THEOREM ReplayWindow == PipelineSpec => []NoOldMessages
<1>1. PInv => NoOldMessages
  BY DEF PInv, YoungEnough, NoOldMessages, Late
<1> QED
  BY <1>1, PipelineInvariant, PTL

(* A lone message is not acted on again after a restart.                   *)
THEOREM NotAgainAlone == PipelineSpec => []AgainNeedsAnother
<1>1. PInv => AgainNeedsAnother
  <2> SUFFICES ASSUME PInv, NEW m \in accepted_before, stage[m] = "accepted"
               PROVE  \E n \in Compared(KeyOf(m)) \ {m} :
                        stage[n] = "first" /\ NonceOf[n] <= NonceOf[m]
    BY DEF AgainNeedsAnother
  <2>1. m \in Messages
    BY DEF PInv, PipelineTypeOK
  <2>2. KeyOf(m) \in Keys /\ m \in Compared(KeyOf(m))
    BY <2>1 DEF PInv, IInv, PastTime, Compared
  <2>3. PICK n \in Compared(KeyOf(m)) : \A x \in Compared(KeyOf(m)) : stage[x] = "first" <=> x = n
    BY <2>2 DEF PInv, IInv, OneFirstMessage
  <2>4. stage[n] = "first" /\ n # m /\ n \in Messages /\ KeyOf(n) = KeyOf(m)
    BY <2>3 DEF Compared
  <2> QED
    BY <2>1, <2>4 DEF PInv, FirstLowest
<1> QED
  BY <1>1, PipelineInvariant, PTL

-----------------------------------------------------------------------------
(* Nothing in the pipeline goes round its parts: but for restarts, what    *)
(* happens to the agent is a step of MessageInbox, of which GraphcastAgent *)
(* is one implementation, and what happens to the validation is a step of  *)
(* MessageValidity.                                                        *)
Composed == /\ [][Restart \/ Inbox!Next]_agent
            /\ [][Restart \/ Next]_vars

LEMMA PipelineIsComposed == PipelineSpec => Composed
<1>1. [PipelineNext]_pipelineVars => [Restart \/ Inbox!Next]_agent
  <2> SUFFICES ASSUME [PipelineNext]_pipelineVars
               PROVE  Restart \/ Inbox!Next \/ UNCHANGED agent
    OBVIOUS
  <2>1. ASSUME NEW m \in Messages, Deliver(m) PROVE Inbox!Next
    BY <2>1 DEF Deliver, Inbox!Next
  <2>2. ASSUME HandOver PROVE Inbox!Next
    BY <2>2 DEF HandOver, Inbox!Next
  <2>3. ASSUME \/ \E m \in Messages : Send(m) \/ Validate(m)
               \/ PipelineTick
               \/ UNCHANGED pipelineVars
        PROVE  UNCHANGED agent
    BY <2>3 DEF Send, Validate, PipelineTick, pipelineVars
  <2> QED
    BY <2>1, <2>2, <2>3 DEF PipelineNext
<1>2. [PipelineNext]_pipelineVars => [Restart \/ Next]_vars
  <2> SUFFICES ASSUME [PipelineNext]_pipelineVars
               PROVE  Restart \/ Next \/ UNCHANGED vars
    OBVIOUS
  <2>1. ASSUME NEW m \in Messages, Validate(m) PROVE Next
    BY <2>1 DEF Validate, Next
  <2>2. ASSUME PipelineTick PROVE Next
    BY <2>2 DEF PipelineTick, Next
  <2>3. ASSUME \/ \E m \in Messages : Send(m) \/ Deliver(m)
               \/ HandOver
               \/ UNCHANGED pipelineVars
        PROVE  UNCHANGED vars
    BY <2>3 DEF Send, Deliver, HandOver, pipelineVars, validation, vars
  <2> QED
    BY <2>1, <2>2, <2>3 DEF PipelineNext
<1> QED
  BY <1>1, <1>2, PTL DEF PipelineSpec, Composed

FinalStages == {"rejected", "first", "stale", "accepted"}

(* From one restart to the next the radio forgets no nonce and the verdict *)
(* on a message, by the agent and by the validation, is not reconsidered,  *)
(* whatever gossip brings again.                                           *)
VerdictsStand ==
  [][\/ Restart
     \/ /\ \A k \in Keys : nonces[k] # NoNonce =>
             nonces'[k] # NoNonce /\ nonces'[k] >= nonces[k]
        /\ \A m \in Messages : stage[m] \in FinalStages => stage'[m] = stage[m]
        /\ \A m \in Messages : fate[m] \in {"ignored", "received"} => fate'[m] = fate[m]
    ]_pipelineVars

(* Only a restart makes a radio look at a message again.                   *)
THEOREM OnlyRestartsRevive == PipelineSpec => VerdictsStand
<1> DEFINE Nonces == \A k \in Keys : nonces[k] # NoNonce =>
                       nonces'[k] # NoNonce /\ nonces'[k] >= nonces[k]
           Stages_ == \A m \in Messages : stage[m] \in FinalStages => stage'[m] = stage[m]
           Fates == \A m \in Messages : fate[m] \in {"ignored", "received"} =>
                      fate'[m] = fate[m]
<1>1. ASSUME PInv, Next PROVE Nonces
  BY <1>1, MonotoneStep DEF PInv
<1>2. ASSUME PInv, Next PROVE Stages_
  BY <1>2 DEF PInv, IInv, TypeOK, Next, valid_sender, verify_returns, valid_time,
              valid_nonce, Tick, Advance, FinalStages
<1>3. ASSUME PInv, UNCHANGED vars PROVE Nonces /\ Stages_
  <2>1. \A k \in Keys : nonces[k] # NoNonce => nonces[k] \in Nat
    BY <1>3 DEF PInv, IInv, TypeOK
  <2> QED
    BY <1>3, <2>1 DEF vars
<1>4. ASSUME PInv, [Inbox!Next]_agent PROVE Fates
  <2> USE <1>4 DEF PInv, PipelineTypeOK, Inbox!TypeOK, Inbox!Become
  <2>1. ASSUME NEW m \in Messages, Inbox!Decide(m) \/ Inbox!Enqueue(m) \/ Inbox!Lose(m)
        PROVE  Fates
    BY <2>1 DEF Inbox!Decide, Inbox!Enqueue, Inbox!Lose
  <2>2. CASE Inbox!Receive
    BY <2>2 DEF Inbox!Receive
  <2>3. CASE Inbox!Abandon
    BY <2>3 DEF Inbox!Abandon
  <2>4. CASE UNCHANGED agent
    BY <2>4 DEF agent
  <2> QED
    BY <2>1, <2>2, <2>3, <2>4 DEF Inbox!Next
<1>5. ASSUME PInv, [Restart \/ Inbox!Next]_agent, [Restart \/ Next]_vars
      PROVE  [Restart \/ (Nonces /\ Stages_ /\ Fates)]_pipelineVars
  BY <1>1, <1>2, <1>3, <1>4, <1>5
<1> QED
  BY <1>5, PipelineInvariant, PipelineIsComposed, PTL DEF Composed, VerdictsStand
=============================================================================
