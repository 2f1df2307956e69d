-------------------------- MODULE MessageValidity --------------------------
(***************************************************************************)
(* check_message_validity: the radio validates each message it got from    *)
(* the agent in a task of its own.  The checks of one message run in order *)
(* (sender, time, nonce), those of different messages interleave: the      *)
(* sender check awaits two subgraph queries and the nonce check awaits the *)
(* mutex of the nonces, which it then holds to its end.                    *)
(*                                                                         *)
(* Time is counted in units of the nonces (seconds); what the queries      *)
(* answer about an account is the subject of AccountVerify.                *)
(***************************************************************************)
EXTENDS Naturals

CONSTANTS
  Messages,             \* messages the radio validates, each once
  Identifiers,          \* what the messages are about
  Signers,              \* addresses that sign messages
  LocalSigner,          \* the address of the radio's own wallet
  BadSignature,         \* no address can be recovered from the signature
  IdentifierOf, SignerOf, NonceOf,
  MSG_REPLAY_LIMIT,
  StartClock, MaxClock, \* bounds of the clock
  NoNonce

ASSUME SignersAssumption == LocalSigner \in Signers /\ BadSignature \notin Signers
ASSUME MessagesAssumption == /\ IdentifierOf \in [Messages -> Identifiers]
                             /\ SignerOf \in [Messages -> Signers \cup {BadSignature}]
                             /\ NonceOf \in [Messages -> Nat]
ASSUME ClockAssumption == /\ MSG_REPLAY_LIMIT \in Nat
                          /\ StartClock \in Nat /\ MaxClock \in Nat
ASSUME NonceAssumption == NoNonce \notin Nat

VARIABLES
  id_validation,        \* "NoCheck", or "Checked" for any other mode
  stage,                \* how far the validation of each message has got
  nonces,               \* the nonce saved for an identifier and a signer
  clock

vars == <<id_validation, stage, nonces, clock>>

Keys == Identifiers \X Signers
KeyOf(m) == <<IdentifierOf[m], SignerOf[m]>>

Init == /\ id_validation \in {"NoCheck", "Checked"}
        /\ stage = [m \in Messages |-> "new"]
        /\ nonces = [k \in Keys |-> NoNonce]
        /\ clock = StartClock

Advance(m, from, to) == /\ stage[m] = from
                        /\ stage' = [stage EXCEPT ![m] = to]

from_self(m) == SignerOf[m] = LocalSigner

(* remote_account: a sender other than the local one can be recovered.     *)
remote_account(m) == SignerOf[m] # BadSignature /\ ~from_self(m)

(* valid_sender, up to the await on the queries.                           *)
valid_sender(m) == /\ \/ /\ id_validation = "NoCheck"
                         /\ Advance(m, "new", "time")
                      \/ /\ id_validation # "NoCheck"
                         /\ remote_account(m)
                         /\ Advance(m, "new", "verify")
                      \/ /\ id_validation # "NoCheck"
                         /\ ~remote_account(m)
                         /\ Advance(m, "new", "rejected")
                   /\ UNCHANGED <<id_validation, nonces, clock>>

(* The account is verified, or refused, or a query failed.                 *)
verify_returns(m) == /\ Advance(m, "verify", "time") \/ Advance(m, "verify", "rejected")
                     /\ UNCHANGED <<id_validation, nonces, clock>>

(* Seeded faults: the distance to now counts, past or future; any age is   *)
(* good enough.                                                            *)
in_time_either_way(m) ==
  clock < NonceOf[m] + MSG_REPLAY_LIMIT /\ NonceOf[m] < clock + MSG_REPLAY_LIMIT
in_time_any_age(m) == NonceOf[m] <= clock

(* checked_sub fails for a nonce ahead of the clock.                       *)
in_time(m) == NonceOf[m] <= clock /\ clock - NonceOf[m] < MSG_REPLAY_LIMIT

valid_time(m) == /\ \/ in_time(m) /\ Advance(m, "time", "nonce")
                    \/ ~in_time(m) /\ Advance(m, "time", "rejected")
                 /\ UNCHANGED <<id_validation, nonces, clock>>

(* Seeded faults: only a first nonce, or only a later one, is saved; the   *)
(* map of one identifier takes the place of the map of all.                *)
prepare_first_nonce(m) ==
  IF nonces[KeyOf(m)] = NoNonce THEN [nonces EXCEPT ![KeyOf(m)] = NonceOf[m]] ELSE nonces
prepare_later_nonce(m) ==
  IF nonces[KeyOf(m)] = NoNonce THEN nonces ELSE [nonces EXCEPT ![KeyOf(m)] = NonceOf[m]]
prepare_one_map(m) == [s \in {SignerOf[m]} |-> NonceOf[m]]

prepare_nonces(m) == [nonces EXCEPT ![KeyOf(m)] = NonceOf[m]]

(* Seeded fault: an equal nonce is stale.                                  *)
is_not_newer(m) == nonces[KeyOf(m)] # NoNonce /\ nonces[KeyOf(m)] >= NonceOf[m]

is_stale(m) == nonces[KeyOf(m)] # NoNonce /\ nonces[KeyOf(m)] > NonceOf[m]

(* valid_nonce, under the mutex of the nonces.  The first message about an *)
(* identifier, or of a signer about it, only leaves its nonce; it is an    *)
(* error like a nonce smaller than the saved one.                          *)
valid_nonce(m) ==
  /\ \/ /\ SignerOf[m] = BadSignature
        /\ Advance(m, "nonce", "rejected")
        /\ UNCHANGED nonces
     \/ /\ SignerOf[m] # BadSignature
        /\ nonces[KeyOf(m)] = NoNonce
        /\ Advance(m, "nonce", "first")
        /\ nonces' = prepare_nonces(m)
     \/ /\ SignerOf[m] # BadSignature
        /\ is_stale(m)
        /\ Advance(m, "nonce", "stale")
        /\ UNCHANGED nonces
     \/ /\ SignerOf[m] # BadSignature
        /\ nonces[KeyOf(m)] # NoNonce
        /\ ~is_stale(m)
        /\ Advance(m, "nonce", "accepted")
        /\ nonces' = prepare_nonces(m)
  /\ UNCHANGED <<id_validation, clock>>

Tick == /\ clock < MaxClock
        /\ clock' = clock + 1
        /\ UNCHANGED <<id_validation, stage, nonces>>

Next == \/ \E m \in Messages : \/ valid_sender(m) \/ verify_returns(m)
                               \/ valid_time(m) \/ valid_nonce(m)
        \/ Tick

Spec == Init /\ [][Next]_vars

-----------------------------------------------------------------------------
Stages == {"new", "verify", "time", "nonce", "rejected", "first", "stale", "accepted"}

(* Every variable stays in its range.                                      *)
TypeOK == /\ id_validation \in {"NoCheck", "Checked"}
          /\ stage \in [Messages -> Stages]
          /\ nonces \in [Keys -> Nat \cup {NoNonce}]
          /\ clock \in Nat

(* The messages that came as far as a comparison with the saved nonce.     *)
Compared(k) == {m \in Messages : /\ stage[m] \in {"first", "stale", "accepted"}
                                 /\ KeyOf(m) = k}

(* However the validations interleave, the nonce saved for a signer on an  *)
(* identifier is the highest one that got as far as valid_nonce: nothing   *)
(* that failed an earlier check, or another signer sent, moves it, and no  *)
(* concurrent update is lost.                                              *)
SavedNonceIsHighest ==
  \A k \in Keys :
    IF nonces[k] = NoNonce
    THEN Compared(k) = {}
    ELSE /\ \E m \in Compared(k) : NonceOf[m] = nonces[k]
         /\ \A m \in Compared(k) : NonceOf[m] <= nonces[k]

(* A saved nonce is never ahead of the clock (valid_time comes first), so  *)
(* no message, whatever time it claims, makes later honest ones stale.     *)
SavedNonceNotAhead ==
  \A k \in Keys : nonces[k] # NoNonce => nonces[k] <= clock

(* Exactly one message of a signer on an identifier is spent on saving the *)
(* first nonce, even when several are validated at once, and none is       *)
(* accepted before it.                                                     *)
OneFirstMessage ==
  \A k \in Keys :
    Compared(k) # {} => \E m \in Compared(k) :
      \A n \in Compared(k) : stage[n] = "first" <=> n = m

(* With any identity check on, a message signed by the local wallet never  *)
(* gets to the nonces, let alone out of the validation ("Message is from   *)
(* self, drop message").                                                   *)
OwnMessagesRejected ==
  id_validation = "Checked" =>
    \A m \in Messages : SignerOf[m] = LocalSigner => stage[m] \in {"new", "rejected"}

(* A saved nonce is never forgotten or lowered.                            *)
NoncesMonotone ==
  [][\A k \in Keys : nonces[k] # NoNonce =>
       nonces'[k] # NoNonce /\ nonces'[k] >= nonces[k]]_vars

(* "Nonce check ensures the ordering of the messages": messages of one     *)
(* signer on one identifier are accepted in the order of their nonces,     *)
(* whatever order their queries return in.                                 *)
AcceptedInOrder ==
  [][\A m, n \in Messages :
       /\ stage[m] = "accepted"
       /\ stage[n] # "accepted" /\ stage'[n] = "accepted"
       /\ KeyOf(m) = KeyOf(n)
       => NonceOf[m] <= NonceOf[n]]_vars
=============================================================================
