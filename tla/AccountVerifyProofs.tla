------------------------ MODULE AccountVerifyProofs ------------------------
(***************************************************************************)
(* Theorems about AccountVerify, for any addresses, accounts and           *)
(* deployments.                                                            *)
(***************************************************************************)
EXTENDS AccountVerify, TLAPS

RegistryModes == {"GraphcastRegistered", "RegisteredIndexer", "Indexer", "SubgraphStaker"}
NetworkModes == {"GraphNetworkAccount", "Indexer", "SubgraphStaker"}

(* Each query is awaited in its modes only.                                *)
PathInv == /\ pc = "registry" => id_validation \in RegistryModes
           /\ pc = "network" => id_validation \in NetworkModes
           /\ pc = "stake" => needs_stake
           /\ pc \in {"stake", "accepted"} => verified_account = account
           /\ pc \in {"start", "registry"} => ~registry_failed

(* What the verified account rests on, as long as the chain stands still.  *)
Answered ==
  \/ id_validation \in {"NoCheck", "ValidAddress"} /\ verified_account = account
  \/ id_validation \in RegistryModes /\ <<agent, verified_account>> \in registry
     /\ ~registry_failed
  \/ id_validation \in NetworkModes /\ verified_account = account /\ is_graph_account

AnswerInv ==
  ~changed => /\ pc \in {"compare", "stake", "accepted"} => Answered
              /\ pc = "accepted" /\ needs_stake => account \in staked
              /\ pc = "network" /\ ~registry_failed
                   /\ id_validation # "GraphNetworkAccount"
                   => \A a \in Accounts : <<agent, a>> \notin registry

IInv == TypeOK /\ PathInv /\ AnswerInv /\ EntitledIsAccepted /\ RegistryOutageTolerated

(* The invariant holds before verify starts.                               *)
LEMMA InitIInv == Init => IInv
<1> SUFFICES ASSUME Init PROVE IInv
  OBVIOUS
<1>1. TypeOK
  BY AddressAssumption DEF Init, TypeOK, Modes
<1> QED BY <1>1 DEF Init, IInv, PathInv, AnswerInv, EntitledIsAccepted,
                    RegistryOutageTolerated

(* Every step of a verification keeps the variables in their ranges.       *)
LEMMA TypeStep == TypeOK /\ [Next]_vars => TypeOK'
<1> SUFFICES ASSUME TypeOK, [Next]_vars PROVE TypeOK'
  OBVIOUS
<1> USE AddressAssumption
    DEF TypeOK, Goto, Verified, chain, request, verified, history
<1>1. CASE verify
  BY <1>1 DEF verify
<1>2. CASE RegistryAnswers
  BY <1>2 DEF RegistryAnswers
<1>3. CASE RegistryHasNone \/ RegistryFails
  BY <1>3 DEF RegistryHasNone, RegistryFails, RegistryErr
<1>4. CASE NetworkAnswers
  BY <1>4 DEF NetworkAnswers, first_operator
<1>5. CASE NetworkHasNone \/ NetworkFails \/ NetworkPanics \/ StakeAnswers
  BY <1>5 DEF NetworkHasNone, NetworkFails, NetworkPanics, StakeAnswers
<1>6. CASE Compare
  BY <1>6 DEF Compare
<1>7. CASE AskOwner
  BY <1>7 DEF AskOwner
<1>8. CASE ChainChanges
  BY <1>8 DEF ChainChanges, Toggled
<1>9. CASE UNCHANGED vars
  BY <1>9 DEF vars
<1> QED BY <1>1, <1>2, <1>3, <1>4, <1>5, <1>6, <1>7, <1>8, <1>9 DEF Next

(* Every step preserves the invariant.                                     *)
LEMMA InvStep == IInv /\ [Next]_vars => IInv'
<1> SUFFICES ASSUME IInv, [Next]_vars
             PROVE  PathInv' /\ AnswerInv' /\ EntitledIsAccepted' /\ RegistryOutageTolerated'
  BY TypeStep DEF IInv
<1> DEFINE Rest == PathInv /\ AnswerInv /\ EntitledIsAccepted /\ RegistryOutageTolerated
<1> USE DEF IInv, PathInv, AnswerInv, Goto, Verified, chain, request, verified, history,
            is_graph_account, is_registered, needs_stake
<1>1. CASE verify
  BY <1>1 DEF verify, Answered, RegistryModes, NetworkModes, EntitledIsAccepted,
              RegistryOutageTolerated
<1>2. CASE RegistryAnswers
  BY <1>2 DEF RegistryAnswers, Answered, RegistryModes, EntitledIsAccepted,
              RegistryOutageTolerated
<1>3. CASE RegistryHasNone \/ RegistryFails
  BY <1>3 DEF RegistryHasNone, RegistryFails, RegistryErr, falls_back, RegistryModes,
              NetworkModes, EntitledIsAccepted, RegistryOutageTolerated, Entitled, TypeOK
<1>4. CASE NetworkAnswers
  BY <1>4 DEF NetworkAnswers, is_match, Answered, EntitledIsAccepted,
              RegistryOutageTolerated
<1>5. CASE NetworkHasNone
  BY <1>5 DEF NetworkHasNone, is_match, NetworkModes, EntitledIsAccepted,
              RegistryOutageTolerated, Entitled, TypeOK
<1>6. CASE NetworkFails \/ NetworkPanics
  BY <1>6 DEF NetworkFails, NetworkPanics, EntitledIsAccepted, RegistryOutageTolerated
<1>7. CASE Compare
  BY <1>7 DEF Compare, is_claimed, Answered, EntitledIsAccepted,
              RegistryOutageTolerated, TypeOK
<1>8. CASE StakeAnswers
  BY <1>8 DEF StakeAnswers, Answered, EntitledIsAccepted, RegistryOutageTolerated,
              Entitled
<1>9. CASE AskOwner
  BY <1>9 DEF AskOwner, Answered, EntitledIsAccepted, RegistryOutageTolerated
<1>10. CASE ChainChanges
  BY <1>10 DEF ChainChanges, EntitledIsAccepted, RegistryOutageTolerated
<1>11. CASE UNCHANGED vars
  BY <1>11 DEF vars, Answered, EntitledIsAccepted, RegistryOutageTolerated, Entitled
<1> QED BY <1>1, <1>2, <1>3, <1>4, <1>5, <1>6, <1>7, <1>8, <1>9, <1>10, <1>11 DEF Next

(* The invariant holds throughout a verification.                          *)
LEMMA Invariance == Spec => []IInv
<1>1. Init => IInv
  BY InitIInv
<1>2. IInv /\ [Next]_vars => IInv'
  BY InvStep
<1> QED BY <1>1, <1>2, PTL DEF Spec

-----------------------------------------------------------------------------
(* Every variable of the verification stays in its range.                  *)
THEOREM TypeCorrect == Spec => []TypeOK
BY Invariance, PTL DEF IInv

(* While the chain stands still, verify accepts only who has what the mode *)
(* asks for (the identity alone for SubgraphStaker), ...                   *)
THEOREM OnlyEntitled == Spec => []AcceptedIsEntitled
<1>1. IInv => AcceptedIsEntitled
  BY DEF IInv, PathInv, AnswerInv, Answered, RegistryModes, NetworkModes, needs_stake,
         AcceptedIsEntitled, Entitled, is_registered, is_graph_account
<1> QED BY <1>1, Invariance, PTL

(* ... refuses none of them whose only registration is for the claimed     *)
(* account, when every query gets an answer, ...                           *)
THEOREM AllEntitled == Spec => []EntitledIsAccepted
BY Invariance, PTL DEF IInv

(* ... and an outage of the registry shuts out no one the network knows.   *)
THEOREM OutageTolerated == Spec => []RegistryOutageTolerated
BY Invariance, PTL DEF IInv
=============================================================================
