-------------------------- MODULE MCMessageValidity --------------------------
(* Three messages of one remote signer on one identifier, with nonces       *)
(* before and after the start of the clock and one ahead of it for a while, *)
(* one of that signer on another identifier, one by the local wallet and    *)
(* one with a broken signature.                                             *)
EXTENDS MessageValidity, TLC

CONSTANTS m1, m2, m3, m4, mine, forged, about, elsewhere, alice, me

MCMessages == {m1, m2, m3, m4, mine, forged}
MCIdentifiers == {about, elsewhere}
MCSigners == {alice, me}
MCIdentifierOf == [m \in MCMessages |-> IF m = m4 THEN elsewhere ELSE about]
MCSignerOf == (m1 :> alice) @@ (m2 :> alice) @@ (m3 :> alice) @@ (m4 :> alice)
              @@ (mine :> me) @@ (forged :> BadSignature)
MCNonceOf == (m1 :> 1) @@ (m2 :> 2) @@ (m3 :> 3) @@ (m4 :> 1)
             @@ (mine :> 2) @@ (forged :> 2)
=============================================================================
