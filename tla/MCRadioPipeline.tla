-------------------------- MODULE MCRadioPipeline --------------------------
(* A remote signer, whose clock is one second behind, sends two messages in *)
(* one second and one in the next, and another one, whose clock is ahead,   *)
(* sends one; the radio may be restarted once.                              *)
EXTENDS RadioPipeline, TLC

CONSTANTS m1, m2, m3, early, about, alice, bob, me

MCMessages == {m1, m2, m3, early}
MCIdentifiers == {about}
MCSigners == {alice, bob, me}
MCIdentifierOf == [m \in MCMessages |-> about]
MCSignerOf == (m1 :> alice) @@ (m2 :> alice) @@ (m3 :> alice) @@ (early :> bob)
MCNonceOf == (m1 :> 1) @@ (m2 :> 1) @@ (m3 :> 2) @@ (early :> 3)
MCSkew == (alice :> -1) @@ (bob :> 1) @@ (me :> 0)
=============================================================================
