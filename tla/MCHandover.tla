----------------------------- MODULE MCHandover -----------------------------
(***************************************************************************)
(* A small instance of Handover.                                           *)
(***************************************************************************)
EXTENDS HandoverInvariants, TLC

CONSTANTS c1, g1, d1

OneRollout == [kind \in Disturbances |-> IF kind = "restart" THEN 1 ELSE 0]
SoleBuild == g1 :> d1
WantsOne == c1 :> {g1}

=============================================================================
