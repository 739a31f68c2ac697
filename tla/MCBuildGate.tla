---------------------------- MODULE MCBuildGate ----------------------------
(* Three processes, one of which computes a larger limit than the others.  *)
EXTENDS BuildGate, TLC

CONSTANTS b1, b2, b3

Limits == b1 :> 1 @@ b2 :> 1 @@ b3 :> 2

=============================================================================
