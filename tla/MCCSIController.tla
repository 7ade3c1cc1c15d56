--------------------------- MODULE MCCSIController ---------------------------
(* Instances of CSIController, with its inductive invariant, for TLC.      *)
EXTENDS CSIControllerInvariant, TLC

CONSTANTS v1, v2, s1, n1

OneNode  == [v \in Vol |-> n1]
OfV1     == [s \in Snap |-> v1]
Plain    == [v \in Vol |-> None]
Restored == v1 :> None @@ v2 :> s1

=============================================================================
