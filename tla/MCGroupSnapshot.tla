--------------------------- MODULE MCGroupSnapshot ---------------------------
(* Instances of GroupSnapshot for TLC: two members on one node, one on     *)
(* another.                                                                *)
EXTENDS GroupSnapshot, TLC

CONSTANTS v1, v2, v3, n1, n2

MCNodeOf == v1 :> n1 @@ v2 :> n1 @@ v3 :> n2

=============================================================================
