----------------------------- MODULE MCNodeMount -----------------------------
(* Instances of NodeMount for TLC.                                         *)
EXTENDS NodeMount, TLC

CONSTANTS t1, t2

=============================================================================
