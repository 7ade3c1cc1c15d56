------------------------------ MODULE MCPlacement ------------------------------
EXTENDS Placement

CONSTANTS u1, u2, n1, n2

(* Two claims in one group, one of two in the group, one of two refused.   *)
Both == {"supported", "grouped"}
MCClasses == { [u \in Uid |-> Both],
               [u \in Uid |-> IF u = u1 THEN Both ELSE {"supported"}],
               [u \in Uid |-> IF u = u1 THEN Both ELSE {}] }
=============================================================================
