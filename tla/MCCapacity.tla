------------------------------- MODULE MCCapacity -------------------------------
EXTENDS Capacity

CONSTANTS c1, c2
=============================================================================
