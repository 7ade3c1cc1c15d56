------------------------------- MODULE MCListings -------------------------------
(* An instance of Listings for TLC.                                        *)
EXTENDS Listings

CONSTANTS v1, v2, s1, s2, h1, n1, n2

MCHome == [i \in Item |-> IF i \in {v1, s1, h1} THEN n1 ELSE n2]
=============================================================================
