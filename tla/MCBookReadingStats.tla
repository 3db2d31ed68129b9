------------------------- MODULE MCBookReadingStats -------------------------
(* Instances of BookReadingStats for TLC: two statistics besides the fresh *)
(* ones.                                                                   *)
EXTENDS BookReadingStats

CONSTANTS s1, s2
=============================================================================
