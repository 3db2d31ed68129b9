------------------------ MODULE MCGlobalReadingStats ------------------------
(* Instances of GlobalReadingStats for TLC: two statistics besides the     *)
(* fresh ones and those of a newer format.                                 *)
EXTENDS GlobalReadingStats

CONSTANTS s1, s2
=============================================================================
