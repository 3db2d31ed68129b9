------------------------- MODULE MCRecentBooksStore -------------------------
(* Instances of RecentBooksStore for TLC: two lists besides the empty one. *)
EXTENDS RecentBooksStore

CONSTANTS l1, l2
=============================================================================
