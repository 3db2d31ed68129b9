------------------------- MODULE MCActivityManager -------------------------
(* Instances of ActivityManager for TLC.  Objects of one kind are          *)
(* interchangeable.                                                        *)
EXTENDS ActivityManager, TLC

CONSTANTS h1, h2, p1, p2, p3, r1, o1, u1

Objects == {h1, h2, p1, p2, p3, r1, o1, u1} \cap Activities
KindSymmetry == Permutations(Homes) \cup
                Permutations(Activities \cap {p1, p2, p3})
=============================================================================
