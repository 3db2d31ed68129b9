------------------------------ MODULE BootImage ------------------------------
(***************************************************************************)
(* What a firmware update promises: the image the device would start is    *)
(* replaced by a good one in a single step, and until the new one has      *)
(* started the old one can come back.                                      *)
(***************************************************************************)
CONSTANT Good   \* images accepted for this device

VARIABLES
    boots,      \* the image the next start begins with
    runs        \* the image that runs, kept until another one does

Init == boots \in Good /\ runs = boots

Commit == boots' \in Good /\ UNCHANGED runs

Start == runs' = boots /\ UNCHANGED boots

\* A new image that does not come up is given up.
Revert == boots' = runs /\ UNCHANGED runs

Next == (boots = runs /\ Commit) \/ Start \/ Revert

Spec == Init /\ [][Next]_<<boots, runs>>
=============================================================================
