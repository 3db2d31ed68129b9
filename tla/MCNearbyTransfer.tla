-------------------------- MODULE MCNearbyTransfer --------------------------
(* Instances of NearbyTransfer for TLC.                                    *)
EXTENDS NearbyTransfer
=============================================================================
