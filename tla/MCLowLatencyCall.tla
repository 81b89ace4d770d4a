-------------------------- MODULE MCLowLatencyCall --------------------------
(***************************************************************************)
(* Instances of LowLatencyCall for TLC.                                    *)
(***************************************************************************)
EXTENDS LowLatencyCall

CONSTANTS app, callback, o1, o2, o3

OneClient  == {app}
TwoClients == {app, callback}
TwoOps     == {o1, o2}
ThreeOps   == {o1, o2, o3}
=============================================================================
