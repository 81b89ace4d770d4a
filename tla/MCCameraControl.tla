--------------------------- MODULE MCCameraControl ---------------------------
(***************************************************************************)
(* An instance of CameraControl for TLC: two devices, the sizes 1..3 of    *)
(* the table.  Device 0 gives two of them, device 1 only the default; no   *)
(* device gives 3, and 4 is not in the table.                              *)
(***************************************************************************)
EXTENDS CameraControl, TLC

MCDevice == {0, 1}
MCTable  == 1..3
MCGrants == (0 :> {1, 2} @@ 1 :> {2})
MCAsked  == {0, 1, 3, 4}
=============================================================================
