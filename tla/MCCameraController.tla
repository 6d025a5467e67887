------------------------ MODULE MCCameraController ------------------------
(***************************************************************************)
(* Small instances of the bridge controller for TLC.  One unit of time is  *)
(* about the open debounce; the grace period is longer.                    *)
(***************************************************************************)
EXTENDS CameraController
===========================================================================
