--------------------------- MODULE MCAuthCapture ----------------------------
(***************************************************************************)
(* AuthCapture for TLC.                                                    *)
(***************************************************************************)
EXTENDS AuthCapture
=============================================================================
