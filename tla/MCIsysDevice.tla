---------------------------- MODULE MCIsysDevice ----------------------------
(***************************************************************************)
(* IsysDevice for TLC.                                                     *)
(***************************************************************************)
EXTENDS IsysDevice
=============================================================================
