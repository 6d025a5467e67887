----------------------------- MODULE MCButtress -----------------------------
(***************************************************************************)
(* Authentication by itself for TLC.                                       *)
(***************************************************************************)
EXTENDS Buttress
=============================================================================
