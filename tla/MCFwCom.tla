------------------------------ MODULE MCFwCom -------------------------------
(***************************************************************************)
(* FwCom for TLC: MCFwCom.cfg keeps the send ring within its QueueSize,    *)
(* MCFwComFull.cfg leaves the limit to ipu_send_get_token's own test.      *)
(***************************************************************************)
EXTENDS FwCom
=============================================================================
