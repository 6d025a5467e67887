---------------------------- MODULE MCIsysStream ----------------------------
(***************************************************************************)
(* IsysStream for TLC.  Buffers are interchangeable.                       *)
(***************************************************************************)
EXTENDS IsysStream, TLC

Symmetry == Permutations(Bufs)
=============================================================================
