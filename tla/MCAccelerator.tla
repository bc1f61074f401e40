--------------------------- MODULE MCAccelerator ---------------------------
(*****************************************************************************)
(* One connection, one or two topics, for TLC.                               *)
(*****************************************************************************)
EXTENDS Accelerator

CONSTANTS c1, t1, t2
=============================================================================
