--------------------------- MODULE MCThreadTable ----------------------------
(* ThreadTable on small instances for TLC.                                 *)
EXTENDS ThreadTable
=============================================================================
