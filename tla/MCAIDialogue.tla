---------------------------- MODULE MCAIDialogue ----------------------------
(* AIDialogue for TLC: it is finite as it is.                              *)
EXTENDS AIDialogue
=============================================================================
