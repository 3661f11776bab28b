----------------------------- MODULE MCFdsLock ------------------------------
(* FdsLock on small instances for TLC.                                     *)
EXTENDS FdsLock, TLC

Symmetry == Permutations(Workers)
=============================================================================
