----------------------------- MODULE MCChannels -----------------------------
(* Channels on small instances for TLC.                                    *)
EXTENDS Channels, TLC

Symmetry == Permutations(Threads) \cup Permutations(Names)
=============================================================================
