------------------------- MODULE MCDARegistrations --------------------------
(* DARegistrations on small instances for TLC: the files in the folder.    *)
EXTENDS DARegistrations

OneFile  == <<"a.lua">>
TwoFiles == <<"a.lua", "b.lua">>
=============================================================================
