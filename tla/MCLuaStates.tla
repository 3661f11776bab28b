---------------------------- MODULE MCLuaStates -----------------------------
(* LuaStates on small instances for TLC: the files in the plugin folder.   *)
EXTENDS LuaStates, TLC

OneFile  == <<"a.lua">>
TwoFiles == <<"a.lua", "b.lua">>
=============================================================================
