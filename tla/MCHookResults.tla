--------------------------- MODULE MCHookResults ----------------------------
(* HookResults on small instances for TLC: answers of one value, none, and *)
(* the three values of DA_Damage_Request_Event in either order.            *)
EXTENDS HookResults

SomeAnswers == {<<v>> : v \in {"false", "0", "1", "CONTINUE", "text"}}
               \cup {<<>>, <<"1", "2", "false">>, <<"false", "2", "1">>}
=============================================================================
