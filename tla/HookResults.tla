---------------------------- MODULE HookResults -----------------------------
(***************************************************************************)
(* What the server makes of the answers of Lua handlers: the hooks of      *)
(* LuaManager.cpp, which ask the handler of every state in turn and        *)
(* combine what they return, and the events of luatt.cpp and hooks.cpp     *)
(* that call them.                                                         *)
(*                                                                         *)
(* The answers travel over the C stack of each state.  slots has, for each *)
(* state, its frames: the first is that of the hooks the engine calls, and *)
(* every C function that runs in the state (a function of the Lua API) has *)
(* a frame of its own, with its arguments.  An event that such a function  *)
(* makes the engine raise is walked in that frame.  lua_pcall takes the    *)
(* handler and its arguments off the frame and leaves its results, so that *)
(* between the two the frame is as before; Report_Errors leaves there      *)
(* whatever OnError is when it is not a function.                          *)
(*                                                                         *)
(* A value is a string: "nil", "false", a number, or a text.  Events of    *)
(* one kind differ only in their arguments, which are left out.            *)
(***************************************************************************)
EXTENDS Naturals, SequencesExt, FiniteSetsExt

CONSTANTS
  Count,         (* how many states are loaded                              *)
  Reporting,     (* those that define OnError                               *)
  Events,        (* the events that are raised, of DOMAIN KindOf            *)
  Answers,       (* what handlers return: sequences of values               *)
  MaxWalks,      (* bound of the model: how deep events nest                *)
  MaxSlots       (* bound of the model: how many slots a frame may have     *)

Lua == 1..Count

(* The hooks of the manager (LuaManager.cpp): requests, ...                *)
ManagerRequests ==
  [OnChat |-> "veto", RadioHook |-> "veto", OnRefill |-> "veto", StockDamageHook |-> "veto",
   TTDamageHook |-> "veto", ConnectionAcceptance |-> "word", VehicleTTHook |-> "last"]

(* ... notices, ...                                                        *)
ManagerNotices ==
  [e \in {"OnHostMessage", "OnPlayerJoin", "OnDialog", "OnPlayerLeave", "OnLevelLoaded",
          "OnGameOver", "OnConsoleOutput"} |-> "notice"]
  @@ [e \in {"OnObjectCreate", "Adress_IP", "OnThink", "UnloadingLua"} |-> "notice"]

(* ... those of the script that Lua code puts on an object to have its     *)
(* events sent to all states (Lua_Script_Hook; KeyHook calls a function    *)
(* whose name it was given), ...                                           *)
ScriptHookNotices ==
  [e \in {"OnKilled", "OnZoneEnter", "OnZoneExit", "OnDestroyed", "CustomHook", "DamageHook",
          "PokedHook", "KeyHook_callback"} |-> "notice"]

(* ... the notices of a purchase, which need the purchaser, and Invoke, by *)
(* which one state calls a function of all states by its name.             *)
PurchaseNotices ==
  [e \in {"OnCharacterPurchase", "OnVehiclePurchase", "OnPowerupPurchase"} |-> "purchase"]
Invoke == [Invoke |-> "invoke"]

(* The events of a script object and of a crate, which concern one state.  *)
ScriptEvents ==
  [e \in {"Created", "Destroyed", "Detach", "KeyHook", "Sound_Heard", "Timer_Expired",
          "Killed", "Damaged", "Custom", "Enemy_Seen", "Action_Complete", "Animation_Complete",
          "Poked", "Entered", "Exited"} |-> "script"]
CrateEvents == [Init |-> "script", Activate |-> "script", Can_Activate |-> "crate"]

(* The hooks for Dragonade that LuaManager.cpp has one function each for.  *)
DAOwnHooks ==
  [DA_Suicide_Event |-> "bool", DA_Refill_Event |-> "bool", DA_Team_Change_Request_Event |-> "bool",
   DA_Player_Pre_Join_Event |-> "notice", DA_Log_Event |-> "notice",
   DA_Connection_Request_Event |-> "word", DA_Damage_Request_Event |-> "damage"]

(* Those that hooks.cpp sends through Generic_Hook, ...                    *)
DAChatEvents ==
  [e \in {"DA_Chat_Command_Event", "DA_Chat_Event", "DA_Key_Hook_Event", "DA_Host_Chat_Event",
          "DA_Radio_Event"} |-> "bool"]

DAGameEvents ==
  [e \in {"DA_Player_Loaded_Event", "DA_Player_Join_Event", "DA_Player_Leave_Event",
          "DA_Name_Change_Event", "DA_Remix_Event", "DA_Rebalance_Event", "DA_Swap_Event",
          "DA_Game_Over_Event", "DA_Level_Loaded_Event", "DA_Settings_Loaded_Event",
          "DA_Ren_Log_Event", "DA_Console_Output_Event"} |-> "generic"]

DAPurchaseEvents ==
  [e \in {"DA_Character_Purchase_Request_Event", "DA_Vehicle_Purchase_Request_Event",
          "DA_PowerUp_Purchase_Request_Event", "DA_Custom_Purchase_Request_Event"} |-> "integer"]
  @@ [e \in {"DA_Change_Character_Event", "DA_Character_Purchase_Event", "DA_Vehicle_Purchase_Event",
             "DA_PowerUp_Purchase_Event", "DA_Custom_Purchase_Event"} |-> "generic"]

DAVehicleEvents ==
  [DA_Vehicle_Entry_Request_Event |-> "bool", DA_PowerUp_Grant_Request_Event |-> "bool",
   DA_Add_Weapon_Request_Event |-> "bool", DA_Team_Change_Event |-> "generic",
   DA_Vehicle_Enter_Event |-> "generic", DA_Vehicle_Exit_Event |-> "generic",
   DA_PowerUp_Grant_Event |-> "generic", DA_Add_Weapon_Event |-> "generic"]

DAWeaponEvents ==
  [DA_C4_Detonate_Request_Event |-> "bool", DA_Vehicle_Flip_Event |-> "bool",
   DA_Request_Vehicle_Event |-> "bool", DA_Remove_Weapon_Event |-> "generic",
   DA_Clear_Weapons_Event |-> "generic", DA_Beacon_Deploy_Event |-> "generic",
   DA_Beacon_Detonate_Event |-> "generic", DA_C4_Detonate_Event |-> "generic"]

DAObjectEvents ==
  [e \in {"DA_Kill_Event", "DA_Custom_Event", "DA_Poke_Event", "DA_Zone_Enter_Event",
          "DA_Zone_Exit_Event", "DA_Object_Created_Event", "DA_Object_Destroyed_Event"} |-> "generic"]

KindOf == ManagerRequests @@ ManagerNotices @@ ScriptHookNotices @@ PurchaseNotices @@ Invoke
          @@ ScriptEvents @@ CrateEvents @@ DAOwnHooks @@ DAChatEvents @@ DAGameEvents @@ DAPurchaseEvents @@ DAVehicleEvents
          @@ DAWeaponEvents @@ DAObjectEvents @@ [Chat_Command |-> "bool"]

ASSUME HookResultsAssumption ==
  /\ Count \in Nat /\ Reporting \subseteq Lua
  /\ Events \subseteq DOMAIN KindOf
  /\ \A a \in Answers : a \in Seq(STRING)
  /\ MaxWalks \in Nat /\ MaxSlots \in Nat

VARIABLES
  slots,         (* for each state, its frames, the innermost last          *)
  walks          (* the hooks under way, the innermost last                 *)

vars == <<slots, walks>>

(* The conversions of the Lua API: lua_tonumber, lua_toboolean (as 0 or 1) *)
(* and whether lua_tostring gives a text.                                  *)
Numbers    == {"-1", "0", "1", "2", "3"}
Number(v)  == IF v \in Numbers THEN v ELSE "0"
Truth(v)   == IF v \in {"nil", "false"} THEN "0" ELSE "1"
IsText(v)  == v \notin {"nil", "false", "true", "function", "table"}

Values == (UNION {ToSet(a) : a \in Answers}) \cup {"nil", "table", "function", "1"}

(* Slip: a hook asks for no results and reads one.                         *)
WantedNone(kind) ==
  CASE kind \in {"notice", "generic", "purchase", "invoke", "script", "veto"} -> 0
    [] kind = "damage" -> -1
    [] OTHER           -> 1

(* How many results lua_pcall is asked for; -1 is LUA_MULTRET.             *)
Wanted(kind) ==
  CASE kind \in {"notice", "generic", "purchase", "invoke", "script"} -> 0
    [] kind = "damage" -> -1
    [] OTHER           -> 1

(* What a hook answers that nobody has answered.                           *)
Default(e) ==
  CASE KindOf[e] = "integer" -> IF e = "DA_Custom_Purchase_Request_Event" THEN "3" ELSE "-1"
    [] KindOf[e] = "last"    -> "-1"
    [] KindOf[e] = "word"    -> "CONTINUE"
    [] OTHER                 -> "1"

(* A hook that begins: it will ask the states first to last.  heard has    *)
(* what happened in each of those asked so far, ret what it would answer   *)
(* now; inside tells that a handler is running.                            *)
Walk(e, first, last) ==
  [event |-> e, next |-> first, last |-> last, inside |-> FALSE, ret |-> Default(e),
   damage |-> "given", warhead |-> "given", heard |-> <<>>]

Top     == Last(walks)
Kind    == KindOf[Top.event]
L       == Top.next
Frame   == Last(slots[L])
Asking  == walks # <<>> /\ ~Top.inside /\ Top.next <= Top.last
Running == walks # <<>> /\ Top.inside

Init == slots = [l \in Lua |-> <<<<>>>>] /\ walks = <<>>

SetFrame(l, frame) == slots' = [slots EXCEPT ![l][Len(slots[l])] = frame]
SetTop(w)          == walks' = [walks EXCEPT ![Len(walks)] = w]
Heard(how, answer) == Append(Top.heard, [how |-> how, answer |-> answer])

-----------------------------------------------------------------------------
(* Slip: states are counted from zero.                                     *)
BeginAtZero(e) ==
  \/ /\ KindOf[e] \notin {"script", "crate"}
     /\ walks' = Append(walks, Walk(e, 0, Count - 1))
  \/ /\ KindOf[e] \in {"script", "crate"}
     /\ \E l \in Lua : walks' = Append(walks, Walk(e, l, l))

(* The engine raises an event: a hook asks all states; a script object or  *)
(* a crate belongs to one.                                                 *)
Begin(e) ==
  \/ /\ KindOf[e] \notin {"script", "crate"}
     /\ walks' = Append(walks, Walk(e, 1, Count))
  \/ /\ KindOf[e] \in {"script", "crate"}
     /\ \E l \in Lua : walks' = Append(walks, Walk(e, l, l))

Raise(e) ==
  /\ walks = <<>> /\ KindOf[e] # "invoke"
  /\ Begin(e)
  /\ UNCHANGED slots

(* The same inside a handler, by a function of the Lua API that the        *)
(* handler calls with some argument.                                       *)
RaiseInside(e) ==
  /\ Running /\ Len(walks) < MaxWalks
  /\ Begin(e)
  /\ \E v \in {"nil", "1"} : slots' = [slots EXCEPT ![L] = Append(@, <<v>>)]

(* The state has the handler, which is called.  A script object and a      *)
(* crate have their table on the stack below it.                           *)
Call ==
  /\ Asking /\ Top.event # "Sound_Heard"
  /\ SetTop([Top EXCEPT !.inside = TRUE])
  /\ IF Kind \in {"script", "crate"} THEN SetFrame(L, Append(Frame, "table")) ELSE UNCHANGED slots

(* Sound_Heard pushes six arguments and tells lua_pcall of four, which so  *)
(* calls the second of the six, a number: that fails, and the handler never*)
(* runs.                                                                   *)
SoundHeard ==
  /\ Asking /\ Kind = "script" /\ Top.event = "Sound_Heard"
  /\ SetTop([Top EXCEPT !.next = @ + 1, !.heard = Heard("failed", <<>>)])
  /\ SetFrame(L, <<>>)

(* The state has no such function: what lua_getglobal pushed is taken off  *)
(* again by lua_setglobal, and stays in CallInvoke.                        *)
Skip ==
  /\ Asking /\ Len(Frame) < MaxSlots
  /\ SetTop([Top EXCEPT !.next = @ + 1, !.heard = Heard("absent", <<>>)])
  /\ SetFrame(L, CASE Kind = "invoke"             -> Append(Frame, "nil")
                   [] Kind \in {"script", "crate"} -> <<>>
                   [] OTHER                        -> Frame)

(* Purchase_Hook returns at once when the purchaser is gone, and leaves    *)
(* the function on the stack.                                              *)
PurchaserGone ==
  /\ Asking /\ Kind = "purchase" /\ Len(Frame) < MaxSlots
  /\ SetTop([Top EXCEPT !.next = Top.last + 1])
  /\ SetFrame(L, Append(Frame, "function"))

(* What lua_to...(L, -1) may read: the top slot or, in an empty frame,     *)
(* whatever lies below it.                                                 *)
Readable(frame) == IF frame = <<>> THEN Values ELSE {Last(frame)}

(* Slip: the last state decides.                                           *)
CombinedLast(v) ==
  CASE Kind = "veto"              -> Number(v)
    [] Kind \in {"bool", "crate"} -> Truth(v)
    [] Kind = "integer"           -> IF IsText(v) THEN Number(v) ELSE Top.ret
    [] Kind = "last"              -> IF Number(v) = "0" THEN Top.ret ELSE Number(v)
    [] Kind = "word"              -> IF IsText(v) THEN v ELSE "CONTINUE"
    [] OTHER                      -> Top.ret

(* The answer of the hook once v is read after the call in a state.        *)
Combined(v) ==
  CASE Kind = "veto"    -> IF Top.ret = "0" THEN "0" ELSE Number(v)
    [] Kind = "bool"    -> IF Top.ret = "0" THEN "0" ELSE Truth(v)
    [] Kind = "crate"   -> Truth(v)
    [] Kind = "integer" -> IF IsText(v) THEN Number(v) ELSE Top.ret
    [] Kind = "last"    -> IF Number(v) = "0" THEN Top.ret ELSE Number(v)
    [] Kind = "word"    -> IF IsText(v) THEN v ELSE "CONTINUE"
    [] OTHER            -> Top.ret

(* DA_Damage_Request_Event takes all results: the last is the verdict, the *)
(* one before it the damage and the third from the end the warhead.        *)
Judged(w, results) ==
  LET n     == Len(results)
      at(k) == results[n + 1 - k]
  IN [w EXCEPT !.ret     = IF n >= 1 /\ @ # "0" THEN Truth(at(1)) ELSE @,
               !.damage  = IF n >= 2 /\ at(2) \in Numbers THEN at(2) ELSE @,
               !.warhead = IF n >= 3 /\ at(3) \in Numbers THEN at(3) ELSE @]

(* Slip: some hooks do not pop what they have read.                        *)
ClearsVerdicts(kind) == kind \in {"veto", "bool", "damage", "script", "crate", "generic"}

(* The kinds whose hook empties the frame after each call: lua_pop of all  *)
(* slots, and lua_pop(L, -1), which is lua_settop(L, 0).                   *)
Clears(kind) == kind \notin {"notice", "purchase", "invoke"}

(* Slip: a word does not end the walk.                                     *)
GoOnAsking(how, answer, results) ==
  LET frame == Frame \o results
      after == [Top EXCEPT !.inside = FALSE, !.next = @ + 1, !.heard = Heard(how, answer)]
  IN /\ IF Kind = "damage" THEN SetTop(Judged(after, results))
        ELSE \E v \in Readable(frame) : SetTop([after EXCEPT !.ret = Combined(v)])
     /\ SetFrame(L, IF Clears(Kind) THEN <<>> ELSE frame)

(* The hook goes on after the call, which has left results on the frame.   *)
GoOn(how, answer, results) ==
  LET frame == Frame \o results
      after == [Top EXCEPT !.inside = FALSE, !.next = @ + 1, !.heard = Heard(how, answer)]
  IN /\ IF Kind = "damage" THEN SetTop(Judged(after, results))
        ELSE \E v \in Readable(frame) :
               LET ret == Combined(v)
               IN SetTop([after EXCEPT
                    !.ret  = ret,
                    !.next = IF Kind = "word" /\ ret # "CONTINUE" THEN Top.last + 1 ELSE @])
     /\ SetFrame(L, IF Clears(Kind) THEN <<>> ELSE frame)

(* lua_pcall cuts the answer to the number of results it was asked for.    *)
Cut(answer, n) ==
  CASE n = -1 -> answer
    [] n = 0  -> <<>>
    [] n = 1  -> <<IF answer = <<>> THEN "nil" ELSE Head(answer)>>

Return(answer) ==
  /\ Running
  /\ GoOn("answered", answer, Cut(answer, Wanted(Kind)))

(* The handler fails.  Report_Errors takes the message off and calls       *)
(* OnError; a state without one is left with a nil on its frame.           *)
Fail ==
  /\ Running /\ Len(Frame) < MaxSlots
  /\ GoOn("failed", <<>>, IF L \in Reporting THEN <<>> ELSE <<"nil">>)

(* The hook answers.  Inside a handler the API function returns with it.   *)
End ==
  /\ walks # <<>> /\ ~Top.inside /\ Top.next > Top.last
  /\ walks' = Front(walks)
  /\ IF Len(walks) = 1 THEN UNCHANGED slots
     ELSE LET caller == walks[Len(walks) - 1].next
          IN slots' = [slots EXCEPT ![caller] = Front(@)]

Next ==
  \/ \E e \in Events : Raise(e) \/ RaiseInside(e)
  \/ Call \/ SoundHeard \/ Skip \/ PurchaserGone \/ Fail \/ End
  \/ \E a \in Answers : Return(a)

Spec == Init /\ [][Next]_vars

-----------------------------------------------------------------------------
TypeOK ==
  /\ slots \in [Lua -> Seq(Seq(Values))] /\ \A l \in Lua : slots[l] # <<>>
  /\ walks \in Seq([event : Events, next : 1..(Count + 1), last : 0..Count, inside : BOOLEAN,
                    ret : Values \cup Numbers \cup {"CONTINUE"},
                    damage : Numbers \cup {"given"}, warhead : Numbers \cup {"given"},
                    heard : Seq([how : {"answered", "failed", "absent"}, answer : Answers \cup {<<>>}])])
  /\ \A k \in 1..(Len(walks) - 1) : walks[k].inside

(* The hooks under way, and of the states asked those that answered, and   *)
(* those that failed, by whether they define OnError.                      *)
Hooks        == ToSet(walks)
State(w, k)  == IF KindOf[w.event] = "crate" THEN w.last ELSE k
Asked(w)     == 1..Len(w.heard)
Answered(w)  == {k \in Asked(w) : w.heard[k].how = "answered"}
Failed(w)    == {k \in Asked(w) : w.heard[k].how = "failed"}
Silent(w)    == {k \in Failed(w) : State(w, k) \notin Reporting}
First(w, k)  == IF w.heard[k].answer = <<>> THEN "nil" ELSE Head(w.heard[k].answer)

(* The handler of the k-th state asked says no.                            *)
Refuses(w, k) ==
  CASE KindOf[w.event] = "veto"             -> First(w, k) \notin Numbers \ {"0"}
    [] KindOf[w.event] \in {"bool", "crate"} -> First(w, k) \in {"nil", "false"}
    [] KindOf[w.event] = "damage"           -> LET a == w.heard[k].answer
                                               IN a # <<>> /\ Last(a) \in {"nil", "false"}
    [] OTHER                                -> FALSE

Verdicts == {w \in Hooks : KindOf[w.event] \in {"veto", "bool", "crate", "damage"}}

(* One refusal is enough, whatever other states answer, fail or raise      *)
(* meanwhile (LuaManager.cpp:836, 1682, 1877, 1964), and so is the failure *)
(* of a handler in a state that has no OnError, whose nil is read as an    *)
(* answer (1148-1165).                                                     *)
RefusalStands ==
  \A w \in Verdicts :
    (Silent(w) # {} \/ \E k \in Answered(w) : Refuses(w, k)) => w.ret = "0"

(* Nothing is refused but by a handler that says so or fails, however the  *)
(* events nest.  A failed handler of DA_Damage_Request_Event, which counts *)
(* what it finds (LuaManager.cpp:1872-1878), does not refuse if OnError    *)
(* took the failure.                                                       *)
RefusalHasCause ==
  \A w \in Verdicts : w.ret = "0" =>
    \/ \E k \in Answered(w) : Refuses(w, k)
    \/ Failed(w) # {} /\ (KindOf[w.event] = "damage" => Silent(w) # {})

(* While no handler fails, the first word other than CONTINUE ends the     *)
(* walk and is the answer (LuaManager.cpp:864-867), VehicleTTHook answers  *)
(* the last number that is not zero (1087-1088), and a purchase request    *)
(* the last text or number (1966-1973).                                    *)
WordsCount ==
  LET Word(w, k)   == First(w, k) # "CONTINUE" /\ IsText(First(w, k))
      Number1(w, k) == Number(First(w, k)) # "0"
  IN \A w \in Hooks : Failed(w) = {} =>
       CASE KindOf[w.event] = "word" ->
              IF \E k \in Answered(w) : Word(w, k)
              THEN \E k \in Answered(w) : /\ Word(w, k) /\ w.ret = First(w, k)
                                         /\ k = Len(w.heard) /\ w.next > w.last
              ELSE w.ret = "CONTINUE"
         [] KindOf[w.event] \in {"last", "integer"} ->
              LET counts == {k \in Answered(w) : IF KindOf[w.event] = "last" THEN Number1(w, k)
                                                 ELSE IsText(First(w, k))}
              IN w.ret = IF counts = {} THEN Default(w.event) ELSE Number(First(w, Max(counts)))
         [] OTHER -> TRUE

(* A hook leaves no answer and no argument behind on a state's stack: what *)
(* piles up there is the nil of a failure without OnError or of Invoke,    *)
(* and the function of a purchase whose purchaser is gone                  *)
(* (LuaManager.cpp:1056, 1156, 1257).                                      *)
NothingElseLeft ==
  \A l \in Lua :
    LET busy == \E w \in Hooks : w.inside /\ w.next = l /\ KindOf[w.event] \in {"script", "crate"}
    IN ToSet(Head(slots[l])) \subseteq
         (IF (\E e \in Events : KindOf[e] = "invoke") \/ l \notin Reporting THEN {"nil"} ELSE {})
           \cup {"function"} \cup (IF busy THEN {"table"} ELSE {})

(* The documented handler answers "return true,Damage,Warhead"             *)
(* (src/LuaPlugins/.vscode/DAEvents.code-snippets:53): the first of the    *)
(* values a handler of DA_Damage_Request_Event returns is its verdict.     *)
VerdictComesFirst ==
  \A w \in Hooks : w.event = "DA_Damage_Request_Event" =>
    \A k \in Answered(w) : First(w, k) = "false" => w.ret = "0"
=============================================================================
