-------------------------- MODULE DARegistrations ---------------------------
(***************************************************************************)
(* What Lua code registers with the Dragonade server: chat commands        *)
(* (LuaFunctionsDA.cpp), crates and console functions (hooks.cpp),         *)
(* together with the states of LuaStates that they call.                   *)
(*                                                                         *)
(* A chat command is an object with the name of a Lua function, which its  *)
(* Activate calls in every loaded state.  LuaTT_DAChatList is static in a  *)
(* header, so that LuaFunctionsDA.cpp and LuaManager.cpp have a list each: *)
(* commands join and leave the first, while LuaManager::Cleanup, at a      *)
(* reload, unregisters those of the second, which has none.  A crate and a *)
(* console function keep a table of the state that registered them, and    *)
(* nothing removes them.                                                   *)
(*                                                                         *)
(* Every callback is registered under a trigger of its own.                *)
(***************************************************************************)
EXTENDS LuaStates

CONSTANT Callbacks   (* the Lua functions registered for chat commands      *)

DAUses == {"command",    (* DA_Register_Chat_Command                        *)
           "unregister", (* DA_Unregister_Chat_Command                      *)
           "keep"}       (* DA_Register_Crate, DA_Register_Console_Function *)

ASSUME DARegistrationsAssumption == Uses \subseteq LuaUses \cup DAUses

VARIABLES
  LuaTT_DAChatList,  (* the commands of LuaFunctionsDA.cpp, by callback     *)
  managersList,      (* those of the LuaTT_DAChatList of LuaManager.cpp     *)
  triggers,          (* those that the server's DAChatCommandManager has    *)
  kept,              (* the states that crateList and consoleList point to  *)
  did                (* history: what scripts did that the code permits and *)
                     (* that may lead to undefined behaviour                *)

da      == <<LuaTT_DAChatList, managersList, triggers, kept>>
allvars == <<vars, da, did>>

Hazards == {"destroyed", "loaded in a hook", "failed late", "kept", "unregistered itself"}

(* The states that script objects, registrants, crates and console         *)
(* functions point to.                                                     *)
Pointed == kept \cup {r.L : r \in Scripts \cup attached}

DAInit ==
  /\ Init
  /\ LuaTT_DAChatList = {} /\ managersList = {} /\ triggers = {}
  /\ kept = {}
  /\ did = {}

Note(hazard, happens) == did' = IF happens THEN did \cup {hazard} ELSE did

-----------------------------------------------------------------------------
(* Slip: the command joins the manager's list as well, and a reload leaves *)
(* it in the other.                                                        *)
RegisterTwice(c) ==
  /\ Running /\ "command" \in Uses
  /\ LuaTT_DAChatList' = LuaTT_DAChatList \cup {c}
  /\ managersList' = managersList \cup {c}
  /\ triggers' = IF c \in LuaTT_DAChatList THEN triggers ELSE triggers \cup {c}
  /\ UNCHANGED <<vars, kept, did>>

(* DA_Register_Chat_Command: a callback that is in the list is refused,    *)
(* also after a reload.                                                    *)
RegisterCommand(c) ==
  /\ Running /\ "command" \in Uses
  /\ LuaTT_DAChatList' = LuaTT_DAChatList \cup {c}
  /\ triggers' = IF c \in LuaTT_DAChatList THEN triggers ELSE triggers \cup {c}
  /\ UNCHANGED <<vars, managersList, kept, did>>

(* DA_Unregister_Chat_Command: the command leaves the list and the server  *)
(* and is deleted, also while its Activate is under way.                   *)
UnregisterCommand(c) ==
  /\ Running /\ "unregister" \in Uses /\ c \in LuaTT_DAChatList
  /\ LuaTT_DAChatList' = LuaTT_DAChatList \ {c}
  /\ triggers' = triggers \ {c}
  /\ stack' = [k \in 1..Len(stack) |->
                 IF stack[k].kind = "command" /\ stack[k].func = c
                 THEN [stack[k] EXCEPT !.gone = TRUE] ELSE stack[k]]
  /\ Note("unregistered itself", stack' # stack)
  /\ UNCHANGED <<manager, Reload_Flag, scripts, todo, phase, fault, managersList, kept>>

(* A player types the command: Activate begins to walk over Lua.           *)
ActivateCommand(c) ==
  /\ Quiet /\ Room(2) /\ Lua # <<>> /\ c \in triggers
  /\ stack' = Append(stack, [kind |-> "command", next |-> 1, len |-> Len(Lua), stale |-> FALSE,
                             func |-> c, gone |-> FALSE])
  /\ UNCHANGED <<manager, Reload_Flag, scripts, todo, phase, fault, da, did>>

(* The walk calls the function in the next state by its name, which was    *)
(* freed with the command.                                                 *)
CommandCall ==
  /\ AtWalk /\ Top.kind = "command"
  /\ IF Top.gone /\ ~Top.stale /\ Top.next <= Top.len
     THEN fault' = "freed command" /\ UNCHANGED <<manager, Reload_Flag, scripts, stack, todo, phase>>
     ELSE WalkCall
  /\ UNCHANGED <<da, did>>

(* DA_Register_Crate and DA_Register_Console_Function: the table that is   *)
(* registered belongs to the running state.                                *)
RegisterKept ==
  /\ Running /\ "keep" \in Uses
  /\ kept' = kept \cup {Top.L}
  /\ UNCHANGED <<vars, LuaTT_DAChatList, managersList, triggers, did>>

(* A crate is made or picked up, or a console function is typed at the     *)
(* console or given to Console_Input: Init, Can_Activate or Activate of    *)
(* its table.                                                              *)
KeptEvent ==
  /\ (Running \/ Quiet) /\ Room(1)
  /\ \E L \in kept : Enter(stack, L)
  /\ UNCHANGED <<manager, Reload_Flag, scripts, todo, phase, da, did>>

-----------------------------------------------------------------------------
(* Cleanup, before the states are closed: the commands of the manager's    *)
(* list are unregistered and deleted.                                      *)
Cleanup ==
  /\ triggers' = triggers \ managersList
  /\ managersList' = {}
  /\ UNCHANGED <<LuaTT_DAChatList, kept>>

(* The steps of LuaStates; none but the reload touches what is registered. *)
FileFails   == LoadFailed /\ Note("failed late", Top.L \in Pointed) /\ UNCHANGED da
Reloads     == ThinkReload /\ Note("kept", kept # {}) /\ Cleanup
LoadsNext   == (LoadNext \/ LoadedAll) /\ UNCHANGED <<da, did>>
OtherCall   == WalkCall /\ Top.kind # "command" /\ UNCHANGED <<da, did>>
Ends        == (Return \/ LoadDone \/ WalkEnd) /\ UNCHANGED <<da, did>>
LoadsAnother ==
  \E f \in Files : LoadLua(f) /\ Note("loaded in a hook", Walking) /\ UNCHANGED da
Destroys ==
  \E i \in 1..Len(Lua) : DestroyLuaThread(i) /\ Note("destroyed", TRUE) /\ UNCHANGED da
OtherStep ==
  /\ \/ HookBegin \/ WalkBreak \/ Attach \/ ScriptEvent \/ Detach \/ ReloadLua
     \/ \E n \in Names : RegisterScript(n)
  /\ UNCHANGED <<da, did>>

DANext ==
  /\ fault = "none"
  /\ \/ FileFails \/ Reloads \/ LoadsNext \/ OtherCall \/ Ends
     \/ LoadsAnother \/ Destroys \/ OtherStep
     \/ \E c \in Callbacks : RegisterCommand(c) \/ UnregisterCommand(c) \/ ActivateCommand(c)
     \/ CommandCall \/ RegisterKept \/ KeptEvent

DASpec == DAInit /\ [][DANext]_allvars

-----------------------------------------------------------------------------
DATypeOK ==
  /\ TypeOK
  /\ LuaTT_DAChatList \subseteq Callbacks /\ triggers \subseteq Callbacks
  /\ managersList \subseteq Callbacks
  /\ kept \subseteq States
  /\ did \subseteq Hazards

(* Whatever the scripts do, undefined behaviour has one of five causes:    *)
(* Destroy_Lua_Thread (LuaFunctions.cpp:7173), Load_Lua below a hook       *)
(* (LuaManager.cpp:1348), a file that fails after it has registered        *)
(* something (1342), a crate or console function that is there at a reload *)
(* (hooks.cpp:951), and a chat command that unregisters itself             *)
(* (LuaFunctionsDA.cpp:402).  All else, a reload with script objects on    *)
(* objects, nested hooks, is safe.                                         *)
UndefinedHasCause ==
  /\ fault = "iterator"      => did \cap {"destroyed", "loaded in a hook"} # {}
  /\ fault = "closed state"  => did \cap {"destroyed", "failed late", "kept"} # {}
  /\ fault = "freed command" => "unregistered itself" \in did

(* A state that something points to is open, but for the same causes.      *)
PointedOpen ==
  did \cap {"destroyed", "failed late"} = {} =>
    /\ {r.L : r \in Scripts \cup attached} \subseteq open
    /\ "kept" \notin did => kept \subseteq open

(* The server activates no deleted command and every listed command can be *)
(* activated (LuaFunctionsDA.cpp:378-380, 402-404): also after reloads,    *)
(* because a command is never in the list that a reload empties            *)
(* (LuaManager.cpp:1366-1374).                                             *)
CommandsListed == triggers = LuaTT_DAChatList
=============================================================================
