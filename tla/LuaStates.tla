----------------------------- MODULE LuaStates ------------------------------
(***************************************************************************)
(* The Lua states of the server: the vectors Lua and LuaNames of           *)
(* LuaManager.cpp, loading, reloading and destroying states, and the       *)
(* script registrants of LuaScriptManager, which keep a pointer to the     *)
(* state that registered them and hand it to every script object made.     *)
(*                                                                         *)
(* All of this runs on the main thread, but it nests: a hook walks over    *)
(* Lua and runs a handler in each state, and what runs in a state may call *)
(* back into the manager or make the engine call another hook.  stack      *)
(* holds the calls under way, the innermost last: a file being loaded and  *)
(* a handler, each in its state, and the walk of a hook ("hook"), of       *)
(* Reload_Lua ("unload") or of a chat command ("command", which            *)
(* DARegistrations adds) over Lua.  A state is numbered by the order of    *)
(* its creation.                                                           *)
(***************************************************************************)
EXTENDS Naturals, SequencesExt

CONSTANTS
  Plugins,       (* the files of the folder LuaPlugins, in loading order    *)
  Names,         (* the names under which scripts are registered            *)
  Uses,          (* which of LuaUses the Lua code of the server makes       *)
  MaxStates,     (* bound of the model: how many states are ever created    *)
  MaxDepth       (* bound of the model: how deep calls nest                 *)

LuaUses == {"register",            (* Register_Script                       *)
            "reload",              (* Reload_Lua                            *)
            "load in an event",    (* Load_Lua from a script event          *)
            "load in a hook",      (* Load_Lua while a hook walks over Lua  *)
            "destroy"}             (* Destroy_Lua_Thread                    *)

Files  == ToSet(Plugins)
States == 1..MaxStates

ASSUME LuaStatesAssumption ==
  /\ Plugins \in Seq(Files)
  /\ MaxStates \in Nat /\ MaxDepth \in Nat

VARIABLES
  Lua,           (* the loaded states, in order                             *)
  LuaNames,      (* the names of the files loaded, in order                 *)
  Reload_Flag,
  created,       (* how many states were created                            *)
  fileOf,        (* the file each state was created for                     *)
  open,          (* the states not yet closed                               *)
  Scripts,       (* the registrants: a name and the state it belongs to     *)
  attached,      (* the script objects on game objects: name and state      *)
  stack,         (* the calls under way                                     *)
  todo,          (* the files that boot or reload has yet to load           *)
  phase,         (* "boot", "run" or "reload"                               *)
  fault          (* the undefined behaviour met, or "none"                  *)

vars == <<Lua, LuaNames, Reload_Flag, created, fileOf, open, Scripts, attached,
          stack, todo, phase, fault>>

manager == <<Lua, LuaNames, created, fileOf, open>>
scripts == <<Scripts, attached>>

Walks == {"hook", "unload", "command"}

File(L)    == [kind |-> "file", L |-> L]
Handler(L) == [kind |-> "handler", L |-> L]
Walk(kind) == [kind |-> kind, next |-> 1, len |-> Len(Lua), stale |-> FALSE]

Top        == Last(stack)
Running    == stack # <<>> /\ Top.kind \notin Walks
Quiet      == stack = <<>> /\ phase = "run"
Room(n)    == Len(stack) + n <= MaxDepth
Walking    == \E k \in 1..Len(stack) : stack[k].kind \in Walks

(* The states that are running, and those whose file is.                   *)
Active  == {stack[k].L : k \in {j \in 1..Len(stack) : stack[j].kind \notin Walks}}
Loading == {stack[k].L : k \in {j \in 1..Len(stack) : stack[j].kind = "file"}}

(* Lua has changed: the iterators of the walks over it are undefined.      *)
Stale(calls) ==
  [k \in 1..Len(calls) |-> IF calls[k].kind \in Walks THEN [calls[k] EXCEPT !.stale = TRUE] ELSE calls[k]]

(* plugin.cpp, LuaLoad: load the files of the folder.                      *)
Init ==
  /\ Lua = <<>> /\ LuaNames = <<>>
  /\ Reload_Flag = FALSE
  /\ created = 0 /\ open = {}
  /\ fileOf = [s \in States |-> "none"]
  /\ Scripts = {} /\ attached = {}
  /\ stack = <<>>
  /\ todo = Plugins /\ phase = "boot"
  /\ fault = "none"

(* A handler of state L is called, which is undefined once L is closed.    *)
Enter(calls, L) ==
  IF L \in open THEN stack' = Append(calls, Handler(L)) /\ UNCHANGED fault
                ELSE stack' = calls /\ fault' = "closed state"

-----------------------------------------------------------------------------
(* LoadLua: create a state and run the file in it.                         *)
LoadBegin(f) ==
  /\ created < MaxStates /\ Room(1)
  /\ created' = created + 1
  /\ fileOf' = [fileOf EXCEPT ![created + 1] = f]
  /\ open' = open \cup {created + 1}
  /\ stack' = Append(stack, File(created + 1))
  /\ UNCHANGED <<Lua, LuaNames>>

(* LoadLuaPlugins: the next file.                                          *)
LoadNext ==
  /\ stack = <<>> /\ todo # <<>>
  /\ LoadBegin(Head(todo))
  /\ todo' = Tail(todo)
  /\ UNCHANGED <<Reload_Flag, scripts, phase, fault>>

(* The file has run: the state and its name join the vectors.              *)
LoadDone ==
  /\ Running /\ Top.kind = "file"
  /\ Lua' = Append(Lua, Top.L)
  /\ LuaNames' = Append(LuaNames, fileOf[Top.L])
  /\ stack' = Stale(Front(stack))
  /\ UNCHANGED <<Reload_Flag, created, fileOf, open, scripts, todo, phase, fault>>

(* Slip: the state of a file that fails is not closed.                     *)
LoadFailedLeaks ==
  /\ Running /\ Top.kind = "file"
  /\ stack' = Front(stack)
  /\ UNCHANGED <<manager, Reload_Flag, scripts, todo, phase, fault>>

(* The file does not compile or fails: its state is closed.                *)
LoadFailed ==
  /\ Running /\ Top.kind = "file"
  /\ open' = open \ {Top.L}
  /\ stack' = Front(stack)
  /\ UNCHANGED <<Lua, LuaNames, Reload_Flag, created, fileOf, scripts, todo, phase, fault>>

(* Slip: loading stops before the last file.                               *)
LoadedSome ==
  /\ stack = <<>> /\ Len(todo) < 2 /\ phase # "run"
  /\ phase' = "run"
  /\ Reload_Flag' = (Reload_Flag /\ phase = "boot")
  /\ UNCHANGED <<manager, scripts, stack, todo, fault>>

(* All files are loaded.  At the end of a reload Call_Think_Hook clears    *)
(* Reload_Flag.                                                            *)
LoadedAll ==
  /\ stack = <<>> /\ todo = <<>> /\ phase # "run"
  /\ phase' = "run"
  /\ Reload_Flag' = (Reload_Flag /\ phase = "boot")
  /\ UNCHANGED <<manager, scripts, stack, todo, fault>>

-----------------------------------------------------------------------------
(* Slip: Reload_All without LuaScriptManager::Cleanup.                     *)
ThinkReloadKeeps ==
  /\ Quiet /\ Reload_Flag
  /\ open' = open \ ToSet(Lua)
  /\ Lua' = <<>>
  /\ todo' = Plugins /\ phase' = "reload"
  /\ UNCHANGED <<scripts, LuaNames, Reload_Flag, created, fileOf, stack, fault>>

(* Call_Think_Hook with Reload_Flag set, Reload_All: the registrants are   *)
(* deleted, each of which takes the state from its script objects and      *)
(* destroys them; all states are closed; LuaNames keeps what it has.       *)
ThinkReload ==
  /\ Quiet /\ Reload_Flag
  /\ Scripts' = {} /\ attached' = {}
  /\ open' = open \ ToSet(Lua)
  /\ Lua' = <<>>
  /\ todo' = Plugins /\ phase' = "reload"
  /\ UNCHANGED <<LuaNames, Reload_Flag, created, fileOf, stack, fault>>

(* A hook (OnChat, OnObjectCreate, ...; OnThink only when no reload is     *)
(* due) begins to walk over Lua with a range-for, at the top or inside     *)
(* what runs, ...                                                          *)
HookBegin ==
  /\ (Running \/ Quiet) /\ Room(2) /\ Lua # <<>>
  /\ stack' = Append(stack, Walk("hook"))
  /\ UNCHANGED <<manager, Reload_Flag, scripts, todo, phase, fault>>

AtWalk == stack # <<>> /\ Top.kind \in Walks

(* ... calls its handler in one state after the other; the iterators are   *)
(* undefined once a handler has changed Lua ...                            *)
WalkCall ==
  /\ AtWalk /\ Top.next <= Top.len
  /\ IF Top.stale
     THEN fault' = "iterator" /\ UNCHANGED stack
     ELSE Enter([stack EXCEPT ![Len(stack)].next = @ + 1], Lua[Top.next])
  /\ UNCHANGED <<manager, Reload_Flag, scripts, todo, phase>>

(* Slip: Reload_Flag is reset at the end of a hook and not of the reload.  *)
WalkEndResets ==
  /\ AtWalk /\ Top.next > Top.len
  /\ Reload_Flag' = (Top.kind = "unload")
  /\ stack' = Front(stack)
  /\ UNCHANGED <<manager, scripts, todo, phase, fault>>

(* ... and ends.  Reload_Lua then sets Reload_Flag.                        *)
WalkEnd ==
  /\ AtWalk /\ Top.next > Top.len
  /\ Reload_Flag' = (Reload_Flag \/ (~Top.stale /\ Top.kind = "unload"))
  /\ fault' = IF Top.stale THEN "iterator" ELSE fault
  /\ stack' = Front(stack)
  /\ UNCHANGED <<manager, scripts, todo, phase>>

(* ConAc leaves the loop at the first state that refuses the connection.   *)
WalkBreak ==
  /\ AtWalk /\ Top.kind = "hook" /\ Top.next > 1
  /\ stack' = Front(stack)
  /\ UNCHANGED <<manager, Reload_Flag, scripts, todo, phase, fault>>

-----------------------------------------------------------------------------
(* A registered script is attached to an object, by the engine or from     *)
(* Lua: Create makes the script object and its event Created runs.         *)
Attach ==
  /\ (Running \/ Quiet) /\ Room(1)
  /\ \E r \in Scripts : attached' = attached \cup {r} /\ Enter(stack, r.L)
  /\ UNCHANGED <<manager, Reload_Flag, Scripts, todo, phase>>

(* Another event of a script object: Killed, Timer_Expired, Custom, ...    *)
ScriptEvent ==
  /\ (Running \/ Quiet) /\ Room(1)
  /\ \E r \in attached : Enter(stack, r.L)
  /\ UNCHANGED <<manager, Reload_Flag, scripts, todo, phase>>

(* The object or the script goes: Detach leaves the registrant's list.     *)
Detach ==
  /\ (Running \/ Quiet) /\ Room(1)
  /\ \E r \in attached : attached' = attached \ {r} /\ Enter(stack, r.L)
  /\ UNCHANGED <<manager, Reload_Flag, Scripts, todo, phase>>

(* Slip: Register_Script does not look for the name.                       *)
RegisterAgain(n) ==
  /\ Running /\ "register" \in Uses
  /\ Scripts' = Scripts \cup {[name |-> n, L |-> Top.L]}
  /\ UNCHANGED <<manager, Reload_Flag, attached, stack, todo, phase, fault>>

(* The running code calls Register_Script, which refuses a taken name.     *)
RegisterScript(n) ==
  /\ Running /\ "register" \in Uses
  /\ Scripts' = IF \E r \in Scripts : r.name = n THEN Scripts
                ELSE Scripts \cup {[name |-> n, L |-> Top.L]}
  /\ UNCHANGED <<manager, Reload_Flag, attached, stack, todo, phase, fault>>

(* Slip: the states are closed at once and not by the next think.          *)
ReloadAtOnce ==
  /\ Running /\ Room(2) /\ "reload" \in Uses
  /\ Scripts' = {} /\ attached' = {}
  /\ open' = open \ ToSet(Lua) /\ Lua' = <<>>
  /\ stack' = Stale(stack)
  /\ UNCHANGED <<LuaNames, Reload_Flag, created, fileOf, todo, phase, fault>>

(* Reload_Lua: UnloadingLua in every state, and then the flag.             *)
ReloadLua ==
  /\ Running /\ Room(2) /\ "reload" \in Uses
  /\ stack' = Append(stack, Walk("unload"))
  /\ UNCHANGED <<manager, Reload_Flag, scripts, todo, phase, fault>>

(* Load_Lua.                                                               *)
LoadLua(f) ==
  /\ Running
  /\ (IF Walking THEN "load in a hook" ELSE "load in an event") \in Uses
  /\ LoadBegin(f)
  /\ UNCHANGED <<Reload_Flag, scripts, todo, phase, fault>>

(* Destroy_Lua_Thread: close the state with that index and erase it from   *)
(* Lua.  To close a state that is running is undefined.                    *)
DestroyLuaThread(i) ==
  /\ Running /\ "destroy" \in Uses
  /\ fault' = IF Lua[i] \in Active THEN "closed state" ELSE fault
  /\ open' = open \ {Lua[i]}
  /\ Lua' = RemoveAt(Lua, i)
  /\ stack' = Stale(stack)
  /\ UNCHANGED <<LuaNames, Reload_Flag, created, fileOf, scripts, todo, phase>>

(* The handler returns.                                                    *)
Return ==
  /\ Running /\ Top.kind = "handler"
  /\ stack' = Front(stack)
  /\ UNCHANGED <<manager, Reload_Flag, scripts, todo, phase, fault>>

Load == LoadNext \/ LoadDone \/ LoadFailed \/ LoadedAll
Code ==
  \/ \E n \in Names : RegisterScript(n)
  \/ ReloadLua
  \/ \E f \in Files : LoadLua(f)
  \/ \E i \in 1..Len(Lua) : DestroyLuaThread(i)
  \/ Return

Next ==
  /\ fault = "none"
  /\ \/ Load \/ ThinkReload \/ HookBegin \/ WalkCall \/ WalkEnd \/ WalkBreak
     \/ Attach \/ ScriptEvent \/ Detach \/ Code

Spec == Init /\ [][Next]_vars

(* The server goes on: what runs ends, at whatever depth, hooks reach      *)
(* their end, the files are loaded, and the server thinks.                 *)
Fairness ==
  /\ WF_vars(fault = "none" /\ (LoadNext \/ LoadedAll))
  /\ \A d \in 1..MaxDepth :
       SF_vars(fault = "none" /\ Len(stack) = d /\ (Return \/ LoadDone \/ LoadFailed \/ WalkCall \/ WalkEnd))
  /\ SF_vars(fault = "none" /\ ThinkReload)

FairSpec == Spec /\ Fairness

-----------------------------------------------------------------------------
TypeOK ==
  /\ Lua \in Seq(States) /\ LuaNames \in Seq(Files)
  /\ Reload_Flag \in BOOLEAN
  /\ created \in 0..MaxStates
  /\ fileOf \in [States -> Files \cup {"none"}]
  /\ open \subseteq States
  /\ Scripts \subseteq [name : Names, L : States] /\ attached \subseteq [name : Names, L : States]
  /\ \A k \in 1..Len(stack) :
       IF stack[k].kind \in Walks THEN stack[k].next \in 1..(stack[k].len + 1)
                                 ELSE stack[k].L \in States
  /\ todo \in Seq(Files)
  /\ phase \in {"boot", "run", "reload"}
  /\ phase = "run" => todo = <<>>
  /\ fault \in {"none", "closed state", "iterator", "freed command"}

(* No state is lost: the open states are those of the manager and those    *)
(* whose file is still running (LuaManager.cpp:1327-1357, 1378-1383).      *)
NoneLost ==
  fault = "none" =>
    open = ToSet(Lua) \cup Loading

(* What is registered by one name belongs to one state, and what is        *)
(* attached to an object was made by a registrant that still exists, with  *)
(* the same state (LuaManager.cpp:208-231, LuaManager.h:52-80).            *)
AttachedRegistered ==
  /\ \A r, s \in Scripts : r.name = s.name => r = s
  /\ attached \subseteq Scripts

(* A Reload_Lua that is not called by a file under reload is carried out   *)
(* (LuaManager.cpp:1233-1238).                                             *)
ReloadHappens == (Reload_Flag /\ phase = "run") ~> (phase = "reload" \/ fault # "none")

(* Get_Lua_By_Name "returns the internal ID used by `LuaManager` to manage *)
(* the module" (LuaFunctions.cpp:7204): the first index of a name in       *)
(* LuaNames is that of a state of this file in Lua.                        *)
IdNamesItsState ==
  \A k \in 1..Len(LuaNames) :
    (\A j \in 1..(k - 1) : LuaNames[j] # LuaNames[k])
      => (phase = "run" => k <= Len(Lua) /\ fileOf[Lua[k]] = LuaNames[k])
=============================================================================
