------------------------------ MODULE FdsLock -------------------------------
(***************************************************************************)
(* The lock between the server's main thread (FDS) and the Lua threads:    *)
(* the mutex m_lockerFDS and the condition variable m_lockCheck of         *)
(* LuaThread.cpp.  A Lua thread brackets its use of the engine by Lock and *)
(* Unlock; the main thread calls Lock_Check at the start of every think    *)
(* (Call_Think_Hook, LuaManager.cpp:1232) and runs the game in between.    *)
(*                                                                         *)
(* Lock takes the mutex and then waits on the condition variable, which    *)
(* releases it; the thread is inside its section once wait() has taken the *)
(* mutex again.  The wait has no predicate, so a spurious wake-up ends it  *)
(* too.  Unlock is called only by a thread that is inside its section.     *)
(***************************************************************************)
EXTENDS Naturals

CONSTANTS
  Workers,       (* the Lua threads                                         *)
  Leaky,         (* those whose script may end or fail inside its section   *)
  Spurious,      (* those whose wait may end without a notification         *)
  Main,          (* the server's main thread                                *)
  Free           (* m_lockerFDS when nobody holds it                        *)

ASSUME FdsLockAssumption ==
  /\ Leaky \subseteq Workers
  /\ Spurious \subseteq Workers
  /\ Main \notin Workers
  /\ Free \notin Workers \cup {Main}

VARIABLES
  m_lockerFDS,   (* the holder of the mutex, or Free                        *)
  main,          (* where the main thread is: in the game or in Lock_Check  *)
  pc             (* where each Lua thread is                                *)

vars == <<m_lockerFDS, main, pc>>

Go(w, l) == pc' = [pc EXCEPT ![w] = l]

Init ==
  /\ m_lockerFDS = Free
  /\ main = "game"
  /\ pc = [w \in Workers |-> "free"]

-----------------------------------------------------------------------------
(* Lua_Lock: m_lockerFDS.lock() and then m_lockCheck.wait(m_lockerFDS).    *)
Lock(w) ==
  /\ pc[w] = "free"
  /\ Go(w, "lock")
  /\ UNCHANGED <<m_lockerFDS, main>>

Locked(w) ==
  /\ pc[w] = "lock"
  /\ m_lockerFDS = Free
  /\ m_lockerFDS' = w
  /\ Go(w, "locked")
  /\ UNCHANGED main

(* Slip: a plain sleep, which keeps the mutex.                             *)
WaitKeeping(w) ==
  /\ pc[w] = "locked"
  /\ Go(w, "wait")
  /\ UNCHANGED <<m_lockerFDS, main>>

Wait(w) ==
  /\ pc[w] = "locked"
  /\ m_lockerFDS' = Free
  /\ Go(w, "wait")
  /\ UNCHANGED main

SpuriousWake(w) ==
  /\ w \in Spurious
  /\ pc[w] = "wait"
  /\ Go(w, "relock")
  /\ UNCHANGED <<m_lockerFDS, main>>

(* Slip: wait() returns without the mutex.                                 *)
RelockedUnguarded(w) ==
  /\ pc[w] = "relock"
  /\ m_lockerFDS' = w
  /\ Go(w, "section")
  /\ UNCHANGED main

(* wait() takes the mutex again and Lock returns to the script.            *)
Relocked(w) ==
  /\ pc[w] = "relock"
  /\ m_lockerFDS = Free
  /\ m_lockerFDS' = w
  /\ Go(w, "section")
  /\ UNCHANGED main

Unlock(w) ==
  /\ pc[w] = "section"
  /\ m_lockerFDS' = Free
  /\ Go(w, "free")
  /\ UNCHANGED main

(* The script of w ends or fails inside its section: executeThread closes  *)
(* the state and the thread is gone, and nothing unlocks the mutex.        *)
Leave(w) ==
  /\ w \in Leaky
  /\ pc[w] = "section"
  /\ Go(w, "gone")
  /\ UNCHANGED <<m_lockerFDS, main>>

-----------------------------------------------------------------------------
(* Slip: Lock_Check does not notify.                                       *)
NotifyNone ==
  /\ main = "game"
  /\ main' = "try"
  /\ UNCHANGED <<m_lockerFDS, pc>>

(* Slip: Lock_Check ignores the failure of try_lock.                       *)
TryOnly ==
  /\ main = "try"
  /\ IF m_lockerFDS = Free
     THEN m_lockerFDS' = Main /\ main' = "unlock"
     ELSE main' = "game" /\ UNCHANGED m_lockerFDS
  /\ UNCHANGED pc

(* Slip: Lock_Check does not unlock.                                       *)
MainKeeps ==
  /\ main = "unlock"
  /\ main' = "game"
  /\ UNCHANGED <<m_lockerFDS, pc>>

(* Lock_Check: notify_all, try_lock, lock if that failed, unlock.          *)
NotifyAll ==
  /\ main = "game"
  /\ main' = "try"
  /\ pc' = [w \in Workers |-> IF pc[w] = "wait" THEN "relock" ELSE pc[w]]
  /\ UNCHANGED m_lockerFDS

TryLock ==
  /\ main = "try"
  /\ IF m_lockerFDS = Free
     THEN m_lockerFDS' = Main /\ main' = "unlock"
     ELSE main' = "lock" /\ UNCHANGED m_lockerFDS
  /\ UNCHANGED pc

MainLock ==
  /\ main = "lock"
  /\ m_lockerFDS = Free
  /\ m_lockerFDS' = Main
  /\ main' = "unlock"
  /\ UNCHANGED pc

MainUnlock ==
  /\ main = "unlock"
  /\ m_lockerFDS' = Free
  /\ main' = "game"
  /\ UNCHANGED pc

LockCheck == NotifyAll \/ TryLock \/ MainLock \/ MainUnlock

Acquire(w) == Locked(w) \/ Relocked(w)
EndSection(w) == Unlock(w) \/ Leave(w)

Next ==
  \/ LockCheck
  \/ \E w \in Workers : Lock(w) \/ Acquire(w) \/ Wait(w) \/ SpuriousWake(w) \/ EndSection(w)

Spec == Init /\ [][Next]_vars

-----------------------------------------------------------------------------
TypeOK ==
  /\ m_lockerFDS \in Workers \cup {Main, Free}
  /\ main \in {"game", "try", "lock", "unlock"}
  /\ m_lockerFDS = Main <=> main = "unlock"
  /\ pc \in [Workers -> {"free", "lock", "locked", "wait", "relock", "section", "gone"}]

InSection(w) == pc[w] = "section"

(* "other threads attempting to lock will wait until we unlock"            *)
(* (LuaThread.cpp:595): two Lua threads are never inside at once, and a    *)
(* thread that left without Unlock keeps the others out.                   *)
OneSection ==
  \A v, w \in Workers :
    (InSection(v) /\ pc[w] \in {"section", "gone"}) => v = w

(* The main thread never leaves Lock_Check while a Lua thread is inside:   *)
(* a section that overlaps the game began after the last Lock_Check and    *)
(* ends before the next one does (LuaThread.cpp:620-629).                  *)
FrameStartsClear == [][main # "game" /\ main' = "game" => \A w \in Workers : ~InSection(w)]_vars

(* A worker left the mutex locked for good.                                *)
Leaked == \E w \in Workers : pc[w] = "gone" /\ m_lockerFDS = w

(* "FDS main thread will hang while our lock is in place"                  *)
(* (LuaThread.cpp:593): the game does not run while a Lua thread is inside *)
(* its section.                                                            *)
MainHangsWhileLocked == ~ (main = "game" /\ \E w \in Workers : InSection(w))
=============================================================================
