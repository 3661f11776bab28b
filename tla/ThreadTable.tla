---------------------------- MODULE ThreadTable -----------------------------
(***************************************************************************)
(* The table of Lua threads of LuaThread.cpp: the list m_threads, guarded  *)
(* by m_locker, of the objects (LuaThreadInternal) that New_Thread makes,  *)
(* the exit of a thread (setThreadExit) and the deferred removal of those  *)
(* that ended (CheckDeleteLater).                                          *)
(*                                                                         *)
(* A function that runs wholly under m_locker is one step, possible when   *)
(* the mutex is free.  New_Thread is two, because the new thread runs      *)
(* before its object is filled in and inserted.  Wait_Thread is three:     *)
(* it finds the list node under the mutex, reads the node after releasing  *)
(* it, and joins.  remove_if moves the objects down the list and erases    *)
(* nodes from its end, so nodes and objects are modelled apart.            *)
(*                                                                         *)
(* No receive has failed with m_locker held (Channels.Fails): after one    *)
(* every function here blocks, and so does the exit of every thread.       *)
(***************************************************************************)
EXTENDS Naturals, SequencesExt

CONSTANTS
  Main,          (* the server's main thread                                *)
  MaxThreads,    (* bound of the model: how many New_Thread calls there are *)
  Garbage        (* what the memory of a new m_delete may hold: it is never *)
                 (* initialised (LuaThread.cpp:100-115)                     *)

Ids     == 1..MaxThreads
Agents  == {Main} \cup Ids
Free    == 0
None    == 0

ASSUME ThreadTableAssumption ==
  /\ MaxThreads \in Nat
  /\ Main \notin Nat
  /\ Garbage \subseteq BOOLEAN /\ Garbage # {}

VARIABLES
  m_locker,      (* the agent that is inside New_Thread, or Free            *)
  m_id,          (* the last identifier given                               *)
  m_threads,     (* the identifiers of the objects, in list order           *)
  nodes,         (* the list nodes that hold them; a node bears the         *)
                 (* identifier of the object it was made for                *)
  obj,           (* the objects: m_running, m_error, m_delete, m_thread     *)
  life,          (* each thread: not started, running its script, in        *)
                 (* setThreadExit, or ended                                 *)
  LuaTT_threadEnabled,
  loc, want, at, (* each caller: where it is, the identifier it waits for,  *)
                 (* and the node or object it has hold of; a Lua thread     *)
                 (* whose script calls none of these functions is "barred"  *)
  fault,         (* the undefined behaviour met, or "none"                  *)
  raced          (* history: the callers in Wait_Thread under whom another  *)
                 (* caller has taken an object out of the table             *)

vars == <<m_locker, m_id, m_threads, nodes, obj, life, LuaTT_threadEnabled, loc, want, at, fault,
          raced>>

InTable(i) == i \in ToSet(m_threads)

(* Either the Lua threads manage threads too, or only the main thread.     *)
OneCaller == \A i \in Ids : loc[i] = "barred"

(* The state of an object before its constructor has run.  born keeps what *)
(* m_delete held when the object was made.                                 *)
Unborn == [running |-> FALSE, error |-> FALSE, delete |-> FALSE, thread |-> FALSE, born |-> FALSE]

Init ==
  /\ m_locker = Free
  /\ m_id = 0
  /\ m_threads = <<>> /\ nodes = <<>>
  /\ obj = [i \in Ids |-> Unborn]
  /\ life = [i \in Ids |-> "none"]
  /\ LuaTT_threadEnabled = FALSE
  /\ \E children \in {"idle", "barred"} :
       loc = [a \in Agents |-> IF a = Main THEN "idle" ELSE children]
  /\ want = [a \in Agents |-> None]
  /\ at = [a \in Agents |-> None]
  /\ fault = "none"
  /\ raced = {}

(* The first OnThink of the server enables threads (luatt.cpp:230).        *)
FirstThink ==
  /\ LuaTT_threadEnabled = FALSE /\ loc[Main] = "idle"
  /\ LuaTT_threadEnabled' = TRUE
  /\ UNCHANGED <<m_locker, m_id, m_threads, nodes, obj, life, loc, want, at, fault, raced>>

(* The main thread, and a thread whose script runs, may call a function.   *)
Ready(a) ==
  /\ a # Main => life[a] = "run"
  /\ loc[a] = "idle"

(* The callers between the find and the end of Wait_Thread, who have hold  *)
(* of a node or an object without the mutex.                               *)
Waiting == {a \in Agents : loc[a] \in {"found", "join"}}

(* Slip: remove_if without the erase.                                      *)
RemoveOnly ==
  LET kept == SelectSeq(m_threads, LAMBDA i : ~obj[i].delete)
  IN m_threads' = kept /\ nodes' = nodes /\ UNCHANGED raced

(* remove_if and erase: the objects that stay move, in their order, to the *)
(* first n nodes, the one at place from[j] to place j, and the nodes left  *)
(* over at the end of the list are erased.                                 *)
CheckDeleteLater ==
  /\ LET stay == {k \in 1..Len(m_threads) : ~obj[m_threads[k]].delete}
     IN \E n \in 0..Len(m_threads) : \E from \in [1..n -> stay] :
          /\ stay = {from[j] : j \in 1..n} /\ \A j, k \in 1..n : j < k => from[j] < from[k]
          /\ m_threads' = [j \in 1..n |-> m_threads[from[j]]]
          /\ nodes' = SubSeq(nodes, 1, n)
  /\ raced' = IF m_threads' = m_threads THEN raced ELSE raced \cup Waiting

-----------------------------------------------------------------------------
(* Slip: New_Thread without the lock_guard.                                *)
NewStartUnlocked(a) ==
  /\ Ready(a) /\ m_locker = Free /\ m_id < MaxThreads
  /\ m_id' = m_id + 1
  /\ life' = IF LuaTT_threadEnabled THEN [life EXCEPT ![m_id + 1] = "run"] ELSE life
  /\ loc' = [loc EXCEPT ![a] = "new"]
  /\ at' = [at EXCEPT ![a] = m_id + 1]
  /\ CheckDeleteLater
  /\ UNCHANGED <<m_locker, obj, LuaTT_threadEnabled, want, fault>>

(* New_Thread: purge, take the next identifier, construct the object.  The *)
(* constructor starts the thread before it sets m_error and m_running.     *)
NewStart(a) ==
  /\ Ready(a) /\ m_locker = Free /\ m_id < MaxThreads
  /\ m_locker' = a
  /\ m_id' = m_id + 1
  /\ life' = IF LuaTT_threadEnabled THEN [life EXCEPT ![m_id + 1] = "run"] ELSE life
  /\ loc' = [loc EXCEPT ![a] = "new"]
  /\ at' = [at EXCEPT ![a] = m_id + 1]
  /\ CheckDeleteLater
  /\ UNCHANGED <<obj, LuaTT_threadEnabled, want, fault>>

(* The rest of the constructor, push_back and the release of m_locker.     *)
(* Before the first think the object has no thread and an error text.      *)
NewInsert(a) ==
  /\ loc[a] = "new"
  /\ \E garbage \in Garbage :
       obj' = [obj EXCEPT ![at[a]] = [running |-> LuaTT_threadEnabled,
                                      error   |-> ~LuaTT_threadEnabled,
                                      delete  |-> garbage,
                                      thread  |-> LuaTT_threadEnabled,
                                      born    |-> garbage]]
  /\ m_threads' = Append(m_threads, at[a])
  /\ nodes' = Append(nodes, at[a])
  /\ m_locker' = Free
  /\ loc' = [loc EXCEPT ![a] = "idle"]
  /\ at' = [at EXCEPT ![a] = None]
  /\ UNCHANGED <<m_id, life, LuaTT_threadEnabled, want, fault, raced>>

(* Is_Thread_Running and Remove_Thread: Remove_Thread reads the deletion   *)
(* mark of the object (shouldDelete) and does not set it, so that both     *)
(* only purge the objects already marked.                                  *)
Purge(a) ==
  /\ Ready(a) /\ m_locker = Free
  /\ CheckDeleteLater
  /\ UNCHANGED <<m_locker, m_id, obj, life, LuaTT_threadEnabled, loc, want, at, fault, raced>>

-----------------------------------------------------------------------------
(* Slip: Wait_Thread keeps m_locker until the call is over.                *)
WaitFindLocked(a) ==
  /\ Ready(a) /\ m_locker = Free
  /\ m_locker' = a
  /\ \E k \in 1..Len(m_threads) :
       /\ want' = [want EXCEPT ![a] = m_threads[k]]
       /\ at' = [at EXCEPT ![a] = nodes[k]]
  /\ loc' = [loc EXCEPT ![a] = "found"]
  /\ UNCHANGED <<m_id, m_threads, nodes, obj, life, LuaTT_threadEnabled, fault, raced>>

(* Wait_Thread: find the object under m_locker, release it, and keep the   *)
(* iterator; an identifier that is not in the list ends the call.          *)
WaitFind(a) ==
  /\ Ready(a) /\ m_locker = Free
  /\ \E k \in 1..Len(m_threads) :
       /\ want' = [want EXCEPT ![a] = m_threads[k]]
       /\ at' = [at EXCEPT ![a] = nodes[k]]
  /\ loc' = [loc EXCEPT ![a] = "found"]
  /\ UNCHANGED <<m_locker, m_id, m_threads, nodes, obj, life, LuaTT_threadEnabled, fault, raced>>

(* The call is over: nothing is waited for any more.                       *)
EndWait(a) ==
  /\ loc' = [loc EXCEPT ![a] = "idle"]
  /\ want' = [want EXCEPT ![a] = None]
  /\ at' = [at EXCEPT ![a] = None]
  /\ raced' = raced \ {a}

(* ( *it)->waitThread(), outside the mutex: the object is the one the node *)
(* holds now.  An erased node, and an object without a thread, are         *)
(* undefined; a thread that joins itself gets an exception.                *)
WaitDeref(a) ==
  /\ loc[a] = "found"
  /\ IF at[a] \notin ToSet(nodes)
     THEN fault' = "dangling" /\ UNCHANGED <<loc, want, at, raced>>
     ELSE LET target == m_threads[CHOOSE k \in 1..Len(nodes) : nodes[k] = at[a]]
          IN IF ~obj[target].thread
             THEN fault' = "null" /\ UNCHANGED <<loc, want, at, raced>>
             ELSE /\ IF target = a
                     THEN EndWait(a)
                     ELSE /\ loc' = [loc EXCEPT ![a] = "join"]
                          /\ at' = [at EXCEPT ![a] = target]
                          /\ UNCHANGED <<want, raced>>
                  /\ UNCHANGED fault
  /\ UNCHANGED <<m_locker, m_id, m_threads, nodes, obj, life, LuaTT_threadEnabled>>

(* join() returns when the thread has ended; it then writes to the         *)
(* std::thread, which the object's destructor may have freed.              *)
WaitJoined(a) ==
  /\ loc[a] = "join" /\ life[at[a]] = "ended"
  /\ IF InTable(at[a])
     THEN EndWait(a) /\ UNCHANGED fault
     ELSE fault' = "dangling" /\ UNCHANGED <<loc, want, at, raced>>
  /\ UNCHANGED <<m_locker, m_id, m_threads, nodes, obj, life, LuaTT_threadEnabled>>

-----------------------------------------------------------------------------
(* executeThread: the script of thread i ends.                             *)
ScriptEnds(i) ==
  /\ life[i] = "run" /\ loc[i] \in {"idle", "barred"}
  /\ life' = [life EXCEPT ![i] = "exit"]
  /\ UNCHANGED <<m_locker, m_id, m_threads, nodes, obj, LuaTT_threadEnabled, loc, want, at, fault, raced>>

(* Slip: a failed thread is marked for deletion too.                       *)
ExitMarksAll(i, failed) ==
  /\ life[i] = "exit" /\ m_locker = Free
  /\ life' = [life EXCEPT ![i] = "ended"]
  /\ obj' = IF InTable(i)
            THEN [obj EXCEPT ![i].running = FALSE, ![i].error = failed, ![i].delete = TRUE]
            ELSE obj
  /\ UNCHANGED <<m_locker, m_id, m_threads, nodes, LuaTT_threadEnabled, loc, want, at, fault, raced>>

(* Slip: setThreadExit removes the object at once.                         *)
ExitErases(i, failed) ==
  /\ life[i] = "exit" /\ m_locker = Free
  /\ life' = [life EXCEPT ![i] = "ended"]
  /\ m_threads' = SelectSeq(m_threads, LAMBDA j : j # i)
  /\ nodes' = SubSeq(nodes, 1, Len(m_threads'))
  /\ UNCHANGED <<m_locker, m_id, obj, LuaTT_threadEnabled, loc, want, at, fault, raced>>

(* setThreadExit: a script that failed with a text leaves it in m_error    *)
(* and keeps its object, any other marks the object for deletion.          *)
Exit(i, failed) ==
  /\ life[i] = "exit" /\ m_locker = Free
  /\ life' = [life EXCEPT ![i] = "ended"]
  /\ obj' = IF ~InTable(i) THEN obj
            ELSE IF failed THEN [obj EXCEPT ![i].running = FALSE, ![i].error = TRUE]
            ELSE [obj EXCEPT ![i].running = FALSE, ![i].delete = TRUE]
  /\ UNCHANGED <<m_locker, m_id, m_threads, nodes, LuaTT_threadEnabled, loc, want, at, fault, raced>>

Wait(a) == WaitDeref(a) \/ WaitJoined(a)
Ends(i) == ScriptEnds(i) \/ Exit(i, TRUE) \/ Exit(i, FALSE)

Next ==
  /\ fault = "none"
  /\ \/ FirstThink
     \/ \E a \in Agents : NewStart(a) \/ NewInsert(a) \/ Purge(a) \/ WaitFind(a) \/ Wait(a)
     \/ \E i \in Ids : Ends(i)

Spec == Init /\ [][Next]_vars

(* A thread runs on when it can, and its script ends.                      *)
Fairness ==
  /\ \A a \in Agents : WF_vars(fault = "none" /\ NewInsert(a)) /\ WF_vars(fault = "none" /\ Wait(a))
  /\ \A i \in Ids : SF_vars(fault = "none" /\ Ends(i))

FairSpec == Spec /\ Fairness

-----------------------------------------------------------------------------
TypeOK ==
  /\ m_locker \in Agents \cup {Free}
  /\ m_id \in 0..MaxThreads
  /\ m_threads \in Seq(Ids) /\ nodes \in Seq(Ids) /\ Len(nodes) = Len(m_threads)
  /\ obj \in [Ids -> [running : BOOLEAN, error : BOOLEAN, delete : BOOLEAN, thread : BOOLEAN,
                     born : BOOLEAN]]
  /\ life \in [Ids -> {"none", "run", "exit", "ended"}]
  /\ LuaTT_threadEnabled \in BOOLEAN
  /\ loc \in [Agents -> {"idle", "barred", "new", "found", "join"}]
  /\ want \in [Agents -> Ids \cup {None}] /\ at \in [Agents -> Ids \cup {None}]
  /\ fault \in {"none", "null", "dangling"}
  /\ raced \subseteq Agents

(* The exit of a thread is never missed: an object in the table says       *)
(* m_running exactly until its thread has been through setThreadExit, even *)
(* if the script ends before New_Thread has inserted the object            *)
(* (LuaThread.cpp:103-107, 211-215, 571-589).                              *)
ExitRecorded ==
  \A i \in Ids : InTable(i) => (obj[i].running <=> life[i] \in {"run", "exit"})

(* Whoever calls, only a thread that ended without an error leaves the     *)
(* table, and one whose m_delete happened to be set from the start: any    *)
(* other running thread can be found, and a recorded error can be read at  *)
(* any time later (LuaThread.cpp:546-559, 578-587).                        *)
OnlyFinishedLeave ==
  [][\A i \in Ids : (InTable(i) /\ ~InTable(i)')
       => \/ life[i] = "ended" /\ ~obj[i].error
          \/ obj[i].born]_vars

(* Wait_Thread follows an iterator to an erased node, or joins a freed     *)
(* std::thread (LuaThread.cpp:231-232), only if another caller takes an    *)
(* object out of the table while it is under way; never with one caller,   *)
(* and never by the exits of threads alone.                                *)
NoDangling == fault = "dangling" => raced # {} /\ ~OneCaller

(* Whoever calls, Wait_Thread returns only after the thread it names has   *)
(* ended, but for a caller that names itself and one under whom an object  *)
(* was taken out of the table: its node may hold another thread            *)
(* (LuaThread.cpp:225-233).                                                *)
WaitMeansEnded ==
  [][\A a \in Agents : (want[a] # None /\ want'[a] = None)
       => life[want[a]] = "ended" \/ want[a] = a \/ a \in raced]_vars

(* A Wait_Thread on a thread that ends returns, too: the waiting thread    *)
(* does not hold the mutex that the exit of the other needs                *)
(* (LuaThread.cpp:231, 574).                                               *)
WaitReturns == (OneCaller /\ loc[Main] = "join") ~> (loc[Main] = "idle")
=============================================================================
