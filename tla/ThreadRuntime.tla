---------------------------- MODULE ThreadRuntime ---------------------------
(***************************************************************************)
(* The three ways in which one thread of the server waits for another,     *)
(* together: Lock and Lock_Check (FdsLock), Demand_Data on a channel and   *)
(* Wait_Thread.  Each is sound on its own; what a script can do wrong is   *)
(* to combine them, for instance to wait in the main thread for a worker   *)
(* that waits in Lock for the main thread to think.                        *)
(*                                                                         *)
(* The channel is its number of messages, and its calls are atomic         *)
(* (ChannelSpec); Get_Data has the effect of a Demand_Data that finds a    *)
(* message.  Wait_Thread is its join (ThreadTable has the rest): no thread *)
(* joins itself, and one thread is joined by one caller at a time.  All    *)
(* calls are possible outside a section, inside it, and in the game.  No   *)
(* receive fails (Channels.Fails): after one, no channel call and no end   *)
(* of a Lua thread gets past m_locker.                                     *)
(***************************************************************************)
EXTENDS FdsLock

CONSTANT MaxMessages   (* bound of the model: the size of the channel       *)

Agents == Workers \cup {Main}

ASSUME ThreadRuntimeAssumption ==
  /\ MaxMessages \in Nat
  /\ {"no", "demand", "ended"} \cap Agents = {}

VARIABLES
  messages,      (* how many messages the channel holds                     *)
  busy           (* what each agent is in: "no" call, "demand", the thread  *)
                 (* it waits for, or "ended"                                *)

allvars == <<vars, messages, busy>>

RInit == Init /\ messages = 0 /\ busy = [a \in Agents |-> "no"]

InNoCall(a) == busy[a] = "no"
Idle(a)  == InNoCall(a) /\ IF a = Main THEN main = "game" ELSE pc[a] \in {"free", "section"}
Ended(w) == busy[w] = "ended" \/ pc[w] = "gone"
Turns(a, b) == busy' = [busy EXCEPT ![a] = b]

-----------------------------------------------------------------------------
Send(a) ==
  /\ Idle(a) /\ messages < MaxMessages
  /\ messages' = messages + 1
  /\ UNCHANGED <<vars, busy>>

(* Demand_Data takes a message or waits for one.                           *)
DemandData(a) ==
  /\ Idle(a)
  /\ IF messages > 0 THEN messages' = messages - 1 /\ UNCHANGED busy
                     ELSE Turns(a, "demand") /\ UNCHANGED messages
  /\ UNCHANGED vars

(* Slip: the wait for a message is not repeated.                           *)
DemandedNothing(a) ==
  /\ busy[a] = "demand"
  /\ messages' = IF messages > 0 THEN messages - 1 ELSE 0
  /\ Turns(a, "no")
  /\ UNCHANGED vars

Demanded(a) ==
  /\ busy[a] = "demand" /\ messages > 0
  /\ messages' = messages - 1
  /\ Turns(a, "no")
  /\ UNCHANGED vars

(* Wait_Thread: join the thread, if it is still joinable.                  *)
WaitThread(a, w) ==
  /\ Idle(a) /\ a # w /\ \A b \in Agents : busy[b] # w
  /\ ~Ended(w)
  /\ Turns(a, w)
  /\ UNCHANGED <<vars, messages>>

Joined(a) ==
  /\ busy[a] \in Workers /\ Ended(busy[a])
  /\ Turns(a, "no")
  /\ UNCHANGED <<vars, messages>>

(* Slip: the end of a thread takes m_lockerFDS in place of m_locker.       *)
EndLocks(w) ==
  /\ pc[w] = "free" /\ InNoCall(w)
  /\ m_lockerFDS = Free
  /\ Turns(w, "ended")
  /\ UNCHANGED <<vars, messages>>

(* The script of w ends outside a section.                                 *)
End(w) ==
  /\ pc[w] = "free" /\ InNoCall(w)
  /\ Turns(w, "ended")
  /\ UNCHANGED <<vars, messages>>

(* The steps of FdsLock are taken by agents that are in no other call.     *)
MainStep(A) == InNoCall(Main) /\ A /\ UNCHANGED <<messages, busy>>
Step(w, A)  == InNoCall(w) /\ A /\ UNCHANGED <<messages, busy>>

RNext ==
  \/ MainStep(LockCheck)
  \/ \E w \in Workers :
       \/ Step(w, Lock(w) \/ Acquire(w) \/ Wait(w) \/ SpuriousWake(w) \/ EndSection(w))
       \/ End(w)
  \/ \E a \in Agents :
       \/ Send(a) \/ DemandData(a) \/ Demanded(a) \/ Joined(a)
       \/ \E w \in Workers : WaitThread(a, w)

RSpec == RInit /\ [][RNext]_allvars

(* The server thinks again and again unless it is in a call, sections and  *)
(* scripts end, and mutex, channel and join are given, sooner or later, to *)
(* whoever keeps asking.                                                   *)
RFairness ==
  /\ SF_allvars(MainStep(NotifyAll)) /\ WF_allvars(MainStep(TryLock \/ MainUnlock))
  /\ SF_allvars(MainStep(MainLock))
  /\ \A w \in Workers : /\ SF_allvars(Step(w, Acquire(w))) /\ WF_allvars(Step(w, Wait(w)))
                        /\ SF_allvars(Step(w, EndSection(w))) /\ SF_allvars(End(w))
  /\ \A a \in Agents : SF_allvars(Demanded(a)) /\ WF_allvars(Joined(a))

RFairSpec == RSpec /\ RFairness

-----------------------------------------------------------------------------
RTypeOK ==
  /\ TypeOK
  /\ messages \in 0..MaxMessages
  /\ busy \in [Agents -> {"no", "demand", "ended"} \cup Workers]
  /\ busy[Main] # "no" => main = "game"

(* Agent a does not go on before one of S does.                            *)
WaitsFor(a, S) ==
  \/ busy[a] = "demand" /\ messages = 0 /\ \A b \in Agents \ {a} : b \in S \/ (b \in Workers /\ Ended(b))
  \/ busy[a] \in S
  \/ /\ IF a = Main THEN main = "lock" ELSE pc[a] \in {"lock", "relock"}
     /\ \/ m_lockerFDS \in S
        \/ m_lockerFDS \in Workers /\ pc[m_lockerFDS] = "gone"
  \/ a \in Workers \ Spurious /\ pc[a] = "wait" /\ Main \in S

(* The knot: the agents each of which only others of it could let go on.   *)
Knot == UNION {S \in SUBSET Agents : \A a \in S : WaitsFor(a, S)}

(* Those that go on only if somebody sends or a wait ends spuriously, of   *)
(* which nobody can be sure.                                               *)
Held ==
  UNION {S \in SUBSET Agents :
           \A a \in S : \/ WaitsFor(a, S)
                        \/ busy[a] = "demand" /\ messages = 0
                        \/ a \in Spurious /\ pc[a] = "wait" /\ Main \in S}

(* Nobody leaves a knot: two threads that wait for each other              *)
(* (LuaThread.cpp:130), a main thread that waits for a worker in Lock      *)
(* (LuaManager.cpp:1232), a section that waits for the main thread.  Only  *)
(* a spurious wake-up opens what Lock has tied.                            *)
KnotStays == [][Knot \subseteq Knot']_allvars

(* Every Wait_Thread returns, the scripts being such that end, unless its  *)
(* caller is in a knot or behind a Demand_Data.                            *)
WaitsReturn == \A a \in Agents : busy[a] \in Workers ~> (busy[a] = "no" \/ a \in Held)

(* Every Lock is granted, however many threads compete, whatever they call *)
(* inside their sections and however the notifications fall, unless the    *)
(* caller is in a knot or behind a Demand_Data.                            *)
LockGranted == \A w \in Workers : pc[w] = "lock" ~> (InSection(w) \/ w \in Held)

(* The main thread stays in Lock_Check for ever only behind one that stays *)
(* for ever in m_lockerFDS: a Lua thread that ended without Unlock or that *)
(* waits inside its section (LuaThread.cpp:620-629).                       *)
HangExplained ==
  <>[](main = "lock") => <>[](Main \in Held /\ m_lockerFDS \in Workers
                              /\ (pc[m_lockerFDS] = "gone" \/ ~InNoCall(m_lockerFDS)))
=============================================================================
