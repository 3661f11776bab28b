------------------------ MODULE ThreadRuntime_proofs ------------------------
(***************************************************************************)
(* The thread runtime for any number of Lua threads: it implements the     *)
(* lock of FdsLock, whatever its threads wait for besides, so that what is *)
(* proved of the lock holds in it; and nobody ever leaves a knot.          *)
(***************************************************************************)
EXTENDS ThreadRuntime, FdsLock_proofs

(* The runtime implements the lock (LuaThread.cpp:591-629): Demand_Data    *)
(* and Wait_Thread, at whatever point they are called, do not disturb it.  *)
THEOREM ImplementsLock == RSpec => Spec

(* Every step of the runtime is a step of the lock or leaves it alone.     *)
<1>step. [RNext]_allvars => [Next]_vars
  <2> SUFFICES ASSUME RNext, ~UNCHANGED vars PROVE Next
    BY DEF allvars
  <2>1. CASE MainStep(LockCheck)
    BY <2>1 DEF MainStep, Next
  <2>2. ASSUME NEW w \in Workers,
               Step(w, Lock(w) \/ Acquire(w) \/ Wait(w) \/ SpuriousWake(w) \/ EndSection(w))
        PROVE Next
    BY <2>2 DEF Step, Next
  <2>3. QED
    BY <2>1, <2>2 DEF RNext, End, Send, DemandData, Demanded, Joined, WaitThread

<1>1. RInit => Init
  BY DEF RInit
<1>2. QED
  BY <1>1, <1>step, PTL DEF RSpec, Spec

(* No two Lua threads are inside their sections at once in the runtime     *)
(* (LuaThread.cpp:595).                                                    *)
THEOREM RuntimeExclusion == RSpec => []OneSection
  BY ImplementsLock, MutualExclusion, PTL

(* The main thread leaves Lock_Check only while no Lua thread is inside    *)
(* its section (LuaThread.cpp:620-629), also in the runtime.               *)
THEOREM RuntimeFrameStart == RSpec => FrameStartsClear
  BY ImplementsLock, FrameStart, PTL

-----------------------------------------------------------------------------
(* The inductive invariant: types, the holder of the mutex, and that a     *)
(* Lua thread calls and ends only where its script runs.                   *)
EndedInv ==
  \A w \in Workers : /\ busy[w] = "ended" => pc[w] = "free"
                     /\ busy[w] # "no" => pc[w] \in {"free", "section"}

RInv == RTypeOK /\ HolderInv /\ EndedInv

THEOREM RInvariance == RSpec => []RInv
<1>1. RInit => RInv
  BY FdsLockAssumption, ThreadRuntimeAssumption
     DEF RInit, Init, RInv, RTypeOK, TypeOK, HolderInv, EndedInv, Agents
<1>2. RInv /\ IInv' /\ [RNext]_allvars => RInv'
  <2> USE FdsLockAssumption, ThreadRuntimeAssumption
  <2> SUFFICES ASSUME RInv, IInv', [RNext]_allvars PROVE RInv'
    OBVIOUS
  <2>1. TypeOK' /\ HolderInv'
    BY DEF IInv
  <2> USE DEF RInv, RTypeOK, EndedInv, TypeOK, Agents
  <2>2. CASE UNCHANGED allvars
    BY <2>1, <2>2 DEF allvars, vars, HolderInv
  <2>3. CASE MainStep(LockCheck)
    BY <2>1, <2>3 DEF MainStep, InNoCall, LockCheck, NotifyAll, TryLock, MainLock, MainUnlock
  <2>4. ASSUME NEW w \in Workers,
               Step(w, Lock(w) \/ Acquire(w) \/ Wait(w) \/ SpuriousWake(w) \/ EndSection(w))
        PROVE RInv'
    <3>1. UNCHANGED <<messages, busy, main>> /\ \A v \in Workers \ {w} : pc'[v] = pc[v]
      BY <2>4 DEF Step, Lock, Acquire, Locked, Relocked, Wait, SpuriousWake, EndSection, Unlock, Leave, Go
    <3>2. busy[w] = "no"
      BY <2>4 DEF Step, InNoCall
    <3> QED BY <2>1, <3>1, <3>2
  <2>5. ASSUME NEW w \in Workers, End(w) PROVE RInv'
    BY <2>1, <2>5 DEF End, InNoCall, Turns, vars
  <2>6. ASSUME NEW a \in Agents, Send(a) \/ DemandData(a) \/ Demanded(a) \/ Joined(a) PROVE RInv'
    <3>1. CASE Send(a)
      BY <2>1, <3>1 DEF Send, vars
    <3>2. CASE DemandData(a)
      BY <2>1, <3>2 DEF DemandData, Idle, InNoCall, Turns, vars
    <3>3. CASE Demanded(a)
      BY <2>1, <3>3 DEF Demanded, Turns, vars
    <3>4. CASE Joined(a)
      BY <2>1, <3>4 DEF Joined, Turns, vars
    <3> QED BY <2>6, <3>1, <3>2, <3>3, <3>4
  <2>7. ASSUME NEW a \in Agents, NEW w \in Workers, WaitThread(a, w) PROVE RInv'
    BY <2>1, <2>7 DEF WaitThread, Idle, InNoCall, Turns, vars
  <2> QED BY <2>2, <2>3, <2>4, <2>5, <2>6, <2>7 DEF RNext
<1> QED BY <1>1, <1>2, ImplementsLock, Invariance, PTL DEF RSpec

(* The types of the runtime; the main thread is in a call only in the      *)
(* game, between one Lock_Check and the next.                              *)
THEOREM RTypeCorrect == RSpec => []RTypeOK
<1>1. RInv => RTypeOK
  BY DEF RInv
<1> QED BY <1>1, RInvariance, PTL

-----------------------------------------------------------------------------

(* Nobody ever leaves a knot (LuaThread.cpp:130, LuaManager.cpp:1232),     *)
(* for any number of threads and whatever the others do.                   *)
THEOREM KnotsStay == RSpec => KnotStays
<1>1. RInv /\ [RNext]_allvars => [Knot \subseteq Knot']_allvars
  <2> SUFFICES ASSUME RInv, [RNext]_allvars, NEW k \in Knot PROVE k \in Knot'
    OBVIOUS
  <2>1. PICK S \in SUBSET Agents : k \in S /\ \A b \in S : WaitsFor(b, S)
    BY DEF Knot

(* Agents each of which waits for others among them go on waiting: none of *)
(* them takes a step, and no step of another lets one go on.               *)
  <2>2. \A b \in S : WaitsFor(b, S)'
    <3> USE <2>1
    <3> USE FdsLockAssumption, ThreadRuntimeAssumption
    <3> USE DEF RInv, RTypeOK, TypeOK, HolderInv, EndedInv, Agents, Ended
    <3>1. \A b \in Agents : Idle(b) => b \notin S /\ ~(b \in Workers /\ Ended(b))
      BY DEF Idle, InNoCall, WaitsFor
    <3>2. \A w \in Workers \cap S : ~Ended(w)
      BY DEF WaitsFor
    <3> SUFFICES ASSUME NEW a \in S PROVE WaitsFor(a, S)'
      OBVIOUS
    <3>3. WaitsFor(a, S) /\ a \in Agents
      OBVIOUS
    <3>4. CASE UNCHANGED allvars
      BY <3>3, <3>4 DEF allvars, vars, WaitsFor
    <3>5. CASE MainStep(LockCheck)
      <4>1. busy[Main] = "no" /\ UNCHANGED <<messages, busy>> /\ LockCheck
        BY <3>5 DEF MainStep, InNoCall
      <4>2. CASE NotifyAll
        <5>1. Main \notin S
          BY <3>1, <4>1, <4>2 DEF Idle, InNoCall, NotifyAll
        <5> QED BY <3>3, <4>1, <4>2, <5>1 DEF NotifyAll, WaitsFor
      <4>3. CASE TryLock
        <5>1. Main \notin S
          BY <4>1, <4>3 DEF TryLock, WaitsFor
        <5> QED BY <3>3, <4>1, <4>3, <5>1 DEF TryLock, WaitsFor
      <4>4. CASE MainLock
        <5>1. Main \notin S
          BY <4>1, <4>4 DEF MainLock, WaitsFor
        <5> QED BY <3>3, <4>1, <4>4, <5>1 DEF MainLock, WaitsFor
      <4>5. CASE MainUnlock
        <5>1. Main \notin S
          BY <4>1, <4>5 DEF MainUnlock, WaitsFor
        <5> QED BY <3>3, <4>1, <4>5, <5>1 DEF MainUnlock, WaitsFor
      <4> QED BY <4>1, <4>2, <4>3, <4>4, <4>5 DEF LockCheck
    <3>6. ASSUME NEW w \in Workers,
                 Step(w, Lock(w) \/ Acquire(w) \/ Wait(w) \/ SpuriousWake(w) \/ EndSection(w))
          PROVE WaitsFor(a, S)'
      <4>1. busy[w] = "no" /\ UNCHANGED <<messages, busy>>
        BY <3>6 DEF Step, InNoCall
      <4>2. CASE Lock(w)
        <5>1. w \notin S
          BY <3>1, <4>1, <4>2 DEF Idle, InNoCall, Lock
        <5> QED BY <3>3, <4>1, <4>2, <5>1 DEF Lock, Go, WaitsFor
      <4>3. CASE Acquire(w)
        <5>1. w \notin S
          BY <4>1, <4>3 DEF Acquire, Locked, Relocked, WaitsFor
        <5> QED BY <3>3, <4>1, <4>3, <5>1 DEF Acquire, Locked, Relocked, Go, WaitsFor
      <4>4. CASE Wait(w)
        <5>1. w \notin S
          BY <4>1, <4>4 DEF Wait, WaitsFor
        <5> QED BY <3>3, <4>1, <4>4, <5>1 DEF Wait, Go, WaitsFor
      <4>5. CASE SpuriousWake(w)
        <5>1. w \notin S
          BY <4>1, <4>5 DEF SpuriousWake, WaitsFor
        <5> QED BY <3>3, <4>1, <4>5, <5>1 DEF SpuriousWake, Go, WaitsFor
      <4>6. CASE EndSection(w)
        <5>1. w \notin S /\ pc[w] = "section"
          BY <3>1, <4>1, <4>6 DEF Idle, InNoCall, EndSection, Unlock, Leave
        <5> QED BY <3>3, <4>1, <4>6, <5>1 DEF EndSection, Unlock, Leave, Go, WaitsFor
      <4> QED BY <3>6, <4>2, <4>3, <4>4, <4>5, <4>6 DEF Step
    <3>7. ASSUME NEW w \in Workers, End(w) PROVE WaitsFor(a, S)'
      <4>1. w \notin S
        BY <3>1, <3>7 DEF End, Idle
      <4> QED BY <3>3, <3>7, <4>1 DEF End, Turns, vars, WaitsFor
    <3>8. ASSUME NEW b \in Agents, Send(b) \/ DemandData(b) \/ \E w \in Workers : WaitThread(b, w)
          PROVE WaitsFor(a, S)'
      <4>1. b \notin S /\ ~(b \in Workers /\ Ended(b))
        BY <3>1, <3>8 DEF Send, DemandData, WaitThread
      <4>2. busy[a] # "demand" \/ messages # 0
        BY <3>3, <4>1 DEF WaitsFor
      <4> QED BY <3>3, <3>8, <4>1, <4>2 DEF Send, DemandData, WaitThread, Turns, vars, WaitsFor
    <3>9. ASSUME NEW b \in Agents, Demanded(b) \/ Joined(b) PROVE WaitsFor(a, S)'
      <4>1. b \notin S
        BY <3>2, <3>9 DEF Demanded, Joined, WaitsFor
      <4>2. ~(b \in Workers /\ Ended(b))
        BY <3>9 DEF Demanded, Joined
      <4> QED BY <3>3, <3>9, <4>1, <4>2 DEF Demanded, Joined, Turns, vars, WaitsFor
    <3> QED BY <3>4, <3>5, <3>6, <3>7, <3>8, <3>9 DEF RNext
  <2> QED BY <2>1, <2>2 DEF Knot
<1> QED BY <1>1, RInvariance, PTL DEF RSpec, KnotStays
=============================================================================
