--------------------------- MODULE FdsLock_proofs ---------------------------
(***************************************************************************)
(* What the lock between the Lua threads and the main thread guarantees,   *)
(* for every set of Lua threads, with and without spurious wake-ups, and   *)
(* whichever of them end without Unlock.                                   *)
(***************************************************************************)
EXTENDS FdsLock, TLAPS

(* The strengthening: a thread at a location past an acquisition, also one *)
(* that has ended there, is the holder of the mutex.                       *)
HolderInv ==
  \A w \in Workers : pc[w] \in {"locked", "section", "gone"} => m_lockerFDS = w

IInv == TypeOK /\ HolderInv

(* The strengthening holds in every reachable state, for any set of Lua    *)
(* threads, leaky or not, and with or without spurious wake-ups.  The type *)
(* invariant alone is not inductive: that Wait and Unlock release the      *)
(* mutex of a Lua thread, and not the one the main thread holds, is what   *)
(* HolderInv says.                                                         *)
THEOREM Invariance == Spec => []IInv
<1>1. Init => IInv
  BY FdsLockAssumption DEF Init, IInv, TypeOK, HolderInv
<1>2. IInv /\ [Next]_vars => IInv'
  <2> USE FdsLockAssumption
  <2> SUFFICES ASSUME IInv, [Next]_vars PROVE IInv'
    OBVIOUS
  <2> USE DEF IInv, TypeOK, HolderInv
  <2>1. CASE LockCheck
    BY <2>1 DEF LockCheck, NotifyAll, TryLock, MainLock, MainUnlock
  <2>2. ASSUME NEW w \in Workers,
               Lock(w) \/ Acquire(w) \/ Wait(w) \/ SpuriousWake(w) \/ EndSection(w)
        PROVE IInv'
    <3> USE DEF Go
    <3>1. CASE Lock(w)
      BY <3>1 DEF Lock
    <3>2. CASE Locked(w) \/ Relocked(w)
      BY <3>2 DEF Locked, Relocked
    <3>3. CASE Wait(w)
      BY <3>3 DEF Wait
    <3>4. CASE SpuriousWake(w)
      BY <3>4 DEF SpuriousWake
    <3>5. CASE Unlock(w)
      BY <3>5 DEF Unlock
    <3>6. CASE Leave(w)
      BY <3>6 DEF Leave
    <3> QED BY <2>2, <3>1, <3>2, <3>3, <3>4, <3>5, <3>6 DEF Acquire, EndSection
  <2>3. CASE UNCHANGED vars
    BY <2>3 DEF vars
  <2> QED BY <2>1, <2>2, <2>3 DEF Next
<1> QED BY <1>1, <1>2, PTL DEF Spec

(* Every variable of the lock keeps its type, and the main thread holds    *)
(* m_lockerFDS exactly between the lock and the unlock of Lock_Check.      *)
THEOREM TypeCorrect == Spec => []TypeOK
<1>1. IInv => TypeOK
  BY DEF IInv
<1> QED BY <1>1, Invariance, PTL

(* However many Lua threads there are, two are never inside their sections *)
(* at once, and one that ended inside keeps all others out.                *)
THEOREM MutualExclusion == Spec => []OneSection
<1>1. IInv => OneSection
  BY DEF IInv, HolderInv, OneSection, InSection
<1> QED BY <1>1, Invariance, PTL

(* The main thread never comes out of Lock_Check into the game while a Lua *)
(* thread is inside its section.                                           *)
THEOREM FrameStart == Spec => FrameStartsClear
<1>1. IInv /\ [Next]_vars =>
        [main # "game" /\ main' = "game" => \A w \in Workers : ~InSection(w)]_vars
  <2> SUFFICES ASSUME IInv, Next, main # "game", main' = "game", NEW w \in Workers
               PROVE ~InSection(w)
    OBVIOUS
  <2> USE DEF IInv, TypeOK
  <2>1. main = "unlock"
    <3>1. CASE LockCheck
      BY <3>1 DEF LockCheck, NotifyAll, TryLock, MainLock, MainUnlock
    <3>2. CASE \E v \in Workers : Lock(v) \/ Acquire(v) \/ Wait(v) \/ SpuriousWake(v) \/ EndSection(v)
      BY <3>2 DEF Lock, Acquire, Locked, Relocked, Wait, SpuriousWake, EndSection, Unlock, Leave
    <3> QED BY <3>1, <3>2 DEF Next
  <2>2. m_lockerFDS = Main
    BY <2>1
  <2> QED BY <2>2, FdsLockAssumption DEF HolderInv, InSection
<1> QED BY <1>1, Invariance, PTL DEF Spec, FrameStartsClear
=============================================================================
