-------------------------- MODULE Channels_proofs ---------------------------
(***************************************************************************)
(* The safety of the message channels, and that they implement atomic      *)
(* queues, for every set of threads and names and every number of          *)
(* messages.                                                               *)
(***************************************************************************)
EXTENDS Channels, SequenceTheorems, TLAPS

(* m_locker is held exactly by the thread that is inside.                  *)
HolderInv == \A t \in Threads : pc[t] \in Inside <=> m_locker = t

(* Which functions reach which location.                                   *)
LocationInv ==
  \A t \in Threads :
    /\ pc[t] \in {"wait", "relock"} => call[t].op = "Demand_Data"
    /\ pc[t] = "pop" => call[t].op \in Takes
    /\ pc[t] = "notify" => call[t].op = "Send_Data"

IInv == TypeOK /\ HolderInv /\ LocationInv /\ PopsWhatItRead /\ NoLostWakeup

(* The channel that a call names, and the messages in it.                  *)
LEMMA CallTyped ==
  ASSUME TypeOK, NEW t \in Threads, pc[t] # "idle"
  PROVE  /\ call[t] \in Calls /\ call[t].op \in Ops /\ call[t].ch \in Names
         /\ Queue(t) \in Seq(Messages)
         /\ result[t].data \in Seq(Messages)
<1>1. call[t] \in Calls
  BY DEF TypeOK
<1>2. result[t] \in Results
  BY DEF TypeOK
<1> QED BY <1>1, <1>2 DEF Calls, Queue, TypeOK, Results

-----------------------------------------------------------------------------
(* The strengthening holds in every reachable state, for any threads,      *)
(* channel names and number of messages.                                   *)
THEOREM Invariance == Spec => []IInv

(* Storing messages, or names, in the result of one call.                  *)
<1>store. ASSUME NEW r \in [Threads -> Results], NEW t \in Threads,
                 NEW s \in Seq(Messages), NEW n \in SUBSET Names
          PROVE  /\ [r EXCEPT ![t].data = s] \in [Threads -> Results]
                 /\ [r EXCEPT ![t].names = n] \in [Threads -> Results]
  <2> USE <1>store
  <2>1. [r[t] EXCEPT !.data = s] \in Results /\ [r[t] EXCEPT !.names = n] \in Results
    BY DEF Results
  <2> QED BY <2>1

<1>1. IInv /\ [Next]_vars => IInv'

(* The type invariant needs only to know that a read channel has a message *)
(* and that pushes are counted.                                            *)
  <2>1. TypeOK /\ LocationInv /\ [Next]_vars => TypeOK'
    <3> SUFFICES ASSUME TypeOK, LocationInv, [Next]_vars PROVE TypeOK'
      OBVIOUS
    <3> USE ChannelsAssumption
        DEF TypeOK, LocationInv, Goto, Queue, Results, Nothing, Locations, Calls, NoCall,
            Ops, Takes, Looks
    <3>1. ASSUME NEW t \in Threads, NEW op \in Ops, NEW c \in Names, Call(t, op, c) PROVE TypeOK'
      BY <3>1 DEF Call
    <3>2. ASSUME NEW t \in Threads, Lock(t) PROVE TypeOK'
      BY <3>2 DEF Lock
    <3>3. ASSUME NEW t \in Threads, Relock(t) PROVE TypeOK'
      BY <3>3 DEF Relock
    <3>4. ASSUME NEW t \in Threads, SpuriousWake(t) PROVE TypeOK'
      BY <3>4 DEF SpuriousWake
    <3>5. ASSUME NEW t \in Threads, Push(t) PROVE TypeOK'
      <4>1. call[t].ch \in Names /\ Queue(t) \in Seq(Messages)
        BY <3>5, CallTyped DEF Push
      <4>2. sends' \in 0..MaxSends /\ sends + 1 \in Messages
        BY <3>5 DEF Push, Messages
      <4>3. m_messages' \in [Names -> Seq(Messages)]
        <5>1. Append(Queue(t), sends + 1) \in Seq(Messages)
          BY <4>1, <4>2
        <5> QED BY <3>5, <4>1, <5>1 DEF Push
      <4>4. result' \in [Threads -> Results]
        <5>1. <<sends + 1>> \in Seq(Messages)
          BY <4>2
        <5> QED BY <3>5, <5>1, <1>store, {} \in SUBSET Names DEF Push
      <4>5. /\ UNCHANGED <<m_locker, call>> /\ channels' \in SUBSET Names
            /\ pc' \in [Threads -> Locations]
            /\ \A u \in Threads : call'[u] = NoCall <=> pc'[u] = "idle"
        BY <3>5, <4>1 DEF Push
      <4> QED BY <4>2, <4>3, <4>4, <4>5
    <3>6. ASSUME NEW t \in Threads, Refuse(t) PROVE TypeOK'
      BY <3>6 DEF Refuse
    <3>7. ASSUME NEW t \in Threads, NotifyAll(t) PROVE TypeOK'
      BY <3>7 DEF NotifyAll
    <3>8. ASSUME NEW t \in Threads, Read(t) PROVE TypeOK'
      <4>1. Queue(t) \in Seq(Messages) /\ Queue(t) # <<>> /\ result[t].data \in Seq(Messages)
        BY <3>8, CallTyped DEF Read
      <4>2. Append(result[t].data, Head(Queue(t))) \in Seq(Messages)
        BY <4>1
      <4>3. result' \in [Threads -> Results]
        BY <3>8, <4>2, <1>store, {} \in SUBSET Names DEF Read
      <4> QED BY <3>8, <4>3 DEF Read
    <3>9. ASSUME NEW t \in Threads, Pop(t) PROVE TypeOK'
      <4>1. call[t].ch \in Names /\ Queue(t) \in Seq(Messages) /\ Queue(t) # <<>>
        BY <3>9, CallTyped DEF Pop
      <4>2. m_messages' \in [Names -> Seq(Messages)]
        <5>1. Tail(Queue(t)) \in Seq(Messages)
          BY <4>1
        <5> QED BY <3>9, <4>1, <5>1 DEF Pop
      <4> QED BY <3>9, <4>2 DEF Pop
    <3>10. ASSUME NEW t \in Threads, Empty(t) PROVE TypeOK'
      BY <3>10 DEF Empty
    <3>11. ASSUME NEW t \in Threads, Wait(t) PROVE TypeOK'
      BY <3>11 DEF Wait
    <3>12. ASSUME NEW t \in Threads, Look(t) PROVE TypeOK'
      <4>1. Queue(t) \in Seq(Messages)
        BY <3>12, CallTyped DEF Look
      <4>2. Queue(t) # <<>> => <<Head(Queue(t))>> \in Seq(Messages)
        BY <4>1
      <4>3. result' \in [Threads -> Results]
        BY <3>12, <4>1, <4>2, <1>store, {} \in SUBSET Names DEF Look, Given
      <4> QED BY <3>12, <4>3 DEF Look
    <3>13. ASSUME NEW t \in Threads, GetAllChannels(t) PROVE TypeOK'
      <4>1. result' \in [Threads -> Results]
        BY <3>13, <1>store, <<>> \in Seq(Messages) DEF GetAllChannels
      <4> QED BY <3>13, <4>1 DEF GetAllChannels
    <3>14. ASSUME NEW t \in Threads, Unlock(t) PROVE TypeOK'
      BY <3>14 DEF Unlock
    <3>15. ASSUME NEW t \in Threads, Fails(t) PROVE TypeOK'
      BY <3>15 DEF Fails
    <3>16. CASE UNCHANGED vars
      BY <3>16 DEF vars
    <3> QED
      BY <3>1, <3>2, <3>3, <3>4, <3>5, <3>6, <3>7, <3>8, <3>9, <3>10, <3>11, <3>12, <3>13,
         <3>14, <3>15, <3>16
      DEF Next, Acquire, Hold

(* The mutex: one thread is inside, and each function passes only its own  *)
(* locations.                                                              *)
  <2>2. TypeOK /\ HolderInv /\ LocationInv /\ [Next]_vars => (HolderInv /\ LocationInv)'
    <3> SUFFICES ASSUME TypeOK, HolderInv, LocationInv, [Next]_vars
                 PROVE  (HolderInv /\ LocationInv)'
      OBVIOUS
    <3> USE ChannelsAssumption
        DEF TypeOK, HolderInv, LocationInv, Goto, Inside, Locations, NoCall, Takes
    <3>1. ASSUME NEW t \in Threads, NEW op \in Ops, NEW c \in Names, Call(t, op, c)
          PROVE (HolderInv /\ LocationInv)'
      BY <3>1 DEF Call
    <3>2. ASSUME NEW t \in Threads, Acquire(t) PROVE (HolderInv /\ LocationInv)'
      BY <3>2 DEF Acquire, Lock, Relock
    <3>3. ASSUME NEW t \in Threads, SpuriousWake(t) PROVE (HolderInv /\ LocationInv)'
      BY <3>3 DEF SpuriousWake
    <3>4. ASSUME NEW t \in Threads, Push(t) \/ Refuse(t) PROVE (HolderInv /\ LocationInv)'
      BY <3>4 DEF Push, Refuse
    <3>5. ASSUME NEW t \in Threads, NotifyAll(t) PROVE (HolderInv /\ LocationInv)'
      BY <3>5 DEF NotifyAll
    <3>6. ASSUME NEW t \in Threads, Read(t) \/ Pop(t) \/ Empty(t) PROVE (HolderInv /\ LocationInv)'
      BY <3>6 DEF Read, Pop, Empty
    <3>7. ASSUME NEW t \in Threads, Wait(t) PROVE (HolderInv /\ LocationInv)'
      BY <3>7 DEF Wait
    <3>8. ASSUME NEW t \in Threads, Look(t) \/ GetAllChannels(t) \/ Fails(t)
          PROVE (HolderInv /\ LocationInv)'
      BY <3>8 DEF Look, GetAllChannels, Fails
    <3>9. ASSUME NEW t \in Threads, Unlock(t) PROVE (HolderInv /\ LocationInv)'
      BY <3>9 DEF Unlock
    <3>10. CASE UNCHANGED vars
      BY <3>10 DEF vars
    <3> QED
      BY <3>1, <3>2, <3>3, <3>4, <3>5, <3>6, <3>7, <3>8, <3>9, <3>10 DEF Next, Hold

(* A step of a thread that does not hold the mutex, and one of the holder, *)
(* leave what another thread has read alone: only the holder is at "pop".  *)
  <2>3. IInv /\ [Next]_vars => PopsWhatItRead'
    <3> SUFFICES ASSUME IInv, [Next]_vars, NEW u \in Threads, (pc[u] = "pop")'
                 PROVE  (/\ Queue(u) # <<>>
                         /\ result[u].data # <<>>
                         /\ Head(Queue(u)) = Last(result[u].data))'
      BY DEF PopsWhatItRead
    <3> USE DEF IInv, HolderInv, Goto, Inside
    <3>t. TypeOK /\ pc \in [Threads -> Locations]
      BY DEF TypeOK
    <3>1. CASE pc[u] = "pop"
      <4>1. m_locker = u
        BY <3>1
      <4>2. /\ Queue(u) # <<>> /\ result[u].data # <<>>
            /\ Head(Queue(u)) = Last(result[u].data)
        BY <3>1 DEF PopsWhatItRead
      <4>3. UNCHANGED <<m_messages, call[u], result[u]>>
        <5>1. ASSUME NEW t \in Threads, NEW op \in Ops, NEW c \in Names, Call(t, op, c)
              PROVE UNCHANGED <<m_messages, call[u], result[u]>>
          BY <5>1, <3>1 DEF Call, TypeOK
        <5>2. ASSUME NEW t \in Threads, Acquire(t) \/ SpuriousWake(t)
              PROVE UNCHANGED <<m_messages, call[u], result[u]>>
          BY <5>2 DEF Acquire, Lock, Relock, SpuriousWake
        <5>3. ASSUME NEW t \in Threads, Hold(t)
              PROVE UNCHANGED <<m_messages, call[u], result[u]>>
          <6>1. pc[t] \in Inside
            BY <5>3 DEF Hold, Push, Refuse, NotifyAll, Read, Pop, Empty, Wait, Look,
                        GetAllChannels, Fails, Unlock
          <6>2. t = u
            BY <6>1, <4>1
          <6>3. Pop(u)
            BY <5>3, <6>2, <3>1 DEF Hold, Push, Refuse, NotifyAll, Read, Empty, Wait, Look,
                                    GetAllChannels, Fails, Unlock
          <6>4. pc'[u] # "pop"
            BY <6>3, <3>t DEF Pop
          <6> QED BY <6>4
        <5>4. CASE UNCHANGED vars
          BY <5>4 DEF vars
        <5> QED BY <5>1, <5>2, <5>3, <5>4 DEF Next
      <4> QED BY <4>2, <4>3 DEF Queue
    <3>2. CASE pc[u] # "pop"
      <4>1. Read(u)
        <5>1. ASSUME NEW t \in Threads, pc'[u] # pc[u], NotifyAll(t)
              PROVE FALSE
          BY <5>1, <3>2, <3>t DEF NotifyAll
        <5> QED
          BY <5>1, <3>2, <3>t
          DEF Next, Call, Acquire, Lock, Relock, SpuriousWake, Hold, Push, Refuse, Read, Pop,
              Empty, Wait, Look, GetAllChannels, Fails, Unlock, vars
      <4>2. /\ Queue(u) \in Seq(Messages) /\ Queue(u) # <<>>
            /\ result[u].data \in Seq(Messages) /\ result[u] \in Results
        BY <4>1, <3>t, CallTyped DEF Read, TypeOK
      <4>3. result'[u].data = Append(result[u].data, Head(Queue(u)))
        BY <4>1, <4>2 DEF Read, TypeOK, Results
      <4>4. result'[u].data # <<>> /\ Last(result'[u].data) = Head(Queue(u))
        <5>1. Head(Queue(u)) \in Messages
          BY <4>2
        <5> QED BY <4>2, <4>3, <5>1 DEF Last
      <4>5. Queue(u)' = Queue(u)
        BY <4>1 DEF Read, Queue
      <4> QED BY <4>2, <4>4, <4>5 DEF Last
    <3> QED BY <3>1, <3>2

(* Only Push makes a channel non-empty under a sleeping Demand_Data, and   *)
(* the thread that pushed is then at its notification with the mutex held. *)
  <2>4. IInv /\ [Next]_vars => NoLostWakeup'
    <3> SUFFICES ASSUME IInv, [Next]_vars, NEW u \in Threads, pc'[u] = "wait", Queue(u)' # <<>>
                 PROVE  \E v \in Threads : m_locker' = v /\ pc'[v] = "notify"
      BY DEF NoLostWakeup
    <3> USE DEF Goto
    <3>t. pc \in [Threads -> Locations] /\ call \in [Threads -> Calls \cup {NoCall}]
      BY DEF IInv, TypeOK
    <3>h. \A t \in Threads : pc[t] \in Inside <=> m_locker = t
      BY DEF IInv, HolderInv
    <3>w. (pc[u] = "wait" /\ Queue(u) # <<>>) =>
            \E v \in Threads : m_locker = v /\ pc[v] = "notify"
      BY DEF IInv, NoLostWakeup
    <3>1. ASSUME NEW t \in Threads, NEW op \in Ops, NEW c \in Names, Call(t, op, c)
          PROVE  \E v \in Threads : m_locker' = v /\ pc'[v] = "notify"
      <4>1. t # u /\ pc[u] = "wait"
        BY <3>1, <3>t DEF Call
      <4>2. Queue(u)' = Queue(u)
        BY <3>1, <3>t, <4>1 DEF Call, Queue
      <4> QED BY <3>1, <3>t, <3>w, <4>1, <4>2 DEF Call
    <3>2. ASSUME NEW t \in Threads, Acquire(t)
          PROVE  \E v \in Threads : m_locker' = v /\ pc'[v] = "notify"
      <4>1. m_locker = Free /\ pc[u] = "wait" /\ Queue(u)' = Queue(u)
        BY <3>2, <3>t DEF Acquire, Lock, Relock, Queue
      <4> QED BY <4>1, <3>w, ChannelsAssumption
    <3>3. ASSUME NEW t \in Threads, SpuriousWake(t)
          PROVE  \E v \in Threads : m_locker' = v /\ pc'[v] = "notify"
      <4>1. t # u /\ pc[u] = "wait" /\ Queue(u)' = Queue(u)
        BY <3>3, <3>t DEF SpuriousWake, Queue
      <4> QED BY <3>3, <3>t, <3>w, <4>1 DEF SpuriousWake
    <3>4. ASSUME NEW t \in Threads, Push(t)
          PROVE  \E v \in Threads : m_locker' = v /\ pc'[v] = "notify"
      <4>1. m_locker = t
        BY <3>4, <3>h DEF Push, Inside
      <4> QED BY <3>4, <3>t, <4>1 DEF Push
    <3>5. ASSUME NEW t \in Threads, NotifyAll(t)
          PROVE  \E v \in Threads : m_locker' = v /\ pc'[v] = "notify"
      BY <3>5, <3>t DEF NotifyAll
    <3>6. ASSUME NEW t \in Threads, Wait(t)
          PROVE  \E v \in Threads : m_locker' = v /\ pc'[v] = "notify"
      <4>1. m_locker = t /\ Queue(u)' = Queue(u)
        BY <3>6, <3>h DEF Wait, Inside, Queue
      <4>2. t # u /\ pc[u] = "wait"
        BY <3>6, <3>t, <4>1 DEF Wait
      <4> QED BY <3>6, <3>w, <4>1, <4>2 DEF Wait
    <3>7. ASSUME NEW t \in Threads,
                 \/ Refuse(t) \/ Read(t) \/ Pop(t) \/ Empty(t)
                 \/ Look(t) \/ GetAllChannels(t) \/ Fails(t) \/ Unlock(t)
          PROVE  FALSE
      <4>1. m_locker = t /\ pc[t] # "notify"
        BY <3>7, <3>h DEF Refuse, Read, Pop, Empty, Look, GetAllChannels, Fails, Unlock, Inside
      <4>2. t # u /\ pc[u] = "wait"
        BY <3>7, <3>t DEF Refuse, Read, Pop, Empty, Look, GetAllChannels, Fails, Unlock
      <4>3. Queue(u) = <<>>
        BY <3>w, <4>1, <4>2
      <4>4. call'[u] = call[u]
        BY <3>7, <3>t, <4>2 DEF Refuse, Read, Pop, Empty, Look, GetAllChannels, Fails, Unlock
      <4>5. CASE Pop(t)
        <5>1. Queue(t) # <<>> /\ call[t].ch # call[u].ch
          BY <4>3, <4>5 DEF Pop, Queue
        <5>2. m_messages'[call[u].ch] = m_messages[call[u].ch]
          BY <4>2, <4>5, <5>1, CallTyped DEF Pop, IInv, TypeOK
        <5> QED BY <4>3, <4>4, <5>2 DEF Queue
      <4>6. CASE UNCHANGED m_messages
        BY <4>3, <4>4, <4>6 DEF Queue
      <4> QED BY <3>7, <4>5, <4>6 DEF Refuse, Read, Empty, Look, GetAllChannels, Fails, Unlock
    <3>8. CASE UNCHANGED vars
      BY <3>8, <3>w DEF vars, Queue
    <3> QED BY <3>1, <3>2, <3>3, <3>4, <3>5, <3>6, <3>7, <3>8 DEF Next, Hold
  <2> QED BY <2>1, <2>2, <2>3, <2>4 DEF IInv
<1>2. Init => IInv
  BY ChannelsAssumption
  DEF Init, IInv, TypeOK, HolderInv, LocationInv, PopsWhatItRead, NoLostWakeup, Queue,
      Results, Nothing, Inside, Locations
<1> QED BY <1>1, <1>2, PTL DEF Spec

(* Every variable of the channels keeps its type: calls return messages    *)
(* that were sent, and a thread has a call exactly while it is in one.     *)
THEOREM TypeCorrect == Spec => []TypeOK
<1>1. IInv => TypeOK
  BY DEF IInv
<1> QED BY <1>1, Invariance, PTL

(* However many threads take messages at once, what a call pops and        *)
(* deletes is the message it has returned.                                 *)
THEOREM PopSafe == Spec => []PopsWhatItRead
<1>1. IInv => PopsWhatItRead
  BY DEF IInv
<1> QED BY <1>1, Invariance, PTL

(* However many threads and channels there are, no Demand_Data sleeps on a *)
(* message that nobody is about to announce.                               *)
THEOREM WakeupSafe == Spec => []NoLostWakeup
<1>1. IInv => NoLostWakeup
  BY DEF IInv
<1> QED BY <1>1, Invariance, PTL

-----------------------------------------------------------------------------
(* The channels implement the atomic queues that ChannelSpec promises: the *)
(* refinement mapping of module Channels, step by step.  The start of a    *)
(* call is a request; taking m_locker, or pushing a message, makes a       *)
(* channel known; releasing m_locker is the effect of the call; the other  *)
(* steps are invisible.                                                    *)

(* A call that the channels have not served yet has nothing to return.     *)
Unserved == {"lock", "wait", "relock"}

(* What a call has put on its Lua stack at each location: a call that does *)
(* not hold m_locker, nothing; a call about to return, what it promises.   *)
ResultOK(t) ==
  /\ pc[t] \in Unserved => result[t] = Nothing
  /\ pc[t] \in Inside /\ call[t].op # "Get_All_Channels" => result[t].names = {}
  /\ pc[t] = "body" /\ call[t].op # "Get_All_Data" => result[t].data = <<>>
  /\ pc[t] = "pop" /\ call[t].op # "Get_All_Data" => Len(result[t].data) = 1
  /\ pc[t] = "notify" => Pushed(t)
  /\ Pushed(t) => /\ Queue(t) # <<>>
                  /\ result[t].data = <<sends>>
                  /\ Last(Queue(t)) = sends

(* What a call that is about to return has got.                            *)
ReturnOK(t) == pc[t] = "unlock" =>
  /\ call[t].op = "Get_Data" => \/ Queue(t) = <<>> /\ result[t].data = <<>>
                                \/ Len(result[t].data) = 1
  /\ call[t].op = "Demand_Data" => Len(result[t].data) = 1
  /\ call[t].op = "Get_All_Data" => Queue(t) = <<>>
  /\ call[t].op = "Peek_Data" /\ Queue(t) = <<>> => result[t].data = <<>>
  /\ call[t].op = "Peek_Data" /\ Queue(t) # <<>> => result[t].data = <<Head(Queue(t))>>
  /\ call[t].op = "Peek_All_Data" => result[t].data = Queue(t)
  /\ call[t].op = "Get_All_Channels" => result[t] = [data |-> <<>>, names |-> channels]

(* The channel a call works on is a key of m_messages.                     *)
KnownOK(t) ==
  /\ call[t].op \in Takes \cup Looks /\ pc[t] # "lock" => call[t].ch \in channels
  /\ Pushed(t) => call[t].ch \in channels

Served(t) == ResultOK(t) /\ ReturnOK(t) /\ KnownOK(t)

ResultInv == \A t \in Threads : Served(t)

(* Nothing that a call has collected is a message it cannot make.          *)
SoundInv == \A t \in Threads : call[t].op \in Takes \cup Looks => Sound(result[t].data)

(* The steps of a thread, apart from the start of a call.                  *)
Step(t) == Acquire(t) \/ SpuriousWake(t) \/ Hold(t)

(* The front and the last element of a sequence.  To pop the message that  *)
(* was read last moves it, and no other.                                   *)
LEMMA FrontLast ==
  ASSUME NEW S, NEW s \in Seq(S)
  PROVE  /\ \A e \in S : Front(Append(s, e)) = s
         /\ s # <<>> => Front(s) \in Seq(S) /\ Last(s) \in S /\ Append(Front(s), Last(s)) = s
         /\ \A q \in Seq(S) : s # <<>> /\ q # <<>> /\ Head(q) = Last(s) => Front(s) \o q = s \o Tail(q)
<1>1. ASSUME NEW e \in S PROVE Front(Append(s, e)) = s
  BY <1>1 DEF Front
<1>2. ASSUME s # <<>> PROVE Front(s) \in Seq(S) /\ Last(s) \in S /\ Append(Front(s), Last(s)) = s
  BY <1>2 DEF Front, Last
<1>3. ASSUME NEW q \in Seq(S), s # <<>>, q # <<>>, Head(q) = Last(s)
      PROVE  Front(s) \o q = s \o Tail(q)
  <2> USE <1>3
  <2> DEFINE a == Front(s) \o q
             b == s \o Tail(q)
  <2>1. /\ a \in Seq(S) /\ Len(a) = Len(s) + Len(q) - 1
        /\ b \in Seq(S) /\ Len(b) = Len(s) + Len(q) - 1
    BY <1>3 DEF Front
  <2>2. ASSUME NEW i \in 1 .. (Len(s) + Len(q) - 1) PROVE a[i] = b[i]
    <3>1. CASE i < Len(s)
      BY <3>1 DEF Front
    <3>2. CASE i = Len(s)
      BY <3>2 DEF Front, Last
    <3>3. CASE i > Len(s)
      <4>1. a[i] = q[i - Len(s) + 1]
        BY <3>3 DEF Front
      <4>2. b[i] = q[i - Len(s) + 1]
        BY <3>3
      <4> QED BY <4>1, <4>2
    <3>4. Len(s) \in Nat /\ Len(q) \in Nat
      OBVIOUS
    <3> HIDE DEF a, b
    <3> QED BY <3>1, <3>2, <3>3, <3>4
  <2> HIDE DEF a, b
  <2>3. a = b
    BY <2>1, <2>2, SeqEqual
  <2> QED BY <2>3 DEF a, b
<1> QED BY <1>1, <1>2, <1>3

(* What the refinement mapping gives for sent, answer and queue.           *)
AbstractSent == IF m_locker # Free /\ Pushed(m_locker) THEN sends - 1 ELSE sends
AbstractAnswer == [t \in Threads |-> IF pc[t] = "idle" THEN result[t] ELSE Nothing]
AbstractQueues == [c \in Names |-> AbstractQueue(c)]

(* What the abstract queue of the channel named by the holder's call holds. *)
View(t) == IF Pushed(t) THEN Front(Queue(t)) ELSE Popped(t) \o Queue(t)

(* The channels implement the atomic queues of ChannelSpec, for any number *)
(* of threads, names and messages: a call of LuaThread.cpp:359-508 takes   *)
(* effect at the instant it releases m_locker, and a receive that fails    *)
(* (538) takes no more than Get_All_Data had popped and is the last to take*)
(* effect.                                                                 *)
THEOREM Refinement == Spec => AtomicQueues

(* What ResultInv says of every call holds in every reachable state.       *)
<1>results. Spec => []ResultInv
  <2>1. Init => ResultInv
    BY DEF Init, ResultInv, Served, ResultOK, ReturnOK, KnownOK, Unserved, Inside, Pushed,
           NoCall, Takes, Looks
  <2>2. IInv /\ ResultInv /\ [Next]_vars => ResultInv'
    <3> SUFFICES ASSUME IInv, ResultInv, [Next]_vars, NEW u \in Threads PROVE Served(u)'
      BY DEF ResultInv
    <3>1. Served(u)
      BY DEF ResultInv
    <3>2. ASSUME NEW t \in Threads, Step(t) \/ \E op \in Ops, c \in Names : Call(t, op, c)
          PROVE  Served(u)'
      (* A thread leaves what another has collected as it is.                *)
      <4>1. CASE u # t
        <5> USE <3>1, <3>2, <4>1
        <5>t. /\ pc \in [Threads -> Locations] /\ result \in [Threads -> Results]
              /\ call \in [Threads -> Calls \cup {NoCall}]
          BY DEF IInv, TypeOK
        <5>h. \A v \in Threads : pc[v] \in Inside <=> m_locker = v
          BY DEF IInv, HolderInv
        <5>w. pc[u] = "wait" => call[u].op = "Demand_Data"
          BY DEF IInv, LocationInv
        <5>1. UNCHANGED <<call[u], result[u]>>
          BY <5>t DEF Step, Call, Acquire, Lock, Relock, SpuriousWake, Hold, Push, Refuse, NotifyAll,
                   Read, Pop, Empty, Wait, Look, GetAllChannels, Fails, Unlock
        <5>2. pc'[u] = pc[u] \/ (pc[u] = "wait" /\ pc'[u] = "relock")
          BY <5>t DEF Step, Call, Acquire, Lock, Relock, SpuriousWake, Hold, Push, Refuse, NotifyAll,
                   Read, Pop, Empty, Wait, Look, GetAllChannels, Fails, Unlock, Goto
        <5>3. channels \subseteq channels'
          BY DEF Step, Call, Acquire, Lock, Relock, SpuriousWake, Hold, Push, Refuse, NotifyAll,
                 Read, Pop, Empty, Wait, Look, GetAllChannels, Fails, Unlock
        <5>4. CASE pc[u] \notin Inside
          BY <5>1, <5>2, <5>3, <5>4, <5>w
          DEF Served, ResultOK, ReturnOK, KnownOK, Pushed, Inside, Unserved, Takes
        <5>5. CASE pc[u] \in Inside
          <6>1. m_locker = u /\ m_locker # Free
            BY <5>5, <5>h, ChannelsAssumption
          <6>2. ~Hold(t) /\ ~Acquire(t)
            BY <6>1, <5>h DEF Hold, Acquire, Lock, Relock, Push, Refuse, NotifyAll, Read, Pop, Empty,
                              Wait, Look, GetAllChannels, Fails, Unlock, Inside
          <6>3. UNCHANGED <<m_messages, channels, sends>>
            BY <6>2 DEF Step, SpuriousWake, Call
          <6>4. pc'[u] = pc[u]
            BY <5>2, <5>5 DEF Inside
          <6> QED
            BY <5>1, <6>3, <6>4
            DEF Served, ResultOK, ReturnOK, KnownOK, Pushed, Inside, Unserved, Queue, Takes
        <5> QED BY <5>4, <5>5
  (* And each step keeps its own call's part valid.                          *)
      <4>2. ASSUME u = t PROVE Served(t)'
        <5>s. Served(t)
          BY <3>1, <4>2
        <5> USE <3>2, <5>s
        <5> USE DEF Goto, Served, ResultOK, ReturnOK, KnownOK, Unserved, Inside, Pushed, Takes, Looks, Nothing
        <5>t. /\ pc \in [Threads -> Locations] /\ result \in [Threads -> Results]
              /\ call \in [Threads -> Calls \cup {NoCall}]
              /\ m_messages \in [Names -> Seq(Messages)]
              /\ sends \in Nat
          BY ChannelsAssumption DEF IInv, TypeOK
        <5>l. /\ pc[t] \in {"wait", "relock"} => call[t].op = "Demand_Data"
              /\ pc[t] = "pop" => call[t].op \in Takes
              /\ pc[t] = "notify" => call[t].op = "Send_Data"
          BY DEF IInv, LocationInv
        <5>c. pc[t] # "idle" => /\ call[t].op \in Ops /\ call[t].ch \in Names
                                /\ Queue(t) \in Seq(Messages)
                                /\ result[t].data \in Seq(Messages)
          BY CallTyped DEF IInv
        <5>1. CASE \E op \in Ops, c \in Names : Call(t, op, c)
          BY <5>1, <5>t DEF Call
        <5>2. CASE Lock(t)
          BY <5>2, <5>t DEF Lock
        <5>3. CASE Relock(t)
          BY <5>3, <5>t, <5>l DEF Relock
        <5>4. CASE SpuriousWake(t)
          BY <5>4, <5>t, <5>l DEF SpuriousWake
        <5>5. CASE Push(t)
          <6>1. result'[t].data = <<sends + 1>> /\ result'[t].names = {}
            BY <5>5, <5>t DEF Push, Results
          <6>2. Queue(t)' = Append(Queue(t), sends + 1)
            BY <5>5, <5>t, <5>c DEF Push, Queue
          <6>3. Queue(t)' # <<>> /\ Last(Queue(t)') = sends'
            <7>1. pc[t] # "idle" /\ sends' = sends + 1
              BY <5>5 DEF Push
            <7>2. Queue(t) \in Seq(Messages)
              BY <5>c, <7>1
            <7>3. Len(Queue(t)') = Len(Queue(t)) + 1 /\ Queue(t)'[Len(Queue(t)) + 1] = sends + 1
              BY <6>2, <7>2
            <7> QED BY <6>2, <7>1, <7>2, <7>3 DEF Last
          <6> QED BY <5>5, <5>t, <6>1, <6>3 DEF Push, Last
        <5>6. CASE Refuse(t)
          BY <5>6, <5>t DEF Refuse
        <5>7. CASE NotifyAll(t)
          BY <5>7, <5>t, <5>l DEF NotifyAll, Queue
        <5>8. CASE Read(t)
          <6>1. result'[t].data = Append(result[t].data, Head(Queue(t))) /\ result'[t].names = {}
            BY <5>8, <5>t DEF Read, Results
          <6>2. call[t].op # "Get_All_Data" => Len(result'[t].data) = 1
            BY <5>8, <6>1, <5>c DEF Read
          <6> QED BY <5>8, <5>t, <6>1, <6>2 DEF Read
        <5>9. CASE Pop(t)
          <6>1. /\ call[t].op \in Takes /\ call'[t] = call[t] /\ result'[t] = result[t]
                /\ pc'[t] = IF call[t].op = "Get_All_Data" THEN "body" ELSE "unlock"
                /\ channels' = channels
            BY <5>9, <5>t, <5>l DEF Pop
          <6>2. pc[t] = "pop"
            BY <5>9 DEF Pop
          <6>3. call[t].ch \in channels /\ result[t].names = {}
            BY <6>1, <6>2
          <6>4. call[t].op # "Get_All_Data" => Len(result[t].data) = 1
            BY <6>2
          <6>5. ~Pushed(t)'
            BY <6>1
          <6>6. ResultOK(t)'
            BY <6>1, <6>3, <6>5
          <6>7. ReturnOK(t)'
            BY <6>1, <6>4
          <6>8. KnownOK(t)'
            BY <6>1, <6>3, <6>5
          <6> QED BY <6>6, <6>7, <6>8
        <5>10. CASE Empty(t)
          BY <5>10, <5>t, <5>c DEF Empty, Queue
        <5>11. CASE Wait(t)
          BY <5>11, <5>t DEF Wait, Results
        <5>12. CASE Look(t)
          <6>1. /\ result'[t].names = {}
                /\ result'[t].data = IF call[t].op = "Peek_All_Data" \/ Queue(t) = <<>> THEN Queue(t)
                                     ELSE <<Head(Queue(t))>>
            BY <5>12, <5>t DEF Look, Given, Results
          <6>2. Queue(t)' = Queue(t)
            BY <5>12 DEF Look, Queue
          <6> QED BY <5>12, <5>t, <6>1, <6>2 DEF Look
        <5>13. CASE GetAllChannels(t)
          BY <5>13, <5>t DEF GetAllChannels, Results
        <5>14. CASE Unlock(t)
          BY <5>14, <5>t DEF Unlock, NoCall
        <5>15. CASE Fails(t)
          BY <5>15, <5>t DEF Fails
        <5> QED BY <5>1, <5>2, <5>3, <5>4, <5>5, <5>6, <5>7, <5>8, <5>9, <5>10, <5>11, <5>12, <5>13,
                   <5>14, <5>15 DEF Step, Acquire, Hold
      <4> QED BY <4>1, <4>2
    <3>3. CASE UNCHANGED vars
      BY <3>1, <3>3 DEF vars, Served, ResultOK, ReturnOK, KnownOK, Pushed, Queue
    <3> QED BY <3>2, <3>3 DEF Next, Step
  <2> QED BY <2>1, <2>2, Invariance, PTL DEF Spec

(* A call has collected nothing that ReturnDataLua could not make.         *)
<1>sound. Spec => []SoundInv
  <2>1. Init => SoundInv
    BY DEF Init, SoundInv, NoCall, Takes, Looks
  <2>2. IInv /\ SoundInv /\ [Next]_vars => SoundInv'
    <3> SUFFICES ASSUME IInv, SoundInv, [Next]_vars, NEW u \in Threads,
                        call'[u].op \in Takes \cup Looks
                 PROVE  Sound(result'[u].data)
      BY DEF SoundInv
    <3>t. /\ pc \in [Threads -> Locations] /\ result \in [Threads -> Results]
          /\ call \in [Threads -> Calls \cup {NoCall}]
      BY DEF IInv, TypeOK
    <3>1. CASE UNCHANGED <<call[u], result[u]>>
      BY <3>1 DEF SoundInv
    <3>2. ASSUME NEW op \in Ops, NEW c \in Names, Call(u, op, c) PROVE Sound(result'[u].data)
      BY <3>2, <3>t DEF Call, Nothing, Sound
    <3>3. CASE Read(u)
      <4>1. /\ result[u].data \in Seq(Messages) /\ Queue(u) \in Seq(Messages) /\ Queue(u) # <<>>
            /\ Sound(result[u].data)
        BY <3>3, CallTyped DEF Read, IInv, SoundInv
      <4>2. Given(u) = <<Head(Queue(u))>>
        BY <3>3 DEF Read, Given, Takes
      <4>3. Head(Queue(u)) \notin Failing
        BY <3>3, <4>2 DEF Read, Sound
      <4>4. result'[u].data = Append(result[u].data, Head(Queue(u)))
        BY <3>3, <3>t DEF Read, Results
      <4> QED BY <4>1, <4>3, <4>4 DEF Sound
    <3>4. CASE Look(u)
      BY <3>4, <3>t DEF Look, Results
    <3>5. CASE Push(u) \/ GetAllChannels(u) \/ Unlock(u)
      BY <3>5, <3>t DEF Push, GetAllChannels, Unlock, NoCall, Takes, Looks
    <3>6. \/ UNCHANGED <<call[u], result[u]>>
          \/ \E op \in Ops, c \in Names : Call(u, op, c)
          \/ Read(u) \/ Look(u) \/ Push(u) \/ GetAllChannels(u) \/ Unlock(u)
      BY <3>t DEF Next, Call, Acquire, Lock, Relock, SpuriousWake, Hold, Push, Refuse, NotifyAll,
                  Read, Pop, Empty, Wait, Look, GetAllChannels, Fails, Unlock, vars
    <3> QED BY <3>1, <3>2, <3>3, <3>4, <3>5, <3>6
  <2> QED BY <2>1, <2>2, Invariance, PTL DEF Spec

(* Only a failing receive breaks the channels, and it keeps m_locker: while*)
(* another thread is inside, or nobody, no receive has failed.             *)
<1>whole. ASSUME IInv, NEW t \in Threads, m_locker = Free \/ m_locker = t, pc[t] # "failed"
          PROVE  ~Broken
  BY <1>whole, ChannelsAssumption DEF Broken, IInv, HolderInv, Inside
<1>kept. ASSUME TypeOK, NEW t \in Threads, Step(t), ~Fails(t), pc[t] # "failed"
         PROVE  Broken' <=> Broken
  <2>1. pc \in [Threads -> Locations]
    BY <1>kept DEF TypeOK
  <2>2. pc'[t] # "failed"
    BY <1>kept, <2>1
    DEF Step, Acquire, Lock, Relock, SpuriousWake, Hold, Push, Refuse, NotifyAll, Read, Pop,
        Empty, Wait, Look, GetAllChannels, Unlock, Goto
  <2>3. \A u \in Threads : u # t => (pc'[u] = "failed" <=> pc[u] = "failed")
    BY <1>kept, <2>1
    DEF Step, Acquire, Lock, Relock, SpuriousWake, Hold, Push, Refuse, NotifyAll, Read, Pop,
        Empty, Wait, Look, GetAllChannels, Unlock, Goto
  <2> QED BY <1>kept, <2>2, <2>3 DEF Broken

(* The steps a script cannot see: those that the refinement maps to        *)
(* stuttering.                                                             *)
<1>stutter. ASSUME IInv, ResultInv, NEW t \in Threads,
                   \/ Relock(t) \/ SpuriousWake(t) \/ Refuse(t) \/ NotifyAll(t) \/ Read(t) \/ Pop(t)
                   \/ Empty(t) \/ Wait(t) \/ Look(t) \/ GetAllChannels(t)
            PROVE  UNCHANGED Abstract!vars
  <2> USE <1>stutter
  <2>t. /\ pc \in [Threads -> Locations] /\ result \in [Threads -> Results]
        /\ call \in [Threads -> Calls \cup {NoCall}]
        /\ m_messages \in [Names -> Seq(Messages)]
        /\ sends \in Nat
    BY ChannelsAssumption DEF IInv, TypeOK
  <2>h. \A v \in Threads : pc[v] \in Inside <=> m_locker = v
    BY DEF IInv, HolderInv
  <2>c. pc[t] # "idle" => /\ call[t].op \in Ops /\ call[t].ch \in Names
                          /\ Queue(t) \in Seq(Messages)
                          /\ result[t].data \in Seq(Messages)
    BY CallTyped DEF IInv
  <2>r. Served(t)
    BY DEF ResultInv
  <2>l. pc[t] = "pop" => call[t].op \in Takes
    BY DEF IInv, LocationInv
  <2>1. channels' = channels /\ call' = call /\ sends' = sends
    BY DEF Relock, SpuriousWake, Refuse, NotifyAll, Read, Pop, Empty, Wait, Look, GetAllChannels
  <2>k. Broken' = Broken
    <3>1. Step(t) /\ ~Fails(t) /\ pc[t] # "failed"
      BY <2>t DEF Step, Acquire, Hold, Fails, Relock, SpuriousWake, Refuse, NotifyAll, Read, Pop,
                  Empty, Wait, Look, GetAllChannels, Goto
    <3> QED BY <3>1, <1>kept DEF IInv, Broken
  <2>2. AbstractAnswer' = AbstractAnswer
    <3>1. ASSUME NEW u \in Threads
          PROVE  /\ pc'[u] = "idle" <=> pc[u] = "idle"
                 /\ pc[u] = "idle" => result'[u] = result[u]
      BY <2>t DEF Relock, SpuriousWake, Refuse, NotifyAll, Read, Pop, Empty, Wait, Look,
                  GetAllChannels, Goto
    <3> QED BY <3>1 DEF AbstractAnswer
  <2>3. \A v \in Threads : m_locker = v => v # Free
    BY ChannelsAssumption
  <2>4. CASE SpuriousWake(t)
    <3>1. m_locker # t /\ \A u \in Threads : u # t => pc'[u] = pc[u]
      BY <2>4, <2>t, <2>h DEF SpuriousWake, Inside, Goto
    <3>2. UNCHANGED <<m_locker, m_messages, call, result>>
      BY <2>4 DEF SpuriousWake
    <3>3. m_locker # Free => m_locker \in Threads /\ pc'[m_locker] = pc[m_locker]
      BY <3>1 DEF IInv, TypeOK
    <3>4. AbstractSent' = AbstractSent
      BY <2>1, <3>2, <3>3 DEF AbstractSent, Pushed
    <3>5. AbstractQueues' = AbstractQueues
      BY <2>1, <3>2, <3>3 DEF AbstractQueues, AbstractQueue, Pushed, Popped
    <3> QED BY <2>1, <2>2, <2>k, <3>4, <3>5 DEF Abstract!vars, AbstractSent, AbstractAnswer, AbstractQueues
  <2>5. CASE Relock(t)
    <3>1. /\ m_locker = Free /\ m_locker' = t /\ t # Free /\ m_messages' = m_messages
          /\ pc'[t] = "body" /\ call[t].op = "Demand_Data" /\ result'[t].data = <<>>
      BY <2>5, <2>t, <2>r, ChannelsAssumption
      DEF Relock, Goto, Served, ResultOK, Unserved, Nothing, IInv, LocationInv
    <3>2. ~Pushed(t)' /\ Popped(t)' = <<>>
      BY <2>1, <3>1 DEF Pushed, Popped, Takes
    <3>3. AbstractQueues' = AbstractQueues
      BY <2>t, <3>1, <3>2, ConcatEmptySeq DEF AbstractQueues, AbstractQueue
    <3>4. AbstractSent' = AbstractSent
      BY <2>1, <3>1, <3>2 DEF AbstractSent
    <3> QED BY <2>1, <2>2, <2>k, <3>3, <3>4 DEF Abstract!vars, AbstractSent, AbstractAnswer, AbstractQueues
  <2>6. CASE Wait(t)
    <3>1. /\ m_locker = t /\ m_locker' = Free /\ t # Free /\ m_messages' = m_messages
          /\ pc[t] = "body" /\ call[t].op = "Demand_Data" /\ result[t].data = <<>>
      BY <2>6, <2>h, <2>r, ChannelsAssumption
      DEF Wait, Served, ResultOK, Inside
    <3>2. ~Pushed(t) /\ Popped(t) = <<>>
      BY <3>1 DEF Pushed, Popped, Takes
    <3>3. AbstractQueues' = AbstractQueues
      BY <2>t, <3>1, <3>2, ConcatEmptySeq DEF AbstractQueues, AbstractQueue
    <3>4. AbstractSent' = AbstractSent
      BY <2>1, <3>1, <3>2 DEF AbstractSent
    <3> QED BY <2>1, <2>2, <2>k, <3>3, <3>4 DEF Abstract!vars, AbstractSent, AbstractAnswer, AbstractQueues
  <2>7. CASE \/ Refuse(t) \/ NotifyAll(t) \/ Read(t) \/ Pop(t) \/ Empty(t) \/ Look(t)
             \/ GetAllChannels(t)
    <3>1. m_locker = t /\ m_locker' = t /\ t # Free
      BY <2>7, <2>h, ChannelsAssumption
      DEF Refuse, NotifyAll, Read, Pop, Empty, Look, GetAllChannels, Inside
    <3>2. Pushed(t)' <=> Pushed(t)
      <4>1. CASE Refuse(t)
        BY <4>1, <2>t, <2>r DEF Refuse, Pushed, Served, ResultOK
      <4>2. CASE NotifyAll(t)
        BY <4>2, <2>t DEF NotifyAll, Pushed
      <4>3. CASE Read(t) \/ Pop(t) \/ Empty(t) \/ Look(t) \/ GetAllChannels(t)
        <5>1. call[t].op # "Send_Data"
          BY <4>3, <2>l DEF Read, Pop, Empty, Look, GetAllChannels, Takes, Looks
        <5> QED BY <2>1, <5>1 DEF Pushed
      <4> QED BY <2>7, <4>1, <4>2, <4>3
    <3>3. \A c \in Names : c # call[t].ch => m_messages'[c] = m_messages[c]
      BY <2>7, <2>t DEF Refuse, NotifyAll, Read, Pop, Empty, Look, GetAllChannels
    <3>4. View(t)' = View(t)
      <4>1. CASE Refuse(t) \/ NotifyAll(t) \/ Empty(t) \/ Look(t) \/ GetAllChannels(t)
        <5>1. Queue(t)' = Queue(t)
          BY <4>1 DEF Refuse, NotifyAll, Empty, Look, GetAllChannels, Queue
        <5>2. Popped(t)' = Popped(t)
          BY <4>1, <2>t
          DEF Refuse, NotifyAll, Empty, Look, GetAllChannels, Popped, Goto, Takes, Looks
        <5> QED BY <3>2, <5>1, <5>2 DEF View
      <4>2. CASE Read(t)
        <5>1. /\ Queue(t)' = Queue(t) /\ ~Pushed(t) /\ ~Pushed(t)'
              /\ Popped(t) = result[t].data /\ Popped(t)' = Front(result'[t].data)
          BY <4>2, <3>2, <2>t DEF Read, Queue, Popped, Pushed, Goto, Takes
        <5>2. result'[t].data = Append(result[t].data, Head(Queue(t)))
          BY <4>2, <2>t DEF Read, Results
        <5>3. Front(result'[t].data) = result[t].data
          <6>1. Head(Queue(t)) \in Messages /\ result[t].data \in Seq(Messages)
            BY <4>2, <2>c DEF Read
          <6>2. \A e \in Messages : Front(Append(result[t].data, e)) = result[t].data
            BY <6>1, FrontLast
          <6> QED BY <5>2, <6>1, <6>2
        <5> QED BY <5>1, <5>3 DEF View
      <4>3. CASE Pop(t)
        <5>1. /\ Queue(t)' = Tail(Queue(t)) /\ ~Pushed(t) /\ ~Pushed(t)'
              /\ Popped(t) = Front(result[t].data) /\ Popped(t)' = result[t].data
          <6>1. pc[t] = "pop" /\ pc'[t] \in {"body", "unlock"} /\ call[t].op \in Takes
            BY <4>3, <2>t, <2>l DEF Pop, Goto
          <6>2. Queue(t)' = Tail(Queue(t))
            BY <4>3, <2>t, <2>c DEF Pop, Queue
          <6>3. UNCHANGED result[t]
            BY <4>3 DEF Pop
          <6> QED BY <6>1, <6>2, <6>3, <3>2, <2>1 DEF Popped, Pushed, Takes
        <5>2. /\ Queue(t) # <<>> /\ result[t].data # <<>>
              /\ Head(Queue(t)) = Last(result[t].data)
          BY <4>3 DEF Pop, IInv, PopsWhatItRead
        <5>3. Front(result[t].data) \o Queue(t) = result[t].data \o Tail(Queue(t))
          <6>1. result[t].data \in Seq(Messages) /\ Queue(t) \in Seq(Messages)
            BY <4>3, <2>c DEF Pop
          <6> QED BY <5>2, <6>1, FrontLast
        <5> QED BY <5>1, <5>3 DEF View
      <4> QED BY <2>7, <4>1, <4>2, <4>3
    <3>5. AbstractQueues' = AbstractQueues
      BY <2>1, <3>1, <3>3, <3>4 DEF AbstractQueues, AbstractQueue, View, Queue
    <3>6. AbstractSent' = AbstractSent
      BY <2>1, <3>1, <3>2 DEF AbstractSent
    <3> QED BY <2>1, <2>2, <2>k, <3>5, <3>6 DEF Abstract!vars, AbstractSent, AbstractAnswer, AbstractQueues
  <2> QED BY <2>4, <2>5, <2>6, <2>7

(* Taking m_locker makes the channel of a call known, and so does a push,  *)
(* which is not to be seen yet; other calls stutter.                       *)
<1>open. ASSUME IInv, ResultInv, NEW t \in Threads, Lock(t) \/ Push(t)
         PROVE  Abstract!Open(t) \/ UNCHANGED Abstract!vars
  <2> USE <1>open
  <2>t. /\ pc \in [Threads -> Locations] /\ result \in [Threads -> Results]
        /\ call \in [Threads -> Calls \cup {NoCall}]
        /\ m_messages \in [Names -> Seq(Messages)]
        /\ sends \in Nat
    BY ChannelsAssumption DEF IInv, TypeOK
  <2>h. (pc[t] \in Inside <=> m_locker = t) /\ t # Free
    BY ChannelsAssumption DEF IInv, HolderInv
  <2>c. /\ call[t].op \in Ops /\ call[t].ch \in Names
        /\ Queue(t) \in Seq(Messages)
    BY CallTyped DEF IInv, Lock, Push
  <2>r. Served(t)
    BY DEF ResultInv
  <2>1. AbstractAnswer' = AbstractAnswer
    BY <2>t DEF Lock, Push, Goto, AbstractAnswer
  <2>2. call' = call /\ m_locker' = t
    BY <2>h DEF Lock, Push, Inside
  <2>k. ~Broken /\ Broken' = Broken
    <3>1. Step(t) /\ ~Fails(t) /\ pc[t] # "failed" /\ (m_locker = Free \/ m_locker = t)
      BY <2>t, <2>h DEF Step, Acquire, Hold, Fails, Lock, Push, Goto, Inside
    <3> QED BY <3>1, <1>kept, <1>whole DEF IInv, Broken
  <2>3. CASE Lock(t)
    <3>1. /\ m_locker = Free /\ UNCHANGED <<m_messages, sends>> /\ pc'[t] = "body"
          /\ result'[t].data = <<>>
      BY <2>3, <2>t, <2>r DEF Lock, Goto, Served, ResultOK, Unserved, Nothing
    <3>2. ~Pushed(t)' /\ Popped(t)' = <<>>
      BY <3>1 DEF Pushed, Popped
    <3>3. AbstractQueues' = AbstractQueues
      BY <2>t, <2>2, <3>1, <3>2, ConcatEmptySeq DEF AbstractQueues, AbstractQueue
    <3>4. AbstractSent' = AbstractSent
      BY <2>2, <3>1, <3>2 DEF AbstractSent
    <3>5. channels' = IF call[t].op \in Takes \cup Looks THEN channels \cup {call[t].ch}
                      ELSE channels
      BY <2>3 DEF Lock
    <3>6. Takes \cup Looks \subseteq Abstract!Ops \ {"Get_All_Channels"}
      BY DEF Takes, Looks, Abstract!Ops, Abstract!Takes
    <3> QED
      BY <2>1, <2>2, <2>k, <3>3, <3>4, <3>5, <3>6
      DEF Abstract!Open, Abstract!vars, AbstractQueues, AbstractSent, AbstractAnswer
  <2>4. CASE Push(t)
    <3>1. /\ m_locker = t /\ pc[t] = "body" /\ pc'[t] = "notify" /\ call[t].op = "Send_Data"
          /\ sends' = sends + 1 /\ channels' = channels \cup {call[t].ch}
          /\ m_messages' = [m_messages EXCEPT ![call[t].ch] = Append(@, sends + 1)]
          /\ result[t].data = <<>>
          /\ sends + 1 \in Messages
      BY <2>4, <2>t, <2>h, <2>r, ChannelsAssumption
      DEF Push, Goto, Inside, Served, ResultOK, Messages
    <3>2. result'[t].data # <<>>
      BY <2>4, <2>t DEF Push, Results
    <3>3. ~Pushed(t) /\ Pushed(t)' /\ Popped(t) = <<>>
      BY <2>2, <3>1, <3>2 DEF Pushed, Popped, Takes
    <3>4. AbstractSent' = AbstractSent
      BY <2>t, <2>h, <2>2, <3>1, <3>3 DEF AbstractSent
    <3>5. View(t)' = View(t)
      <4>1. Queue(t)' = Append(Queue(t), sends + 1)
        BY <2>2, <2>t, <2>c, <3>1 DEF Queue
      <4>2. \A e \in Messages : Front(Append(Queue(t), e)) = Queue(t)
        BY <2>c, FrontLast
      <4>3. <<>> \o Queue(t) = Queue(t)
        BY <2>c
      <4> QED BY <3>1, <3>3, <4>1, <4>2, <4>3 DEF View
    <3>6. \A c \in Names : c # call[t].ch => m_messages'[c] = m_messages[c]
      BY <2>t, <3>1
    <3>7. AbstractQueues' = AbstractQueues
      BY <2>h, <2>2, <3>1, <3>5, <3>6 DEF AbstractQueues, AbstractQueue, View, Queue
    <3> QED
      BY <2>1, <2>2, <2>k, <3>1, <3>4, <3>7
      DEF Abstract!Open, Abstract!Ops, AbstractQueues, AbstractSent, AbstractAnswer
  <2> QED BY <2>3, <2>4

(* The release of m_locker is the instant at which a call takes effect.    *)
<1>effect. ASSUME IInv, ResultInv, SoundInv, NEW t \in Threads, Unlock(t)
           PROVE  Abstract!Effect(t)
  <2> USE <1>effect
  <2> DEFINE c == call[t].ch
             op == call[t].op
             data == result[t].data
  <2>t. /\ pc \in [Threads -> Locations] /\ result \in [Threads -> Results]
        /\ call \in [Threads -> Calls \cup {NoCall}]
        /\ m_messages \in [Names -> Seq(Messages)]
        /\ sends \in 0..MaxSends
    BY DEF IInv, TypeOK
  <2>h. m_locker = t /\ t # Free
    BY ChannelsAssumption DEF Unlock, IInv, HolderInv, Inside
  <2>c. /\ op \in Ops /\ c \in Names
        /\ Queue(t) \in Seq(Messages) /\ data \in Seq(Messages)
    BY CallTyped DEF IInv, Unlock
  <2>r. Served(t) /\ pc[t] = "unlock"
    BY DEF ResultInv, Unlock
  <2>k. ~Broken /\ Broken' = Broken
    <3>1. Step(t) /\ ~Fails(t)
      BY <2>t, <2>r DEF Step, Hold, Fails
    <3> QED BY <3>1, <2>h, <2>r, <1>kept, <1>whole DEF IInv, Broken
  (* One message before a queue is its head, and the queue is the rest.      *)
  <2>b. ASSUME NEW s \in Seq(Messages), NEW q \in Seq(Messages), Len(s) = 1
        PROVE  s \o q # <<>> /\ Tail(s \o q) = q /\ s = <<Head(s \o q)>>
    <3>1. /\ s \o q \in Seq(Messages) /\ Len(s \o q) = 1 + Len(q) /\ s \o q # <<>>
          /\ (s \o q)[1] = s[1]
      BY <2>b, ConcatProperties
    <3>2. s = <<s[1]>>
      BY <2>b
    <3>3. Tail(s \o q) \in Seq(Messages) /\ Len(Tail(s \o q)) = Len(q)
      BY <3>1
    <3>4. ASSUME NEW i \in 1..Len(q) PROVE Tail(s \o q)[i] = q[i]
      BY <2>b, <3>1
    <3>5. Tail(s \o q) = q
      BY <3>3, <3>4, SeqEqual
    <3> QED BY <3>1, <3>2, <3>5
  <2>1. /\ m_locker' = Free /\ UNCHANGED <<m_messages, channels, sends, result>>
        /\ call' = [call EXCEPT ![t] = Abstract!NoCall]
    BY DEF Unlock, NoCall, Abstract!NoCall
  <2>2. AbstractAnswer' = [AbstractAnswer EXCEPT ![t] = [data |-> data, names |-> result[t].names]]
    <3>1. AbstractAnswer' = [AbstractAnswer EXCEPT ![t] = result[t]]
      BY <2>t DEF Unlock, Goto, AbstractAnswer
    <3>2. result[t] = [data |-> data, names |-> result[t].names]
      BY <2>t DEF Results
    <3> QED BY <3>1, <3>2
  <2>3. AbstractQueues' = [AbstractQueues EXCEPT ![c] = Queue(t)]
    BY <2>t, <2>h, <2>1, <2>c DEF AbstractQueues, AbstractQueue, Queue
  <2>4. AbstractQueues[c] = View(t) /\ AbstractSent' = sends
    BY <2>h, <2>1, <2>c DEF AbstractQueues, AbstractQueue, View, Queue, AbstractSent
  <2>5. CASE Pushed(t)
    <3>1. AbstractSent = sends - 1
      BY <2>h, <2>5 DEF AbstractSent
    <3>2. data = <<sends>> /\ Queue(t) # <<>> /\ Last(Queue(t)) = sends /\ c \in channels
          /\ result[t].names = {} /\ op = "Send_Data"
      BY <2>5, <2>r DEF Served, ResultOK, KnownOK, Inside, Pushed
    <3>3. Append(View(t), sends) = Queue(t)
      BY <2>5, <2>c, <3>2, FrontLast DEF View
    <3>4. AbstractSent < MaxSends /\ AbstractSent + 1 = sends
      BY <2>t, <3>1, ChannelsAssumption
    <3>5. sends - 1 < MaxSends /\ (sends - 1) + 1 = sends
      BY <3>1, <3>4
    <3> HIDE DEF c, op, data
    <3>6. /\ AbstractQueues' = [AbstractQueues EXCEPT ![c] = Append(AbstractQueues[c], AbstractSent + 1)]
          /\ AbstractAnswer' = [AbstractAnswer EXCEPT ![t] = [data |-> <<AbstractSent + 1>>, names |-> {}]]
      BY <2>2, <2>3, <2>4, <3>2, <3>3, <3>4
    <3>7. AbstractSent' = AbstractSent + 1
      BY <2>4, <3>4
    <3> USE DEF c, op, data
    <3> QED
      BY <2>1, <2>k, <3>2, <3>4, <3>6, <3>7
      DEF Abstract!Effect, Abstract!Return, Abstract!Ops, AbstractQueues, AbstractSent,
          AbstractAnswer
  <2>6. CASE ~Pushed(t)
    <3>1. AbstractSent = sends /\ View(t) = Popped(t) \o Queue(t)
      BY <2>h, <2>6 DEF AbstractSent, View
    <3>2. AbstractSent' = AbstractSent /\ (op # "Get_All_Channels" => result[t].names = {})
      BY <2>4, <2>r, <3>1 DEF Served, ResultOK, Inside
    <3>q. <<>> \o Queue(t) = Queue(t) /\ data \o <<>> = data
      BY <2>c
    <3> DEFINE q == AbstractQueues[c]
    <3>3. /\ AbstractQueues' = [AbstractQueues EXCEPT ![c] = Queue(t)]
          /\ q = Popped(t) \o Queue(t)
      BY <2>3, <2>4, <3>1
    <3>k. op \in Takes \cup Looks => c \in channels /\ Abstract!Sound(data)
      BY <2>r DEF Served, KnownOK, SoundInv, Sound, Abstract!Sound
    <3> SUFFICES
          \/ op \in {"Send_Data", "Get_All_Channels"} /\ Queue(t) = q /\ data = <<>>
             /\ (op = "Get_All_Channels" => result[t].names = channels)
          \/ op \in Takes /\ \/ op # "Get_All_Data" /\ q # <<>> /\ Queue(t) = Tail(q)
                                /\ data = Abstract!First(q)
                             \/ op = "Get_Data" /\ q = <<>> /\ Queue(t) = q /\ data = <<>>
                             \/ op = "Get_All_Data" /\ Queue(t) = <<>> /\ data = q
          \/ op = "Peek_Data" /\ Queue(t) = q /\ data = Abstract!First(q)
          \/ op = "Peek_All_Data" /\ Queue(t) = q /\ data = q
      <4>1. op \in Abstract!Ops /\ Takes = Abstract!Takes
        BY <2>c DEF Ops, Looks, Takes, Abstract!Ops, Abstract!Takes
      <4> HIDE DEF c, op, data, q
      <4>2. \/ op = "Send_Data" /\ Queue(t) = q /\ data = <<>> /\ result[t].names = {}
            \/ /\ op \in Takes /\ c \in channels /\ result[t].names = {}
               /\ \/ op # "Get_All_Data" /\ q # <<>> /\ Queue(t) = Tail(q)
                      /\ data = Abstract!First(q) /\ Abstract!Sound(Abstract!First(q))
                  \/ op = "Get_Data" /\ q = <<>> /\ Queue(t) = q /\ data = <<>>
                  \/ op = "Get_All_Data" /\ Queue(t) = <<>> /\ data = q /\ Abstract!Sound(q)
            \/ op = "Peek_Data" /\ c \in channels /\ Queue(t) = q /\ data = Abstract!First(q)
               /\ result[t].names = {} /\ Abstract!Sound(Abstract!First(q))
            \/ op = "Peek_All_Data" /\ c \in channels /\ Queue(t) = q /\ data = q
               /\ result[t].names = {} /\ Abstract!Sound(q)
            \/ op = "Get_All_Channels" /\ Queue(t) = q /\ data = <<>> /\ result[t].names = channels
        BY <3>2, <3>k DEF Looks, Takes
      <4> USE DEF c, op, data, q
      <4> QED
        BY <2>1, <2>2, <2>k, <3>2, <3>3, <4>1, <4>2
        DEF Abstract!Effect, Abstract!Return, AbstractQueues, AbstractSent, AbstractAnswer
    <3>4. CASE op \in Looks \cup {"Send_Data", "Get_All_Channels"}
      <4>1. q = Queue(t)
        BY <3>3, <3>4, <3>q DEF Popped, Takes, Looks
      <4>2. op = "Send_Data" => data = <<>>
        BY <2>6, <2>r DEF Pushed
      <4>3. op = "Get_All_Channels" => result[t].names = channels /\ data = <<>>
        BY <2>r DEF Served, ReturnOK
      <4>4. op = "Peek_Data" => data = Abstract!First(q)
        BY <2>r, <4>1 DEF Served, ReturnOK, Abstract!First
      <4>5. op = "Peek_All_Data" => data = q
        BY <2>r, <4>1 DEF Served, ReturnOK
      <4> QED BY <3>4, <4>1, <4>2, <4>3, <4>4, <4>5 DEF Looks
    <3>5. CASE op \in Takes
      <4>1. q = data \o Queue(t)
        BY <2>r, <3>3, <3>5 DEF Popped
      <4>2. CASE op = "Get_All_Data"
        <5>1. Queue(t) = <<>>
          BY <2>r, <4>2 DEF Served, ReturnOK
        <5> QED BY <3>5, <3>q, <4>1, <4>2, <5>1
      <4>3. CASE op = "Get_Data" /\ data = <<>>
        <5>1. Queue(t) = <<>>
          BY <2>r, <4>3 DEF Served, ReturnOK
        <5> QED BY <3>5, <3>q, <4>1, <4>3, <5>1
      <4>4. CASE op # "Get_All_Data" /\ data # <<>>
        <5>1. Len(data) = 1
          BY <2>r, <3>5, <4>4 DEF Served, ReturnOK, Takes
        <5>2. q # <<>> /\ Tail(q) = Queue(t) /\ data = <<Head(q)>>
          <6> HIDE DEF data, q
          <6> QED BY <2>b, <2>c, <4>1, <5>1
        <5>3. data = Abstract!First(q) /\ Queue(t) = Tail(q)
          BY <5>2 DEF Abstract!First
        <5> HIDE DEF data, op, q
        <5> QED BY <3>5, <4>4, <5>2, <5>3
      <4>5. op = "Demand_Data" => data # <<>>
        <5>1. op = "Demand_Data" => Len(data) = 1
          BY <2>r DEF Served, ReturnOK
        <5>2. Len(data) = 1 => data # <<>>
          OBVIOUS
        <5> QED BY <5>1, <5>2
      <4> QED BY <3>5, <4>2, <4>3, <4>4, <4>5 DEF Takes
    <3> QED BY <2>c, <3>4, <3>5 DEF Ops
  <2> QED BY <2>5, <2>6

(* A receive that fails leaves its channel from the message it cannot make *)
(* on, and no other call takes effect after it.                            *)
<1>fail. ASSUME IInv, ResultInv, SoundInv, NEW t \in Threads, Fails(t)
         PROVE  Abstract!Fail(t)
  <2> USE <1>fail
  <2> DEFINE c == call[t].ch
             op == call[t].op
             data == result[t].data
             q == AbstractQueues[c]
  <2>t. /\ pc \in [Threads -> Locations] /\ result \in [Threads -> Results]
        /\ call \in [Threads -> Calls \cup {NoCall}]
        /\ m_messages \in [Names -> Seq(Messages)]
    BY DEF IInv, TypeOK
  <2>h. /\ m_locker = t /\ t # Free /\ pc[t] = "body" /\ pc'[t] = "failed"
        /\ op \in Takes \cup Looks
    BY <2>t, ChannelsAssumption DEF Fails, Goto, IInv, HolderInv, Inside
  <2>c. c \in Names /\ Queue(t) \in Seq(Messages) /\ data \in Seq(Messages)
    BY CallTyped DEF IInv, Fails
  <2>r. /\ op # "Get_All_Data" => data = <<>>
        /\ c \in channels /\ Sound(data)
    BY <2>h DEF ResultInv, Served, ResultOK, KnownOK, SoundInv
  <2>1. UNCHANGED <<m_locker, m_messages, channels, sends, call, result>>
    BY DEF Fails
  <2>2. ~Broken /\ Broken' = TRUE
    BY <2>h, <1>whole DEF Broken
  <2>3. /\ ~Pushed(t) /\ ~Pushed(t)' /\ Popped(t)' = <<>>
        /\ Popped(t) = IF op \in Takes THEN data ELSE <<>>
    BY <2>h, <2>1 DEF Pushed, Popped
  <2>4. AbstractAnswer' = AbstractAnswer
    BY <2>t, <2>h, <2>1 DEF Fails, Goto, AbstractAnswer
  <2>5. AbstractSent' = AbstractSent
    BY <2>h, <2>1, <2>3 DEF AbstractSent
  <2>e. <<>> \o Queue(t) = Queue(t)
    BY <2>c
  <2>6. AbstractQueues' = [AbstractQueues EXCEPT ![c] = Queue(t)]
    BY <2>t, <2>h, <2>1, <2>3, <2>e DEF AbstractQueues, AbstractQueue, Queue
  <2>7. q = Popped(t) \o Queue(t)
    BY <2>h, <2>3, <2>c DEF AbstractQueues, AbstractQueue, Queue
  <2>8. Queue(t) # <<>> /\ ~Sound(Given(t))
    BY DEF Fails, Given, Sound
  <2>9. op = "Get_All_Data" \/ q = Queue(t)
    BY <2>7, <2>3, <2>r, <2>e DEF Takes
  <2>10. CASE op # "Get_All_Data"
    <3>1. q = Queue(t) /\ AbstractQueues' = AbstractQueues
      <4>1. AbstractQueues = [AbstractQueues EXCEPT ![c] = q]
        BY DEF AbstractQueues
      <4> QED BY <2>6, <2>9, <2>10, <4>1
    <3>2. ~Abstract!Sound(IF op = "Peek_All_Data" THEN q ELSE Abstract!First(q))
      <4>1. Given(t) = IF op = "Peek_All_Data" THEN q ELSE Abstract!First(q)
        BY <2>8, <3>1 DEF Given, Abstract!First
      <4> QED BY <2>8, <4>1 DEF Sound, Abstract!Sound
    <3>3. op \in {"Get_Data", "Demand_Data", "Peek_Data", "Peek_All_Data"}
      BY <2>h, <2>10 DEF Takes, Looks
    <3> QED
      BY <2>1, <2>2, <2>4, <2>5, <2>r, <3>1, <3>2, <3>3
      DEF Abstract!Fail, AbstractQueues, AbstractSent, AbstractAnswer
  <2>11. CASE op = "Get_All_Data"
    <3> DEFINE i == Len(data) + 1
    <3>1. q = data \o Queue(t)
      BY <2>3, <2>7, <2>11 DEF Takes
    <3>2. Head(Queue(t)) \in Failing
      <4>1. Given(t) = <<Head(Queue(t))>>
        BY <2>8, <2>11 DEF Given
      <4> QED BY <2>8, <4>1 DEF Sound
    <3> HIDE DEF c, op, data, q
    <3>3. /\ i \in DOMAIN q /\ q[i] \in Failing
          /\ Abstract!Sound(SubSeq(q, 1, i - 1)) /\ SubSeq(q, i, Len(q)) = Queue(t)
      <4>1. /\ q \in Seq(Messages) /\ Len(q) = Len(data) + Len(Queue(t)) /\ Len(Queue(t)) >= 1
            /\ \A j \in 1..Len(data) : q[j] = data[j]
            /\ \A j \in 1..Len(Queue(t)) : q[Len(data) + j] = Queue(t)[j]
        BY <2>c, <2>8, <3>1
      <4>2. i \in 1..Len(q) /\ q[i] = Head(Queue(t)) /\ DOMAIN q = 1..Len(q)
        BY <2>c, <4>1
      <4>3. SubSeq(q, 1, i - 1) = data
        <5>1. /\ SubSeq(q, 1, i - 1) \in Seq(Messages) /\ Len(SubSeq(q, 1, i - 1)) = Len(data)
              /\ \A j \in 1..Len(data) : SubSeq(q, 1, i - 1)[j] = q[j]
          BY <2>c, <4>1
        <5> QED BY <2>c, <4>1, <5>1, SeqEqual
      <4>4. SubSeq(q, i, Len(q)) = Queue(t)
        <5>1. /\ SubSeq(q, i, Len(q)) \in Seq(Messages)
              /\ Len(SubSeq(q, i, Len(q))) = Len(Queue(t))
              /\ \A j \in 1..Len(Queue(t)) : SubSeq(q, i, Len(q))[j] = q[Len(data) + j]
          BY <2>c, <4>1, <4>2
        <5> QED BY <2>c, <4>1, <5>1, SeqEqual
      <4>5. Abstract!Sound(data)
        BY <2>r DEF Sound, Abstract!Sound, data
      <4> QED BY <3>2, <4>2, <4>3, <4>4, <4>5
    <3> HIDE DEF i
    <3>4. \E j \in DOMAIN q : /\ q[j] \in Failing /\ Abstract!Sound(SubSeq(q, 1, j - 1))
                             /\ AbstractQueues' = [AbstractQueues EXCEPT ![c] = SubSeq(q, j, Len(q))]
      BY <2>6, <3>3
    <3> USE DEF c, op, data, q
    <3> QED
      BY <2>1, <2>2, <2>4, <2>5, <2>r, <2>11, <3>4
      DEF Abstract!Fail, AbstractQueues, AbstractSent, AbstractAnswer
  <2> QED BY <2>10, <2>11

<1>1. Init => Abstract!Init
  <2>1. Init => Broken = FALSE
    BY DEF Init, Broken
  <2> QED BY <2>1 DEF Init, Abstract!Init, AbstractQueue, Nothing, NoCall, Abstract!Nothing,
                      Abstract!NoCall
<1>2. IInv /\ ResultInv /\ SoundInv /\ [Next]_vars => [Abstract!Next]_(Abstract!vars)
  <2> SUFFICES ASSUME IInv, ResultInv, SoundInv, [Next]_vars PROVE [Abstract!Next]_(Abstract!vars)
    OBVIOUS
  <2>1. ASSUME NEW t \in Threads, NEW op \in Ops, NEW c \in Names, Call(t, op, c)
        PROVE  Abstract!Next
    <3>1. op \in Abstract!Ops
      BY DEF Ops, Takes, Looks, Abstract!Ops, Abstract!Takes
    <3>2. Abstract!Request(t, op, c)
      <4> USE <2>1
      <4>t. /\ pc \in [Threads -> Locations] /\ result \in [Threads -> Results]
            /\ call \in [Threads -> Calls \cup {NoCall}]
            /\ \A u \in Threads : call[u] = NoCall <=> pc[u] = "idle"
            /\ m_locker \in Threads \cup {Free}
        BY DEF IInv, TypeOK
      <4>1. m_locker # t
        BY DEF Call, IInv, HolderInv, Inside
      <4>2. m_locker # Free => /\ m_locker \in Threads /\ UNCHANGED <<pc[m_locker], call[m_locker],
                                                                      result[m_locker]>>
        BY <4>t, <4>1 DEF Call, Goto
      <4>3. UNCHANGED <<m_locker, m_messages, channels, sends>>
        BY DEF Call
      <4>4. AbstractQueues' = AbstractQueues /\ AbstractSent' = AbstractSent
        BY <4>2, <4>3 DEF AbstractQueues, AbstractSent, AbstractQueue, Pushed, Popped
      <4>5. AbstractAnswer' = [AbstractAnswer EXCEPT ![t] = Abstract!Nothing]
        BY <4>t DEF Call, Goto, AbstractAnswer, Nothing, Abstract!Nothing
      <4>b. Broken' = Broken
        BY <4>t DEF Call, Goto, Broken
      <4>6. call[t] = Abstract!NoCall /\ call' = [call EXCEPT ![t] = [op |-> op, ch |-> c]]
        BY <4>t DEF Call, NoCall, Abstract!NoCall
      <4> QED
        BY <4>3, <4>4, <4>5, <4>6, <4>b
        DEF Abstract!Request, AbstractQueues, AbstractSent, AbstractAnswer
    <3> QED BY <3>1, <3>2 DEF Abstract!Next
  <2>2. ASSUME NEW t \in Threads, Step(t) PROVE [Abstract!Next]_(Abstract!vars)
    <3>1. CASE Lock(t) \/ Push(t)
      BY <3>1, <1>open DEF Abstract!Next
    <3>2. CASE Unlock(t)
      BY <3>2, <1>effect DEF Abstract!Next
    <3>3. CASE Fails(t)
      BY <3>3, <1>fail DEF Abstract!Next
    <3>4. CASE ~(Lock(t) \/ Push(t) \/ Unlock(t) \/ Fails(t))
      BY <2>2, <3>4, <1>stutter DEF Step, Acquire, Hold
    <3> QED BY <3>1, <3>2, <3>3, <3>4
  <2>3. CASE UNCHANGED vars
    BY <2>3 DEF vars, Abstract!vars, AbstractQueue, Pushed, Popped, Broken
  <2> QED BY <2>1, <2>2, <2>3 DEF Next, Step
<1> QED BY <1>1, <1>2, <1>results, <1>sound, Invariance, PTL DEF Spec, AtomicQueues, Abstract!Spec
=============================================================================
