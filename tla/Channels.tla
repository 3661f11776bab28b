------------------------------ MODULE Channels ------------------------------
(***************************************************************************)
(* The message channels of LuaThread.cpp: the map m_messages of FIFO       *)
(* queues, the mutex m_locker that guards it and the condition variable    *)
(* m_newMessage on which Demand_Data blocks.  A thread is a Lua thread or  *)
(* the server's main thread: both register the same seven functions.       *)
(*                                                                         *)
(* A call is several steps, because the mutex is what makes them one: the  *)
(* call, the acquisition of m_locker, each access to the queue, and the    *)
(* release by the guard's destructor.  front() and pop() are steps of      *)
(* their own.  A message is its number.  Of its contents this module knows *)
(* only whether ReturnDataLua can make them again: the table of a message  *)
(* in Failing raises a Lua error in mid-call, which leaves the function    *)
(* without running the guard's destructor (DataMessages.SetFails).  What   *)
(* the thread that failed calls next is undefined, it would lock a mutex   *)
(* it holds, and is not modelled.                                          *)
(***************************************************************************)
EXTENDS Integers, SequencesExt

CONSTANTS
  Threads,       (* the threads that call the channel functions             *)
  Names,         (* the channel names the scripts use                       *)
  MaxSends,      (* bound of the model: how many messages are ever sent     *)
  Failing,       (* the messages whose table ReturnDataLua cannot make      *)
  Free           (* m_locker when nobody holds it                           *)

ASSUME ChannelsAssumption ==
  /\ Free \notin Threads
  /\ MaxSends \in Nat

VARIABLES
  m_locker,      (* the holder of the mutex, or Free                        *)
  m_messages,    (* for each name, the queued messages                      *)
  channels,      (* the names that are keys of the map m_messages           *)
  sends,         (* how many messages have been pushed so far               *)
  pc,            (* where each thread is in the function it called          *)
  call,          (* for each thread, the function and channel it called     *)
  result         (* for each thread, what the call has put on its Lua stack *)

vars == <<m_locker, m_messages, channels, sends, pc, call, result>>

Takes == {"Get_Data", "Demand_Data", "Get_All_Data"}
Looks == {"Peek_Data", "Peek_All_Data"}
Ops   == Takes \cup Looks \cup {"Send_Data", "Get_All_Channels"}

Messages  == 1..MaxSends
Calls     == [op : Ops, ch : Names]
NoCall    == [op |-> "none", ch |-> "none"]
Results   == [data : Seq(Messages), names : SUBSET Names]
Nothing   == [data |-> <<>>, names |-> {}]
Locations == {"idle", "lock", "body", "pop", "notify", "wait", "relock", "unlock",
              "failed"}

(* The locations at which a thread holds m_locker.                         *)
Inside == {"body", "pop", "notify", "unlock", "failed"}

Queue(t) == m_messages[call[t].ch]

(* What a call gives the script when it next reads its channel: the first  *)
(* message, if there is one, and Peek_All_Data all of them.                *)
Given(t) == IF call[t].op = "Peek_All_Data" \/ Queue(t) = <<>> THEN Queue(t) ELSE <<Head(Queue(t))>>

(* Messages that ReturnDataLua can make.                                   *)
Sound(s) == \A i \in DOMAIN s : s[i] \notin Failing

Goto(t, l) == pc' = [pc EXCEPT ![t] = l]

Init ==
  /\ m_locker = Free
  /\ m_messages = [c \in Names |-> <<>>]
  /\ channels = {}
  /\ sends = 0
  /\ pc = [t \in Threads |-> "idle"]
  /\ call = [t \in Threads |-> NoCall]
  /\ result = [t \in Threads |-> Nothing]

-----------------------------------------------------------------------------
(* A Lua state calls one of the functions.                                 *)
Call(t, op, c) ==
  /\ pc[t] = "idle"
  /\ call' = [call EXCEPT ![t] = [op |-> op, ch |-> c]]
  /\ result' = [result EXCEPT ![t] = Nothing]
  /\ Goto(t, "lock")
  /\ UNCHANGED <<m_locker, m_messages, channels, sends>>

(* unique_lock takes m_locker; the functions that read a channel call      *)
(* getChannel next, which creates the channel they name.                   *)
Lock(t) ==
  /\ pc[t] = "lock"
  /\ m_locker = Free
  /\ m_locker' = t
  /\ channels' = channels \cup (IF call[t].op \in Takes \cup Looks THEN {call[t].ch} ELSE {})
  /\ Goto(t, "body")
  /\ UNCHANGED <<m_messages, sends, call, result>>

(* Slip: the push without the notification.                                *)
PushSilently(t) ==
  /\ pc[t] = "body" /\ call[t].op = "Send_Data"
  /\ sends < MaxSends
  /\ sends' = sends + 1
  /\ channels' = channels \cup {call[t].ch}
  /\ m_messages' = [m_messages EXCEPT ![call[t].ch] = Append(@, sends + 1)]
  /\ result' = [result EXCEPT ![t].data = <<sends + 1>>]
  /\ Goto(t, "unlock")
  /\ UNCHANGED <<m_locker, call>>

(* Send_Data of a value that convertData turns into a message.             *)
Push(t) ==
  /\ pc[t] = "body" /\ call[t].op = "Send_Data"
  /\ sends < MaxSends
  /\ sends' = sends + 1
  /\ channels' = channels \cup {call[t].ch}
  /\ m_messages' = [m_messages EXCEPT ![call[t].ch] = Append(@, sends + 1)]
  /\ result' = [result EXCEPT ![t].data = <<sends + 1>>]
  /\ Goto(t, "notify")
  /\ UNCHANGED <<m_locker, call>>

(* Send_Data of a function, a userdata or nil: convertData gives nullptr   *)
(* and the call answers false.                                             *)
Refuse(t) ==
  /\ pc[t] = "body" /\ call[t].op = "Send_Data"
  /\ Goto(t, "unlock")
  /\ UNCHANGED <<m_locker, m_messages, channels, sends, call, result>>

(* Slip: notify_one, which may wake a waiter of another channel.           *)
NotifyOne(t) ==
  /\ pc[t] = "notify"
  /\ LET sleeping == {u \in Threads : pc[u] = "wait"}
     IN IF sleeping = {} THEN Goto(t, "unlock")
        ELSE \E u \in sleeping : pc' = [pc EXCEPT ![t] = "unlock", ![u] = "relock"]
  /\ UNCHANGED <<m_locker, m_messages, channels, sends, call, result>>

(* m_newMessage.notify_all(): every waiter leaves the wait and contends.   *)
NotifyAll(t) ==
  /\ pc[t] = "notify"
  /\ pc' = [u \in Threads |-> IF u = t THEN "unlock"
                              ELSE IF pc[u] = "wait" THEN "relock" ELSE pc[u]]
  /\ UNCHANGED <<m_locker, m_messages, channels, sends, call, result>>

(* front() of a channel that has a message, put on the Lua stack.          *)
Read(t) ==
  /\ pc[t] = "body" /\ call[t].op \in Takes /\ Queue(t) # <<>>
  /\ Sound(Given(t))
  /\ result' = [result EXCEPT ![t].data = Append(@, Head(Queue(t)))]
  /\ Goto(t, "pop")
  /\ UNCHANGED <<m_locker, m_messages, channels, sends, call>>

(* ReturnDataLua sets a field that Lua refuses: the error ends the call    *)
(* with the message in the channel and m_locker taken, for good.  A        *)
(* Get_All_Data loses the messages it has popped before.                   *)
Fails(t) ==
  /\ pc[t] = "body" /\ call[t].op \in Takes \cup Looks
  /\ ~Sound(Given(t))
  /\ Goto(t, "failed")
  /\ UNCHANGED <<m_locker, m_messages, channels, sends, call, result>>

(* Slip: Get_All_Data returns after the first message.                     *)
PopOnce(t) ==
  /\ pc[t] = "pop" /\ Queue(t) # <<>>
  /\ m_messages' = [m_messages EXCEPT ![call[t].ch] = Tail(@)]
  /\ Goto(t, "unlock")
  /\ UNCHANGED <<m_locker, channels, sends, call, result>>

(* pop() and delete: Get_All_Data goes round its loop, the others return.  *)
Pop(t) ==
  /\ pc[t] = "pop" /\ Queue(t) # <<>>
  /\ m_messages' = [m_messages EXCEPT ![call[t].ch] = Tail(@)]
  /\ Goto(t, IF call[t].op = "Get_All_Data" THEN "body" ELSE "unlock")
  /\ UNCHANGED <<m_locker, channels, sends, call, result>>

(* Slip: Get_Data waits for a message as Demand_Data does.                 *)
EmptyWaits(t) ==
  /\ pc[t] = "body" /\ call[t].op \in {"Get_Data", "Get_All_Data"} /\ Queue(t) = <<>>
  /\ m_locker' = Free
  /\ Goto(t, "wait")
  /\ UNCHANGED <<m_messages, channels, sends, call, result>>

(* An empty channel ends Get_Data and the loop of Get_All_Data.            *)
Empty(t) ==
  /\ pc[t] = "body" /\ call[t].op \in {"Get_Data", "Get_All_Data"} /\ Queue(t) = <<>>
  /\ Goto(t, "unlock")
  /\ UNCHANGED <<m_locker, m_messages, channels, sends, call, result>>

(* Slip: Demand_Data gives up on an empty channel and forgets its call.    *)
WaitGivesUp(t) ==
  /\ pc[t] = "body" /\ call[t].op = "Demand_Data" /\ Queue(t) = <<>>
  /\ m_locker' = Free
  /\ Goto(t, "idle")
  /\ UNCHANGED <<m_messages, channels, sends, call, result>>

(* An empty channel makes Demand_Data wait, which releases m_locker.       *)
Wait(t) ==
  /\ pc[t] = "body" /\ call[t].op = "Demand_Data" /\ Queue(t) = <<>>
  /\ m_locker' = Free
  /\ Goto(t, "wait")
  /\ UNCHANGED <<m_messages, channels, sends, call, result>>

(* A condition variable may wake a waiter that nobody notified.            *)
SpuriousWake(t) ==
  /\ pc[t] = "wait"
  /\ Goto(t, "relock")
  /\ UNCHANGED <<m_locker, m_messages, channels, sends, call, result>>

(* Slip: wait() returns without the mutex.                                 *)
RelockUnguarded(t) ==
  /\ pc[t] = "relock"
  /\ m_locker' = t
  /\ Goto(t, "body")
  /\ UNCHANGED <<m_messages, channels, sends, call, result>>

(* The end of wait(): m_locker is taken again, the loop tests the channel. *)
Relock(t) ==
  /\ pc[t] = "relock"
  /\ m_locker = Free
  /\ m_locker' = t
  /\ Goto(t, "body")
  /\ UNCHANGED <<m_messages, channels, sends, call, result>>

(* Peek_Data reads the first message, Peek_All_Data a copy of the queue.   *)
Look(t) ==
  /\ pc[t] = "body" /\ call[t].op \in Looks
  /\ Sound(Given(t))
  /\ result' = [result EXCEPT ![t].data = Given(t)]
  /\ Goto(t, "unlock")
  /\ UNCHANGED <<m_locker, m_messages, channels, sends, call>>

GetAllChannels(t) ==
  /\ pc[t] = "body" /\ call[t].op = "Get_All_Channels"
  /\ result' = [result EXCEPT ![t].names = channels]
  /\ Goto(t, "unlock")
  /\ UNCHANGED <<m_locker, m_messages, channels, sends, call>>

(* The guard's destructor releases m_locker and the function returns.      *)
Unlock(t) ==
  /\ pc[t] = "unlock"
  /\ m_locker' = Free
  /\ call' = [call EXCEPT ![t] = NoCall]
  /\ Goto(t, "idle")
  /\ UNCHANGED <<m_messages, channels, sends, result>>

(* The steps of a thread that holds the mutex.                             *)
Hold(t) ==
  \/ Push(t) \/ Refuse(t) \/ NotifyAll(t)
  \/ Read(t) \/ Pop(t) \/ Empty(t) \/ Wait(t)
  \/ Look(t) \/ GetAllChannels(t) \/ Fails(t)
  \/ Unlock(t)

Acquire(t) == Lock(t) \/ Relock(t)

Next == \E t \in Threads :
  \/ \E op \in Ops, c \in Names : Call(t, op, c)
  \/ Acquire(t) \/ SpuriousWake(t)
  \/ Hold(t)

Spec == Init /\ [][Next]_vars

(* A thread inside the mutex runs on; the mutex is given, sooner or later, *)
(* to each thread that keeps asking for it while others come and go.       *)
Fairness == \A t \in Threads :
  /\ WF_vars(Hold(t))
  /\ SF_vars(Acquire(t))

FairSpec == Spec /\ Fairness

-----------------------------------------------------------------------------
TypeOK ==
  /\ m_locker \in Threads \cup {Free}
  /\ m_messages \in [Names -> Seq(Messages)]
  /\ channels \in SUBSET Names
  /\ sends \in 0..MaxSends
  /\ pc \in [Threads -> Locations]
  /\ call \in [Threads -> Calls \cup {NoCall}]
  /\ \A t \in Threads : call[t] = NoCall <=> pc[t] = "idle"
  /\ result \in [Threads -> Results]

(* The message a call is about to pop and delete is the one it has read:   *)
(* no other call can take or free it in between, so nothing is delivered   *)
(* twice and nothing is deleted unread (front, pop and delete of           *)
(* LuaThread.cpp:394-397, 415-418, 483-486).                               *)
PopsWhatItRead ==
  \A t \in Threads : pc[t] = "pop" =>
    /\ Queue(t) # <<>>
    /\ result[t].data # <<>>
    /\ Head(Queue(t)) = Last(result[t].data)

(* No wake-up is lost: a Demand_Data that sleeps on a channel with a       *)
(* message is about to be notified by the call that holds the mutex        *)
(* (LuaThread.cpp:364-371 against 476-481).                                *)
NoLostWakeup ==
  \A t \in Threads : (pc[t] = "wait" /\ Queue(t) # <<>>) =>
    \E u \in Threads : m_locker = u /\ pc[u] = "notify"

(* A thread has received what it cannot make, and keeps m_locker.          *)
Broken == \E t \in Threads : pc[t] = "failed"

(* Every call but Demand_Data returns, whatever the other threads do and   *)
(* send, and one thing alone stops it: a receive that has failed, of its   *)
(* own or of another thread, on this channel or on another                 *)
(* (LuaThread.cpp:359-508, 538).                                           *)
CallsReturn ==
  \A t \in Threads :
    (pc[t] = "lock" /\ call[t].op # "Demand_Data") ~> (pc[t] = "idle" \/ Broken)

(* A Demand_Data that sleeps on a channel with a message returns one,      *)
(* unless others have emptied the channel first or a receive has failed    *)
(* with m_locker (LuaThread.cpp:371, 476-487).                             *)
DemandServed ==
  \A t \in Threads, c \in Names :
    (pc[t] = "wait" /\ call[t].ch = c /\ m_messages[c] # <<>>)
      ~> (pc[t] = "idle" \/ m_messages[c] = <<>> \/ Broken)

-----------------------------------------------------------------------------
(* The refinement: each call takes effect where it releases m_locker, or   *)
(* where it fails.                                                         *)
(* Until then the abstract queue still holds what the call has popped, and *)
(* does not yet hold what it has pushed.                                   *)
Pushed(t) == pc[t] \in {"notify", "unlock"} /\ call[t].op = "Send_Data" /\ result[t].data # <<>>
Popped(t) == IF call[t].op \in Takes /\ pc[t] # "failed"
             THEN IF pc[t] = "pop" THEN Front(result[t].data) ELSE result[t].data
             ELSE <<>>

AbstractQueue(c) ==
  IF m_locker # Free /\ call[m_locker].ch = c
  THEN IF Pushed(m_locker) THEN Front(m_messages[c]) ELSE Popped(m_locker) \o m_messages[c]
  ELSE m_messages[c]

(* The channels implement the atomic queues of ChannelSpec: every call     *)
(* takes effect at one instant, first in first out, and a Get_All_Data or  *)
(* Peek_All_Data sees one moment of its channel; a receive that fails takes*)
(* nothing but what Get_All_Data had popped, and no call takes effect after*)
(* it (LuaThread.cpp:359-508).                                             *)
Abstract == INSTANCE ChannelSpec WITH
  queue   <- [c \in Names |-> AbstractQueue(c)],
  known   <- channels,
  sent    <- IF m_locker # Free /\ Pushed(m_locker) THEN sends - 1 ELSE sends,
  pending <- call,
  answer  <- [t \in Threads |-> IF pc[t] = "idle" THEN result[t] ELSE Nothing],
  broken  <- Broken

AtomicQueues == Abstract!Spec
=============================================================================
