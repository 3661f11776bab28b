---------------------------- MODULE ChannelSpec ----------------------------
(***************************************************************************)
(* What the channels of LuaThread.cpp promise a script: first-in first-out *)
(* queues, and calls each of which takes effect at one instant between its *)
(* start and its return.  There is no mutex and no waiting here:           *)
(* Demand_Data is a call that takes effect when its channel has a message. *)
(* The promise ends with the first receive that fails: the channels are    *)
(* broken from then on, and no call takes effect any more.                 *)
(***************************************************************************)
EXTENDS Integers, Sequences

CONSTANTS Threads, Names, MaxSends, Failing

VARIABLES
  queue,         (* for each name, the messages sent and not yet taken      *)
  known,         (* the names some call has used                            *)
  sent,          (* how many messages have been sent                        *)
  pending,       (* for each thread, the call it is in                      *)
  answer,        (* for each thread, what its last call returned            *)
  broken         (* a receive has failed                                    *)

vars == <<queue, known, sent, pending, answer, broken>>

Takes   == {"Get_Data", "Demand_Data", "Get_All_Data"}
Ops     == Takes \cup {"Peek_Data", "Peek_All_Data", "Send_Data", "Get_All_Channels"}
NoCall  == [op |-> "none", ch |-> "none"]
Nothing == [data |-> <<>>, names |-> {}]

(* The first message of a queue, if it has one.                            *)
First(q) == IF q = <<>> THEN <<>> ELSE <<Head(q)>>

(* Messages that can be given to a script.                                 *)
Sound(q) == \A i \in DOMAIN q : q[i] \notin Failing

Init ==
  /\ queue = [c \in Names |-> <<>>]
  /\ known = {}
  /\ sent = 0
  /\ pending = [t \in Threads |-> NoCall]
  /\ answer = [t \in Threads |-> Nothing]
  /\ broken = FALSE

Request(t, op, c) ==
  /\ pending[t] = NoCall
  /\ pending' = [pending EXCEPT ![t] = [op |-> op, ch |-> c]]
  /\ answer' = [answer EXCEPT ![t] = Nothing]
  /\ UNCHANGED <<queue, known, sent, broken>>

(* A call that names a channel makes it known before it takes effect.      *)
Open(t) ==
  /\ ~broken
  /\ pending[t].op \in Ops \ {"Get_All_Channels"}
  /\ known' = known \cup {pending[t].ch}
  /\ UNCHANGED <<queue, sent, pending, answer, broken>>

(* The call of t takes effect and returns data and names, and leaves q in  *)
(* the channel it names.                                                   *)
Return(t, q, data, names) ==
  /\ queue' = [queue EXCEPT ![pending[t].ch] = q]
  /\ pending' = [pending EXCEPT ![t] = NoCall]
  /\ answer' = [answer EXCEPT ![t] = [data |-> data, names |-> names]]
  /\ UNCHANGED <<known, broken>>

Effect(t) ==
  LET op == pending[t].op
      c  == pending[t].ch
      q  == queue[c]
  IN /\ op \in Ops /\ ~broken
     /\ \/ /\ op = "Send_Data" /\ c \in known /\ sent < MaxSends
           /\ sent' = sent + 1
           /\ Return(t, Append(q, sent + 1), <<sent + 1>>, {})
        \/ /\ op = "Send_Data"
           /\ Return(t, q, <<>>, {})
           /\ UNCHANGED sent
        \/ /\ op \in Takes /\ c \in known
           /\ \/ op # "Get_All_Data" /\ q # <<>> /\ Sound(First(q)) /\ Return(t, Tail(q), First(q), {})
              \/ op = "Get_Data" /\ q = <<>> /\ Return(t, q, <<>>, {})
              \/ op = "Get_All_Data" /\ Sound(q) /\ Return(t, <<>>, q, {})
           /\ UNCHANGED sent
        \/ /\ op = "Peek_Data" /\ c \in known /\ Sound(First(q))
           /\ Return(t, q, First(q), {})
           /\ UNCHANGED sent
        \/ /\ op = "Peek_All_Data" /\ c \in known /\ Sound(q)
           /\ Return(t, q, q, {})
           /\ UNCHANGED sent
        \/ /\ op = "Get_All_Channels"
           /\ Return(t, q, <<>>, known)
           /\ UNCHANGED sent

(* A receive fails at the first message that it cannot give.  That message *)
(* stays in its channel; Get_All_Data has taken, and loses, those before.  *)
Fail(t) ==
  LET op == pending[t].op
      c  == pending[t].ch
      q  == queue[c]
  IN /\ ~broken /\ c \in known
     /\ \/ /\ op \in {"Get_Data", "Demand_Data", "Peek_Data"} /\ ~Sound(First(q))
           /\ UNCHANGED queue
        \/ /\ op = "Peek_All_Data" /\ ~Sound(q)
           /\ UNCHANGED queue
        \/ /\ op = "Get_All_Data"
           /\ \E i \in DOMAIN q :
                /\ q[i] \in Failing /\ Sound(SubSeq(q, 1, i - 1))
                /\ queue' = [queue EXCEPT ![c] = SubSeq(q, i, Len(q))]
     /\ broken' = TRUE
     /\ UNCHANGED <<known, sent, pending, answer>>

Next == \E t \in Threads :
  \/ \E op \in Ops, c \in Names : Request(t, op, c)
  \/ Open(t)
  \/ Effect(t)
  \/ Fail(t)

Spec == Init /\ [][Next]_vars
=============================================================================
