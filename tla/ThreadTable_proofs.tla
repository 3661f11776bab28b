------------------------- MODULE ThreadTable_proofs -------------------------
(***************************************************************************)
(* The table of Lua threads (LuaThread.cpp), for any number of threads and *)
(* callers: an exit is never missed, only what ended without an error      *)
(* leaves, and Wait_Thread follows a dead iterator, or returns early, only *)
(* if another caller has taken an object out of the table.                 *)
(***************************************************************************)
EXTENDS ThreadTable, TLAPS, SequenceTheorems

(* m_locker is held exactly by the agent in New_Thread.  A thread in a     *)
(* call runs its script, and one that exists runs or ran because threads   *)
(* are enabled.                                                            *)
CallerInv ==
  /\ \A a \in Agents : loc[a] = "new" <=> m_locker = a
  /\ \A i \in Ids : loc[i] \in {"new", "found", "join"} => life[i] = "run"
  /\ \A i \in Ids : life[i] # "none" => i <= m_id /\ LuaTT_threadEnabled

(* The thread that New_Thread has started and not yet inserted is the last *)
(* one; it may be through its script, but not through setThreadExit.       *)
NewInv ==
  \A a \in Agents : loc[a] = "new" =>
    /\ at[a] = m_id /\ m_id \in Ids /\ m_id \notin ToSet(m_threads) \cup ToSet(nodes)
    /\ IF LuaTT_threadEnabled THEN life[m_id] \in {"run", "exit"} ELSE life[m_id] = "none"

(* A node is made for one object.                                          *)
NodesInv ==
  /\ \A j, k \in 1..Len(nodes) : nodes[j] = nodes[k] => j = k
  /\ \A i \in ToSet(m_threads) \cup ToSet(nodes) : i <= m_id

(* What an object in the table has recorded.                               *)
ObjectInv ==
  \A i \in ToSet(m_threads) :
    /\ obj[i].running <=> life[i] \in {"run", "exit"}
    /\ life[i] \in {"run", "exit"} => ~obj[i].error
    /\ obj[i].delete => obj[i].born \/ (life[i] = "ended" /\ ~obj[i].error)

(* Wait_Thread is under way while there is something it waits for.  Its    *)
(* iterator and its object stay good until another caller takes an object  *)
(* out of the table, which a single caller cannot meet.                    *)
WaitInv ==
  /\ \A a \in Agents : want[a] # None <=> loc[a] \in {"found", "join"}
  /\ OneCaller => raced = {}
  /\ \A a \in Agents : a \notin raced =>
       /\ loc[a] = "found" =>
            \E k \in 1..Len(m_threads) : want[a] = m_threads[k] /\ at[a] = nodes[k]
       /\ loc[a] = "join" => at[a] = want[a] /\ InTable(at[a])

IInv == TypeOK /\ CallerInv /\ NewInv /\ NodesInv /\ ObjectInv /\ WaitInv /\ NoDangling

-----------------------------------------------------------------------------
(* CheckDeleteLater removes the objects that are marked, and the nodes     *)
(* that are left over from the end.                                        *)
LEMMA Purged ==
  ASSUME TypeOK, CheckDeleteLater
  PROVE  /\ m_threads' \in Seq(Ids) /\ nodes' \in Seq(Ids) /\ Len(nodes') = Len(m_threads')
         /\ ToSet(m_threads') = {i \in ToSet(m_threads) : ~obj[i].delete}
         /\ Len(nodes') <= Len(nodes) /\ \A k \in 1..Len(nodes') : nodes'[k] = nodes[k]
         /\ \/ m_threads' = m_threads /\ nodes' = nodes /\ raced' = raced
            \/ raced' = raced \cup Waiting
<1> DEFINE stay == {k \in 1..Len(m_threads) : ~obj[m_threads[k]].delete}
<1>0. PICK n \in 0..Len(m_threads) : \E from \in [1..n -> stay] :
        /\ stay = {from[j] : j \in 1..n}
        /\ m_threads' = [j \in 1..n |-> m_threads[from[j]]]
        /\ nodes' = SubSeq(nodes, 1, n)
  BY DEF CheckDeleteLater
<1>1. PICK from \in [1..n -> stay] :
        /\ stay = {from[j] : j \in 1..n}
        /\ m_threads' = [j \in 1..n |-> m_threads[from[j]]]
        /\ nodes' = SubSeq(nodes, 1, n)
  BY <1>0
<1>2. /\ m_threads \in Seq(Ids) /\ nodes \in Seq(Ids) /\ Len(nodes) = Len(m_threads)
      /\ Len(m_threads) \in Nat /\ n \in Nat /\ n <= Len(nodes)
  BY <1>1 DEF TypeOK
<1>3. \A j \in 1..n : from[j] \in stay /\ from[j] \in 1..Len(m_threads) /\ m_threads[from[j]] \in Ids
  BY <1>1, <1>2
<1>4. m_threads' \in Seq(Ids) /\ Len(m_threads') = n
  BY <1>1, <1>2, <1>3
<1>5. nodes' \in Seq(Ids) /\ Len(nodes') = n /\ \A k \in 1..n : nodes'[k] = nodes[k]
  <2>1. \A i \in 1..n : i \in 1..Len(nodes)
    BY <1>2
  <2>2. \A i \in 1..n : nodes[i] \in Ids
    BY <1>2, <2>1, ElementOfSeq
  <2>3. /\ SubSeq(nodes, 1, n) \in Seq(Ids)
        /\ Len(SubSeq(nodes, 1, n)) = IF 1 <= n THEN n - 1 + 1 ELSE 0
        /\ \A i \in 1..(n - 1 + 1) : SubSeq(nodes, 1, n)[i] = nodes[1 + i - 1]
    BY <1>2, <2>2, SubSeqProperties
  <2> QED BY <1>1, <1>2, <2>3
<1>6. ToSet(m_threads') = {i \in ToSet(m_threads) : ~obj[i].delete}
  <2>1. \A x : x \in ToSet(m_threads') <=> \E j \in 1..n : x = m_threads[from[j]]
    BY <1>1, <1>4 DEF ToSet
  <2>2. \A x : x \in ToSet(m_threads) <=> \E k \in 1..Len(m_threads) : x = m_threads[k]
    BY <1>2 DEF ToSet
  <2>3. \A k \in 1..Len(m_threads) : ~obj[m_threads[k]].delete => \E j \in 1..n : k = from[j]
    BY <1>1
  <2>4. \A j \in 1..n : ~obj[m_threads[from[j]]].delete
    BY <1>3
  <2> QED BY <1>3, <2>1, <2>2, <2>3, <2>4
<1>7. m_threads' = m_threads => nodes' = nodes
  <2> SUFFICES ASSUME m_threads' = m_threads PROVE nodes' = nodes
    OBVIOUS
  <2>1. n = Len(nodes)
    BY <1>2, <1>4
  <2> QED BY <1>2, <1>5, <2>1, SeqEqual
<1>8. \/ m_threads' = m_threads /\ nodes' = nodes /\ raced' = raced
      \/ raced' = raced \cup Waiting
  BY <1>7 DEF CheckDeleteLater
<1> QED BY <1>2, <1>4, <1>5, <1>6, <1>8

-----------------------------------------------------------------------------
(* The initial states satisfy the invariant, and every step keeps it.      *)
THEOREM Invariance == Spec => []IInv
<1>1. Init => IInv
  <2> SUFFICES ASSUME Init PROVE IInv
    OBVIOUS
  <2> USE ThreadTableAssumption DEF Init, Ids, Agents, Free, None
  <2>1. ToSet(m_threads) = {} /\ ToSet(nodes) = {} /\ Len(m_threads) = 0 /\ Len(nodes) = 0
    BY DEF ToSet
  <2>2. TypeOK
    <3>1. m_threads \in Seq(Ids) /\ nodes \in Seq(Ids)
      BY EmptySeq
    <3>2. obj \in [Ids -> [running : BOOLEAN, error : BOOLEAN, delete : BOOLEAN, thread : BOOLEAN,
                           born : BOOLEAN]]
      BY DEF Unborn
    <3>3. loc \in [Agents -> {"idle", "barred", "new", "found", "join"}]
      OBVIOUS
    <3>4. want \in [Agents -> Ids \cup {None}] /\ at \in [Agents -> Ids \cup {None}]
      OBVIOUS
    <3>5. life \in [Ids -> {"none", "run", "exit", "ended"}] /\ fault \in {"none", "null", "dangling"}
      OBVIOUS
    <3>6. m_locker \in Agents \cup {Free} /\ m_id \in 0..MaxThreads /\ LuaTT_threadEnabled \in BOOLEAN
          /\ raced \subseteq Agents
      OBVIOUS
    <3> QED BY <2>1, <3>1, <3>2, <3>3, <3>4, <3>5, <3>6 DEF TypeOK
  <2>3. CallerInv /\ NewInv
    BY DEF CallerInv, NewInv
  <2>4. NodesInv /\ ObjectInv
    BY <2>1 DEF NodesInv, ObjectInv
  <2>5. WaitInv /\ NoDangling
    BY DEF WaitInv, NoDangling
  <2> QED BY <2>2, <2>3, <2>4, <2>5 DEF IInv
<1>2. IInv /\ [Next]_vars => IInv'
  <2> USE ThreadTableAssumption DEF Ids, Agents, Free, None, Ready, InTable
  <2> SUFFICES ASSUME IInv, [Next]_vars PROVE IInv'
    OBVIOUS
  <2>0. /\ TypeOK /\ CallerInv /\ NewInv /\ NodesInv /\ ObjectInv /\ WaitInv /\ NoDangling
        /\ MaxThreads \in Nat /\ m_id \in Nat /\ Len(nodes) = Len(m_threads) /\ Len(nodes) \in Nat
        /\ Main \notin Ids /\ 0 \notin Agents
    BY DEF IInv, TypeOK
  <2>t. m_threads \in Seq(Ids) /\ nodes \in Seq(Ids)
    BY <2>0 DEF TypeOK
  <2>s. ASSUME NEW s \in Seq(Ids), NEW x PROVE x \in ToSet(s) <=> \E k \in 1..Len(s) : s[k] = x
    <3>1. DOMAIN s = 1..Len(s)
      OBVIOUS
    <3> QED BY <3>1 DEF ToSet
  <2>1. CASE UNCHANGED vars
    BY <2>0, <2>1 DEF vars, IInv, TypeOK, CallerInv, NewInv, NodesInv, ObjectInv, WaitInv, NoDangling, OneCaller
  <2>2. CASE FirstThink
    <3>1. TypeOK' /\ NodesInv' /\ ObjectInv' /\ NoDangling'
      BY <2>0, <2>2 DEF FirstThink, TypeOK, NodesInv, ObjectInv, NoDangling, OneCaller
    <3>2. CallerInv' /\ NewInv'
      BY <2>0, <2>2 DEF FirstThink, TypeOK, CallerInv, NewInv
    <3>3. WaitInv'
      BY <2>0, <2>2 DEF FirstThink, WaitInv, OneCaller
    <3> QED BY <3>1, <3>2, <3>3 DEF IInv
  <2>3. ASSUME NEW a \in Agents, NewStart(a), fault = "none" PROVE IInv'
    <3>1. /\ loc[a] = "idle" /\ m_locker = 0 /\ m_id < MaxThreads /\ m_locker' = a /\ m_id' = m_id + 1
          /\ life' = IF LuaTT_threadEnabled THEN [life EXCEPT ![m_id + 1] = "run"] ELSE life
          /\ loc' = [loc EXCEPT ![a] = "new"] /\ at' = [at EXCEPT ![a] = m_id + 1]
          /\ UNCHANGED <<obj, LuaTT_threadEnabled, want, fault>> /\ (a # Main => life[a] = "run")
      BY <2>3 DEF NewStart
    <3>2. /\ m_threads' \in Seq(Ids) /\ nodes' \in Seq(Ids) /\ Len(nodes') = Len(m_threads')
          /\ ToSet(m_threads') = {i \in ToSet(m_threads) : ~obj[i].delete}
          /\ Len(nodes') <= Len(nodes) /\ \A k \in 1..Len(nodes') : nodes'[k] = nodes[k]
          /\ \/ m_threads' = m_threads /\ nodes' = nodes /\ raced' = raced
             \/ raced' = raced \cup Waiting
      BY <2>0, <2>3, Purged DEF NewStart
    <3>3. m_id + 1 \in Ids /\ life[m_id + 1] = "none" /\ \A b \in Agents : loc[b] # "new"
      BY <2>0, <3>1 DEF CallerInv, TypeOK
    <3>4. ToSet(m_threads') \subseteq ToSet(m_threads) /\ ToSet(nodes') \subseteq ToSet(nodes)
      <4>1. \A k \in 1..Len(nodes') : k \in 1..Len(nodes) /\ nodes'[k] = nodes[k]
        BY <2>0, <3>2
      <4>2. ToSet(m_threads') \subseteq ToSet(m_threads)
        BY <3>2
      <4>3. \A x \in ToSet(nodes') : \E k \in 1..Len(nodes') : nodes'[k] = x
        BY <2>s, <3>2
      <4>4. \A k \in 1..Len(nodes) : nodes[k] \in ToSet(nodes)
        BY <2>s, <2>t
      <4>5. \A x \in ToSet(nodes') : x \in ToSet(nodes)
        BY <4>1, <4>3, <4>4
      <4> QED BY <4>2, <4>5
    <3>5. TypeOK'
      <4>1. raced' \subseteq Agents
        BY <2>0, <3>2 DEF TypeOK, Waiting
      <4> QED BY <2>0, <3>1, <3>2, <3>3, <4>1 DEF TypeOK
    <3>6. CallerInv'
      BY <2>0, <3>1, <3>3 DEF CallerInv, TypeOK
    <3>7. NewInv'
      BY <2>0, <3>1, <3>3, <3>4 DEF NewInv, NodesInv, TypeOK
    <3>8. NodesInv'
      <4>1. \A k \in 1..Len(nodes') : k \in 1..Len(nodes) /\ nodes'[k] = nodes[k]
        BY <2>0, <3>2
      <4>2. \A i \in ToSet(m_threads') \cup ToSet(nodes') : i \in Nat /\ i <= m_id
        <5>1. \A i \in ToSet(m_threads) \cup ToSet(nodes) : i \in Ids
          <6>1. \A i \in ToSet(m_threads) : i \in Ids
            BY <2>t, <2>s, ElementOfSeq
          <6>2. \A i \in ToSet(nodes) : i \in Ids
            BY <2>t, <2>s, ElementOfSeq
          <6> QED BY <6>1, <6>2
        <5>2. \A i \in ToSet(m_threads) \cup ToSet(nodes) : i <= m_id
          BY <2>0 DEF NodesInv
        <5> QED BY <2>0, <3>4, <5>1, <5>2
      <4>3. \A i \in ToSet(m_threads') \cup ToSet(nodes') : i <= m_id'
        BY <2>0, <3>1, <4>2
      <4> QED BY <2>0, <4>1, <4>3 DEF NodesInv
    <3>9. ObjectInv'
      BY <2>0, <3>1, <3>3, <3>4 DEF ObjectInv, NodesInv, TypeOK
    <3>10. WaitInv' /\ NoDangling'
      <4>1. OneCaller' => OneCaller /\ a = Main
        BY <2>0, <3>1 DEF OneCaller, TypeOK
      <4>2. OneCaller' => raced' = {}
        BY <2>0, <3>1, <3>2, <4>1 DEF WaitInv, OneCaller, Waiting
      <4>3. ASSUME NEW b \in Agents, b \notin raced', loc'[b] \in {"found", "join"}
            PROVE  /\ b \notin raced /\ UNCHANGED <<m_threads, nodes, loc[b], at[b], want[b]>>
                   /\ loc[b] \in {"found", "join"}
        <5>1. b # a /\ loc'[b] = loc[b] /\ at'[b] = at[b] /\ want'[b] = want[b]
          BY <2>0, <3>1, <4>3 DEF TypeOK
        <5> QED BY <3>2, <4>3, <5>1 DEF Waiting
      <4>4. \A b \in Agents : want'[b] # None <=> loc'[b] \in {"found", "join"}
        BY <2>0, <3>1 DEF WaitInv, TypeOK
      <4>5. WaitInv'
        BY <2>0, <4>2, <4>3, <4>4 DEF WaitInv
      <4> QED BY <2>3, <3>1, <4>5 DEF NoDangling
    <3> QED BY <3>5, <3>6, <3>7, <3>8, <3>9, <3>10 DEF IInv
  <2>4. ASSUME NEW a \in Agents, NewInsert(a), fault = "none" PROVE IInv'
    <3>1. PICK garbage \in Garbage :
            obj' = [obj EXCEPT ![at[a]] = [running |-> LuaTT_threadEnabled,
                                           error   |-> ~LuaTT_threadEnabled,
                                           delete  |-> garbage,
                                           thread  |-> LuaTT_threadEnabled,
                                           born    |-> garbage]]
      BY <2>4 DEF NewInsert
    <3>2. /\ loc[a] = "new" /\ m_threads' = Append(m_threads, at[a]) /\ nodes' = Append(nodes, at[a])
          /\ m_locker' = 0 /\ loc' = [loc EXCEPT ![a] = "idle"] /\ at' = [at EXCEPT ![a] = 0]
          /\ UNCHANGED <<m_id, life, LuaTT_threadEnabled, want, fault, raced>>
      BY <2>4 DEF NewInsert
    <3>3. /\ at[a] = m_id /\ m_id \in Ids /\ m_id \notin ToSet(m_threads) \cup ToSet(nodes)
          /\ IF LuaTT_threadEnabled THEN life[m_id] \in {"run", "exit"} ELSE life[m_id] = "none"
          /\ m_locker = a /\ \A b \in Agents : loc[b] = "new" => b = a
      BY <2>0, <3>2 DEF NewInv, CallerInv
    <3>4. /\ ToSet(m_threads') = ToSet(m_threads) \cup {m_id} /\ ToSet(nodes') = ToSet(nodes) \cup {m_id}
          /\ Len(m_threads') = Len(m_threads) + 1 /\ Len(nodes') = Len(nodes) + 1
          /\ m_threads' \in Seq(Ids) /\ nodes' \in Seq(Ids)
          /\ \A k \in 1..Len(nodes) : nodes'[k] = nodes[k] /\ m_threads'[k] = m_threads[k] /\ nodes[k] # m_id
          /\ nodes'[Len(nodes) + 1] = m_id
      <4>1. Len(m_threads') = Len(m_threads) + 1 /\ Len(nodes') = Len(nodes) + 1
        BY <2>t, <3>2, <3>3
      <4>2. m_threads' \in Seq(Ids) /\ nodes' \in Seq(Ids)
        BY <2>t, <3>2, <3>3
      <4>3. /\ \A k \in 1..Len(nodes) : nodes'[k] = nodes[k] /\ m_threads'[k] = m_threads[k]
            /\ nodes'[Len(nodes) + 1] = m_id /\ m_threads'[Len(nodes) + 1] = m_id
        BY <2>0, <2>t, <3>2, <3>3
      <4>4. 1..Len(nodes') = 1..Len(nodes) \cup {Len(nodes) + 1}
        BY <2>0, <4>1
      <4>5. ToSet(m_threads') = ToSet(m_threads) \cup {m_id}
        <5>1. \A x : x \in ToSet(m_threads) <=> \E k \in 1..Len(nodes) : m_threads[k] = x
          BY <2>0, <2>t, <2>s
        <5>2. \A x : x \in ToSet(m_threads') <=> \E k \in 1..Len(nodes') : m_threads'[k] = x
          BY <2>0, <2>s, <4>1, <4>2
        <5> QED BY <4>3, <4>4, <5>1, <5>2
      <4>6. ToSet(nodes') = ToSet(nodes) \cup {m_id}
        <5>1. \A x : x \in ToSet(nodes) <=> \E k \in 1..Len(nodes) : nodes[k] = x
          BY <2>0, <2>t, <2>s
        <5>2. \A x : x \in ToSet(nodes') <=> \E k \in 1..Len(nodes') : nodes'[k] = x
          BY <2>0, <2>s, <4>1, <4>2
        <5> QED BY <4>3, <4>4, <5>1, <5>2
      <4>7. \A k \in 1..Len(nodes) : nodes[k] # m_id
        BY <2>t, <2>s, <3>3
      <4> QED BY <4>1, <4>2, <4>3, <4>5, <4>6, <4>7
    <3>5. TypeOK'
      BY <2>0, <3>1, <3>2, <3>3, <3>4 DEF TypeOK
    <3>6. CallerInv' /\ NewInv'
      BY <2>0, <3>2, <3>3 DEF CallerInv, NewInv, TypeOK
    <3>7. NodesInv'
      BY <2>0, <3>2, <3>3, <3>4 DEF NodesInv
    <3>8. ObjectInv'
      <4>1. /\ obj'[m_id].running = LuaTT_threadEnabled /\ obj'[m_id].error = ~LuaTT_threadEnabled
            /\ obj'[m_id].delete = garbage /\ obj'[m_id].born = garbage
            /\ \A i \in Ids : i # m_id => obj'[i] = obj[i]
        BY <2>0, <3>1, <3>3 DEF TypeOK
      <4>2. \A i \in ToSet(m_threads) : i \in Ids /\ i # m_id
        BY <2>t, <2>s, <3>3, ElementOfSeq
      <4>3. LuaTT_threadEnabled \in BOOLEAN /\ garbage \in BOOLEAN
        BY <2>0 DEF TypeOK
      <4>4. ASSUME NEW i \in ToSet(m_threads')
            PROVE  /\ obj'[i].running <=> life'[i] \in {"run", "exit"}
                   /\ life'[i] \in {"run", "exit"} => ~obj'[i].error
                   /\ obj'[i].delete => obj'[i].born \/ (life'[i] = "ended" /\ ~obj'[i].error)
        <5>1. CASE i = m_id
          BY <3>2, <3>3, <4>1, <4>3, <5>1
        <5>2. CASE i # m_id
          <6>1. i \in ToSet(m_threads) /\ obj'[i] = obj[i] /\ life'[i] = life[i]
            BY <3>2, <3>4, <4>1, <4>2, <4>4, <5>2
          <6> QED BY <2>0, <6>1 DEF ObjectInv
        <5> QED BY <5>1, <5>2
      <4> QED BY <4>4 DEF ObjectInv
    <3>9. WaitInv' /\ NoDangling'
      <4>1. OneCaller' => OneCaller
        BY <2>0, <3>2 DEF OneCaller, TypeOK
      <4>2. \A b \in Agents : want'[b] # None <=> loc'[b] \in {"found", "join"}
        BY <2>0, <3>2 DEF WaitInv, TypeOK
      <4>3. ASSUME NEW b \in Agents, b \notin raced, loc'[b] \in {"found", "join"}
            PROVE  /\ loc'[b] = "found" => \E k \in 1..Len(m_threads') :
                                             want'[b] = m_threads'[k] /\ at'[b] = nodes'[k]
                   /\ loc'[b] = "join" => at'[b] = want'[b] /\ at'[b] \in ToSet(m_threads')
        <5>1. b # a /\ UNCHANGED <<loc[b], at[b], want[b]>>
          BY <2>0, <3>2, <4>3 DEF TypeOK
        <5>2. \A k \in 1..Len(m_threads) : /\ k \in 1..Len(m_threads')
                                           /\ m_threads'[k] = m_threads[k] /\ nodes'[k] = nodes[k]
          BY <2>0, <3>4
        <5> QED BY <2>0, <3>4, <4>3, <5>1, <5>2 DEF WaitInv
      <4> QED BY <2>0, <2>4, <3>2, <4>1, <4>2, <4>3 DEF WaitInv, NoDangling
    <3> QED BY <3>5, <3>6, <3>7, <3>8, <3>9 DEF IInv
  <2>5. ASSUME NEW a \in Agents, Purge(a), fault = "none" PROVE IInv'
    <3>1. /\ loc[a] = "idle" /\ m_locker = 0
          /\ UNCHANGED <<m_locker, m_id, obj, life, LuaTT_threadEnabled, loc, want, at, fault>>
      BY <2>5 DEF Purge
    <3>2. /\ m_threads' \in Seq(Ids) /\ nodes' \in Seq(Ids) /\ Len(nodes') = Len(m_threads')
          /\ ToSet(m_threads') = {i \in ToSet(m_threads) : ~obj[i].delete}
          /\ Len(nodes') <= Len(nodes) /\ \A k \in 1..Len(nodes') : nodes'[k] = nodes[k]
          /\ \/ m_threads' = m_threads /\ nodes' = nodes /\ raced' = raced
             \/ raced' = raced \cup Waiting
      BY <2>0, <2>5, Purged DEF Purge
    <3>3. ToSet(m_threads') \subseteq ToSet(m_threads) /\ ToSet(nodes') \subseteq ToSet(nodes)
      <4>1. \A k \in 1..Len(nodes') : k \in 1..Len(nodes) /\ nodes'[k] = nodes[k]
        BY <2>0, <3>2
      <4>2. ToSet(m_threads') \subseteq ToSet(m_threads)
        BY <3>2
      <4>3. \A x \in ToSet(nodes') : \E k \in 1..Len(nodes') : nodes'[k] = x
        BY <2>s, <3>2
      <4>4. \A k \in 1..Len(nodes) : nodes[k] \in ToSet(nodes)
        BY <2>s, <2>t
      <4>5. \A x \in ToSet(nodes') : x \in ToSet(nodes)
        BY <4>1, <4>3, <4>4
      <4> QED BY <4>2, <4>5
    <3>4. TypeOK' /\ CallerInv'
      <4>1. raced' \subseteq Agents
        BY <2>0, <3>2 DEF TypeOK, Waiting
      <4> QED BY <2>0, <3>1, <3>2, <4>1 DEF TypeOK, CallerInv
    <3>5. NewInv' /\ ObjectInv'
      BY <2>0, <3>1, <3>3 DEF NewInv, ObjectInv
    <3>6. NodesInv'
      <4>1. \A k \in 1..Len(nodes') : k \in 1..Len(nodes) /\ nodes'[k] = nodes[k]
        BY <2>0, <3>2
      <4> QED BY <2>0, <3>1, <3>3, <4>1 DEF NodesInv
    <3>7. WaitInv' /\ NoDangling'
      <4>1. OneCaller => a = Main /\ Waiting = {}
        BY <3>1 DEF OneCaller, Waiting
      <4>2. ASSUME NEW b \in Agents, b \notin raced', loc[b] \in {"found", "join"}
            PROVE  b \notin raced /\ UNCHANGED <<m_threads, nodes>>
        BY <3>2, <4>2 DEF Waiting
      <4>3. OneCaller => raced' = {}
        BY <2>0, <3>2, <4>1 DEF WaitInv
      <4>4. WaitInv'
        BY <2>0, <3>1, <4>2, <4>3 DEF WaitInv, OneCaller
      <4> QED BY <2>5, <3>1, <4>4 DEF NoDangling
    <3> QED BY <3>4, <3>5, <3>6, <3>7 DEF IInv
  <2>6. ASSUME NEW a \in Agents, WaitFind(a), fault = "none" PROVE IInv'
    <3>1. PICK k \in 1..Len(m_threads) :
            want' = [want EXCEPT ![a] = m_threads[k]] /\ at' = [at EXCEPT ![a] = nodes[k]]
      BY <2>6 DEF WaitFind
    <3>2. /\ loc[a] = "idle" /\ m_locker = 0 /\ loc' = [loc EXCEPT ![a] = "found"]
          /\ UNCHANGED <<m_locker, m_id, m_threads, nodes, obj, life, LuaTT_threadEnabled, fault, raced>>
          /\ (a # Main => life[a] = "run")
      BY <2>6 DEF WaitFind
    <3>3. m_threads[k] \in Ids /\ nodes[k] \in Ids
      BY <2>0, ElementOfSeq DEF TypeOK
    <3>4. TypeOK'
      BY <2>0, <3>1, <3>2, <3>3 DEF TypeOK
    <3>5. CallerInv' /\ NewInv'
      BY <2>0, <3>1, <3>2 DEF CallerInv, NewInv, TypeOK
    <3>6. NodesInv' /\ ObjectInv'
      BY <2>0, <3>2 DEF NodesInv, ObjectInv
    <3>7. WaitInv' /\ NoDangling'
      <4>1. OneCaller' => OneCaller
        BY <2>0, <3>2 DEF OneCaller, TypeOK
      <4>2. /\ loc'[a] = "found" /\ want'[a] = m_threads[k] /\ at'[a] = nodes[k]
            /\ \A b \in Agents : b # a => UNCHANGED <<loc[b], want[b], at[b]>>
        BY <2>0, <3>1, <3>2 DEF TypeOK
      <4> QED BY <2>0, <2>6, <3>2, <3>3, <4>1, <4>2 DEF WaitInv, NoDangling
    <3> QED BY <3>4, <3>5, <3>6, <3>7 DEF IInv
  <2>7. ASSUME NEW a \in Agents, WaitDeref(a), fault = "none" PROVE IInv'
    <3>1. /\ loc[a] = "found"
          /\ UNCHANGED <<m_locker, m_id, m_threads, nodes, obj, life, LuaTT_threadEnabled>>
      BY <2>7 DEF WaitDeref
    <3> DEFINE target == m_threads[CHOOSE k \in 1..Len(nodes) : nodes[k] = at[a]]
    <3>2. CASE at[a] \notin ToSet(nodes)
      <4>1. fault' = "dangling" /\ UNCHANGED <<loc, want, at, raced>>
        BY <2>7, <3>2 DEF WaitDeref
      <4>2. a \in raced /\ ~OneCaller
        <5>1. ASSUME a \notin raced PROVE FALSE
          <6>1. PICK m \in 1..Len(m_threads) : at[a] = nodes[m]
            BY <2>0, <3>1, <5>1 DEF WaitInv
          <6> QED BY <2>0, <2>t, <2>s, <3>2, <6>1
        <5> QED BY <2>0, <5>1 DEF WaitInv
      <4> QED BY <2>0, <3>1, <4>1, <4>2 DEF IInv, TypeOK, CallerInv, NewInv, NodesInv, ObjectInv, WaitInv, NoDangling, OneCaller
    <3>3. CASE at[a] \in ToSet(nodes)
      <4>1. \E k \in 1..Len(nodes) : nodes[k] = at[a]
        BY <2>t, <2>s, <3>3
      <4>2. PICK k \in 1..Len(nodes) : nodes[k] = at[a] /\ target = m_threads[k]
        BY <4>1
      <4>3. target \in Ids /\ target \in ToSet(m_threads)
        BY <2>0, <2>t, <2>s, <4>2, ElementOfSeq
      <4>4. a \notin raced => target = want[a]
        <5> SUFFICES ASSUME a \notin raced PROVE target = want[a]
          OBVIOUS
        <5>1. PICK m \in 1..Len(m_threads) : want[a] = m_threads[m] /\ at[a] = nodes[m]
          BY <2>0, <3>1 DEF WaitInv
        <5> QED BY <2>0, <4>2, <5>1 DEF NodesInv
      <4>5. \/ fault' = "null" /\ UNCHANGED <<loc, want, at, raced>>
            \/ /\ UNCHANGED fault
               /\ \/ EndWait(a) /\ target = a
                  \/ /\ loc' = [loc EXCEPT ![a] = "join"] /\ at' = [at EXCEPT ![a] = target]
                     /\ UNCHANGED <<want, raced>>
        BY <2>7, <3>3 DEF WaitDeref
      <4> HIDE DEF target
      <4>6. TypeOK'
        <5>1. raced' \subseteq Agents /\ fault' \in {"none", "null", "dangling"}
          BY <2>0, <4>5 DEF TypeOK, EndWait
        <5>2. /\ loc' \in [Agents -> {"idle", "barred", "new", "found", "join"}]
              /\ want' \in [Agents -> Ids \cup {None}] /\ at' \in [Agents -> Ids \cup {None}]
          <6> USE <2>0 DEF TypeOK
          <6>1. CASE UNCHANGED <<loc, want, at>>
            BY <6>1
          <6>2. CASE EndWait(a)
            BY <6>2 DEF EndWait
          <6>3. CASE /\ loc' = [loc EXCEPT ![a] = "join"] /\ at' = [at EXCEPT ![a] = target]
                     /\ UNCHANGED want
            BY <4>3, <6>3
          <6> QED BY <4>5, <6>1, <6>2, <6>3
        <5> QED BY <2>0, <3>1, <5>1, <5>2 DEF TypeOK
      <4>9. CallerInv'
        BY <2>0, <3>1, <4>3, <4>5 DEF TypeOK, CallerInv, EndWait
      <4>10. NewInv'
        BY <2>0, <3>1, <4>3, <4>5 DEF TypeOK, NewInv, EndWait
      <4>7. NodesInv' /\ ObjectInv'
        BY <2>0, <3>1 DEF NodesInv, ObjectInv
      <4>8. WaitInv' /\ NoDangling'
        <5>1. fault' # "dangling"
          BY <2>7, <4>5
        <5>2. \A b \in Agents : b # a => /\ UNCHANGED <<loc[b], want[b], at[b]>>
                                         /\ (b \in raced' <=> b \in raced)
          BY <2>0, <4>5 DEF TypeOK, EndWait
        <5>3. OneCaller' => OneCaller /\ raced' \subseteq raced
          BY <2>0, <3>1, <4>5 DEF TypeOK, OneCaller, EndWait
        <5>4. \A b \in Agents : want'[b] # None <=> loc'[b] \in {"found", "join"}
          BY <2>0, <3>1, <4>5 DEF TypeOK, WaitInv, EndWait
        <5>5. a \notin raced' =>
                /\ loc'[a] = "found" => UNCHANGED <<loc[a], want[a], at[a], raced>>
                /\ loc'[a] = "join" => /\ a \notin raced /\ at'[a] = target /\ want'[a] = want[a]
          BY <2>0, <3>1, <4>3, <4>5 DEF TypeOK, EndWait
        <5>6. OneCaller' => raced' = {}
          BY <2>0, <5>3 DEF WaitInv
        <5>7. ASSUME NEW b \in Agents, b \notin raced'
              PROVE  /\ loc'[b] = "found" => \E j \in 1..Len(m_threads') :
                                               want'[b] = m_threads'[j] /\ at'[b] = nodes'[j]
                     /\ loc'[b] = "join" => at'[b] = want'[b] /\ at'[b] \in ToSet(m_threads')
          <6>1. CASE b = a
            BY <2>0, <3>1, <4>3, <4>4, <5>5, <5>7, <6>1 DEF WaitInv
          <6>2. CASE b # a
            <7>1. b \notin raced /\ UNCHANGED <<loc[b], want[b], at[b], m_threads, nodes>>
              BY <3>1, <5>2, <5>7, <6>2
            <7> QED BY <2>0, <7>1 DEF WaitInv
          <6> QED BY <6>1, <6>2
        <5>8. WaitInv'
          BY <5>4, <5>6, <5>7 DEF WaitInv
        <5> QED BY <5>1, <5>8 DEF NoDangling
      <4> QED BY <4>6, <4>7, <4>8, <4>9, <4>10 DEF IInv
    <3> QED BY <3>2, <3>3
  <2>8. ASSUME NEW a \in Agents, WaitJoined(a), fault = "none" PROVE IInv'
    <3>1. /\ loc[a] = "join"
          /\ UNCHANGED <<m_locker, m_id, m_threads, nodes, obj, life, LuaTT_threadEnabled>>
          /\ \/ EndWait(a) /\ UNCHANGED fault
             \/ /\ at[a] \notin ToSet(m_threads) /\ fault' = "dangling"
                /\ UNCHANGED <<loc, want, at, raced>>
      BY <2>8 DEF WaitJoined
    <3>2. OneCaller' <=> OneCaller
      BY <2>0, <3>1 DEF TypeOK, OneCaller, EndWait
    <3>3. TypeOK' /\ CallerInv' /\ NewInv'
      <4>1. CASE UNCHANGED <<loc, want, at, raced>>
        BY <2>0, <3>1, <4>1 DEF TypeOK, CallerInv, NewInv
      <4>2. CASE EndWait(a)
        <5>1. TypeOK'
          BY <2>0, <3>1, <4>2 DEF TypeOK, EndWait
        <5> QED BY <2>0, <3>1, <4>2, <5>1 DEF TypeOK, CallerInv, NewInv, EndWait
      <4> QED BY <3>1, <4>1, <4>2
    <3>4. NodesInv' /\ ObjectInv'
      BY <2>0, <3>1 DEF NodesInv, ObjectInv
    <3>5. WaitInv'
      BY <2>0, <3>1, <3>2 DEF TypeOK, WaitInv, EndWait
    <3>6. NoDangling'
      <4>1. fault' = "dangling" => a \in raced /\ raced' = raced /\ ~OneCaller
        BY <2>0, <2>8, <3>1 DEF WaitInv
      <4> QED BY <3>2, <4>1 DEF NoDangling
    <3> QED BY <3>3, <3>4, <3>5, <3>6 DEF IInv
  <2>9. ASSUME NEW i \in Ids, ScriptEnds(i), fault = "none" PROVE IInv'
    <3>1. /\ life[i] = "run" /\ loc[i] \in {"idle", "barred"} /\ life' = [life EXCEPT ![i] = "exit"]
          /\ UNCHANGED <<m_locker, m_id, m_threads, nodes, obj, LuaTT_threadEnabled, loc, want, at, fault, raced>>
      BY <2>9 DEF ScriptEnds
    <3>2. TypeOK' /\ CallerInv' /\ NewInv'
      BY <2>0, <3>1 DEF TypeOK, CallerInv, NewInv
    <3>3. NodesInv' /\ ObjectInv'
      <4>1. \A j \in Ids : life'[j] \in {"run", "exit"} <=> life[j] \in {"run", "exit"}
        BY <2>0, <3>1 DEF TypeOK
      <4>2. \A j \in Ids : life[j] = "ended" => life'[j] = "ended"
        BY <2>0, <3>1 DEF TypeOK
      <4>3. \A j \in ToSet(m_threads) : j \in Ids
        BY <2>t, <2>s, ElementOfSeq
      <4> QED BY <2>0, <3>1, <4>1, <4>2, <4>3 DEF NodesInv, ObjectInv
    <3>4. WaitInv' /\ NoDangling'
      BY <2>0, <3>1 DEF WaitInv, NoDangling, OneCaller
    <3> QED BY <3>2, <3>3, <3>4 DEF IInv
  <2>10. ASSUME NEW i \in Ids, NEW failed \in BOOLEAN, Exit(i, failed), fault = "none" PROVE IInv'
    <3>1. /\ life[i] = "exit" /\ m_locker = 0 /\ life' = [life EXCEPT ![i] = "ended"]
          /\ obj' = IF i \notin ToSet(m_threads) THEN obj
                    ELSE IF failed THEN [obj EXCEPT ![i].running = FALSE, ![i].error = TRUE]
                    ELSE [obj EXCEPT ![i].running = FALSE, ![i].delete = TRUE]
          /\ UNCHANGED <<m_locker, m_id, m_threads, nodes, LuaTT_threadEnabled, loc, want, at, fault, raced>>
      BY <2>10 DEF Exit
    <3>2. TypeOK'
      <4>1. obj' \in [Ids -> [running : BOOLEAN, error : BOOLEAN, delete : BOOLEAN, thread : BOOLEAN,
                              born : BOOLEAN]]
        <5>1. obj \in [Ids -> [running : BOOLEAN, error : BOOLEAN, delete : BOOLEAN, thread : BOOLEAN,
                               born : BOOLEAN]]
          BY <2>0 DEF TypeOK
        <5> QED BY <3>1, <5>1
      <4> QED BY <2>0, <3>1, <4>1 DEF TypeOK
    <3>3. CallerInv' /\ NewInv'
      BY <2>0, <3>1 DEF TypeOK, CallerInv, NewInv
    <3>4. NodesInv'
      BY <2>0, <3>1 DEF NodesInv
    <3>5. ObjectInv'
      <4>1. \A j \in ToSet(m_threads) : j \in Ids
        BY <2>t, <2>s, ElementOfSeq
      <4>2. i \in ToSet(m_threads) =>
              /\ obj'[i].running = FALSE /\ obj'[i].born = obj[i].born /\ life'[i] = "ended"
              /\ failed => obj'[i].delete = obj[i].delete
              /\ ~failed => obj'[i].error = obj[i].error
        <5>1. obj \in [Ids -> [running : BOOLEAN, error : BOOLEAN, delete : BOOLEAN, thread : BOOLEAN,
                               born : BOOLEAN]] /\ life'[i] = "ended"
          BY <2>0, <3>1 DEF TypeOK
        <5>2. CASE failed
          BY <3>1, <5>1, <5>2
        <5>3. CASE ~failed
          BY <3>1, <5>1, <5>3
        <5> QED BY <5>2, <5>3
      <4>3. \A j \in Ids : j # i => obj'[j] = obj[j] /\ life'[j] = life[j]
        BY <2>0, <3>1 DEF TypeOK
      <4>4. i \in ToSet(m_threads) => ~obj[i].error /\ (obj[i].delete => obj[i].born)
        BY <2>0, <3>1 DEF ObjectInv
      <4> QED BY <2>0, <3>1, <4>1, <4>2, <4>3, <4>4 DEF ObjectInv
    <3>6. WaitInv' /\ NoDangling'
      BY <2>0, <3>1 DEF WaitInv, NoDangling, OneCaller
    <3> QED BY <3>2, <3>3, <3>4, <3>5, <3>6 DEF IInv
  <2> QED
    BY <2>1, <2>2, <2>3, <2>4, <2>5, <2>6, <2>7, <2>8, <2>9, <2>10 DEF Next, Wait, Ends
<1> QED BY <1>1, <1>2, PTL DEF Spec

(* Types are respected.                                                    *)
THEOREM TypeCorrect == Spec => []TypeOK
<1>1. IInv => TypeOK
  BY DEF IInv
<1> QED BY <1>1, Invariance, PTL

(* The exit of a thread is never missed.                                   *)
THEOREM ExitsSeen == Spec => []ExitRecorded
<1>1. IInv => ExitRecorded
  BY DEF IInv, ObjectInv, ExitRecorded, InTable
<1> QED BY <1>1, Invariance, PTL

(* Whoever calls, Wait_Thread follows a dead iterator or joins a freed     *)
(* thread only if another caller has taken an object out of the table while*)
(* it was under way; a single caller never does (LuaThread.cpp:231-232).   *)
THEOREM IteratorsGood == Spec => []NoDangling
<1>1. IInv => NoDangling
  BY DEF IInv
<1> QED BY <1>1, Invariance, PTL

(* Only a thread that ended without an error leaves the table, or one that *)
(* was marked from its birth.                                              *)
THEOREM Leavers == Spec => OnlyFinishedLeave
<1> DEFINE Leaves == \A i \in Ids : (InTable(i) /\ ~InTable(i)')
                       => \/ life[i] = "ended" /\ ~obj[i].error
                          \/ obj[i].born
<1>1. IInv /\ [Next]_vars => [Leaves]_vars
  <2> SUFFICES ASSUME IInv, Next, NEW i \in Ids, InTable(i), ~InTable(i)'
               PROVE  (life[i] = "ended" /\ ~obj[i].error) \/ obj[i].born
    OBVIOUS
  <2>0. TypeOK /\ ObjectInv /\ m_threads \in Seq(Ids)
    BY DEF IInv, TypeOK
  <2>1. CASE UNCHANGED m_threads
    BY <2>1 DEF InTable
  <2>2. CASE CheckDeleteLater
    <3>1. obj[i].delete
      BY <2>0, <2>2, Purged DEF InTable
    <3> QED BY <2>0, <3>1 DEF ObjectInv, InTable
  <2>3. ASSUME NEW a \in Agents, NewInsert(a) PROVE FALSE
    <3>1. m_threads' = Append(m_threads, at[a]) /\ at[a] \in Ids
      BY <2>0, <2>3, ThreadTableAssumption DEF NewInsert, IInv, NewInv
    <3>2. Len(m_threads') = Len(m_threads) + 1 /\ m_threads' \in Seq(Ids) /\ Len(m_threads) \in Nat
      BY <2>0, <3>1
    <3>3. \A k \in 1..Len(m_threads) : m_threads'[k] = m_threads[k] /\ k \in 1..Len(m_threads')
      BY <2>0, <3>1, <3>2
    <3>4. DOMAIN m_threads = 1..Len(m_threads) /\ DOMAIN m_threads' = 1..Len(m_threads')
      BY <2>0, <3>2
    <3> QED BY <3>3, <3>4 DEF InTable, ToSet
  <2> QED
    BY <2>1, <2>2, <2>3 DEF Next, FirstThink, NewStart, Purge, WaitFind, Wait, WaitDeref, WaitJoined, Ends,
       ScriptEnds, Exit
<1>2. Spec => [][Leaves]_vars
  BY <1>1, Invariance, PTL DEF Spec
<1> QED BY <1>2 DEF OnlyFinishedLeave

(* Whoever calls, Wait_Thread returns only after the thread it names has   *)
(* ended, but for a caller that names itself and one under whom another    *)
(* caller has taken an object out of the table (LuaThread.cpp:225-233).    *)
THEOREM WaitsFully == Spec => WaitMeansEnded
<1> DEFINE Ended == \A a \in Agents : (want[a] # None /\ want'[a] = None)
                      => life[want[a]] = "ended" \/ want[a] = a \/ a \in raced
<1>1. IInv /\ [Next]_vars => [Ended]_vars
  <2> SUFFICES ASSUME IInv, Next, NEW a \in Agents, want[a] # None, want'[a] = None, a \notin raced
               PROVE  life[want[a]] = "ended" \/ want[a] = a
    OBVIOUS
  <2>0. /\ TypeOK /\ WaitInv /\ NodesInv /\ want \in [Agents -> Ids \cup {None}]
        /\ m_threads \in Seq(Ids) /\ nodes \in Seq(Ids) /\ Len(nodes) = Len(m_threads)
    BY DEF IInv, TypeOK
  <2>1. loc[a] \in {"found", "join"}
    BY <2>0 DEF WaitInv
  <2>2. CASE UNCHANGED want
    BY <2>2
  <2>3. ASSUME NEW b \in Agents, WaitFind(b) PROVE FALSE
    <3>1. PICK k \in 1..Len(m_threads) : want' = [want EXCEPT ![b] = m_threads[k]]
      BY <2>3 DEF WaitFind
    <3>2. a # b
      BY <2>1, <2>3 DEF WaitFind, Ready
    <3> QED BY <2>0, <3>1, <3>2
  <2>4. ASSUME NEW b \in Agents, WaitDeref(b), ~UNCHANGED want PROVE want[a] = a
    <3> DEFINE target == m_threads[CHOOSE k \in 1..Len(nodes) : nodes[k] = at[b]]
    <3>1. loc[b] = "found" /\ at[b] \in ToSet(nodes) /\ target = b /\ EndWait(b)
      BY <2>4 DEF WaitDeref
    <3>2. b = a
      BY <2>0, <3>1 DEF EndWait
    <3>3. \E k \in 1..Len(nodes) : nodes[k] = at[b]
      <4>1. DOMAIN nodes = 1..Len(nodes)
        BY <2>0
      <4> QED BY <3>1, <4>1 DEF ToSet
    <3>4. PICK k \in 1..Len(nodes) : nodes[k] = at[b] /\ target = m_threads[k]
      BY <3>3
    <3>5. PICK m \in 1..Len(m_threads) : want[a] = m_threads[m] /\ at[a] = nodes[m]
      BY <2>0, <3>1, <3>2 DEF WaitInv
    <3>6. k = m
      BY <2>0, <3>2, <3>4, <3>5 DEF NodesInv
    <3> QED BY <3>1, <3>2, <3>4, <3>5, <3>6
  <2>5. ASSUME NEW b \in Agents, WaitJoined(b), ~UNCHANGED want PROVE life[want[a]] = "ended"
    <3>1. loc[b] = "join" /\ life[at[b]] = "ended" /\ EndWait(b)
      BY <2>5 DEF WaitJoined
    <3>2. b = a
      BY <2>0, <3>1 DEF EndWait
    <3> QED BY <2>0, <3>1, <3>2 DEF WaitInv
  <2> QED
    BY <2>2, <2>3, <2>4, <2>5 DEF Next, FirstThink, NewStart, NewInsert, Purge, Wait, Ends, ScriptEnds, Exit
<1>2. Spec => [][Ended]_vars
  BY <1>1, Invariance, PTL DEF Spec
<1> QED BY <1>2 DEF WaitMeansEnded
=============================================================================
