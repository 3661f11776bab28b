------------------------ MODULE DARegistrations_proofs -----------------------
(***************************************************************************)
(* The Lua states and what scripts register with the server's DA plugin    *)
(* (LuaManager.cpp, LuaFunctionsDA.cpp, hooks.cpp), for any number of      *)
(* files, states, names and registrations, through any nesting of hooks,   *)
(* reloads and removals: no state is lost, pointers lead into open states, *)
(* the two lists of commands agree, and a call the code leaves undefined   *)
(* has one of the causes that did records.                                 *)
(***************************************************************************)
EXTENDS DARegistrations, TLAPS, SequenceTheorems

(* The calls that may be on the stack.                                     *)
Frames ==
  [kind : {"file", "handler"}, L : States]
    \cup [kind : {"hook", "unload"}, next : Nat, len : Nat, stale : BOOLEAN]
    \cup [kind : {"command"}, next : Nat, len : Nat, stale : BOOLEAN,
          func : Callbacks, gone : BOOLEAN]

(* What holds of one call under way.  A walk that is not stale knows how   *)
(* long Lua is; one that is has a cause in did.  A file runs in an open    *)
(* state that is not yet in Lua, and whatever runs, in an open state.      *)
FrameOK(c) ==
  /\ c.kind \in Walks =>
       /\ c.next \in 1..(c.len + 1)
       /\ IF c.stale THEN did \cap {"destroyed", "loaded in a hook"} # {} ELSE c.len = Len(Lua)
  /\ c.kind = "command" /\ c.gone => "unregistered itself" \in did
  /\ c.kind \notin Walks => c.L \in 1..created /\ (c.L \in open \/ "destroyed" \in did)
  /\ c.kind = "file" => c.L \in open \ ToSet(Lua) /\ fileOf[c.L] \in Files

(* What holds of a call c over a call b: a file has a state of its own,    *)
(* and below a walk it was loaded by a handler.                            *)
OverOK(b, c) ==
  c.kind = "file" =>
    IF b.kind \in Walks THEN "loaded in a hook" \in did ELSE b.L # c.L

StackInv ==
  /\ stack \in Seq(Frames)
  /\ \A k \in 1..Len(stack) :
       FrameOK(stack[k]) /\ \A j \in 1..(k - 1) : OverOK(stack[j], stack[k])

(* Lua has each state once, and no state is lost.                          *)
ManagerInv ==
  /\ created \in 0..MaxStates
  /\ Lua \in Seq(1..created) /\ IsInjective(Lua)
  /\ open \subseteq 1..created
  /\ open = ToSet(Lua) \cup Loading

(* What remains of DATypeOK.                                               *)
TypeInv ==
  /\ LuaNames \in Seq(Files) /\ Reload_Flag \in BOOLEAN
  /\ fileOf \in [States -> Files \cup {"none"}]
  /\ Scripts \subseteq [name : Names, L : States] /\ attached \subseteq [name : Names, L : States]
  /\ todo \in Seq(Files) /\ phase \in {"boot", "run", "reload"}
  /\ phase = "run" => todo = <<>>
  /\ fault \in {"none", "closed state", "iterator", "freed command"}
  /\ LuaTT_DAChatList \subseteq Callbacks /\ triggers \subseteq Callbacks /\ managersList = {}
  /\ kept \subseteq States /\ did \subseteq Hazards

IInv ==
  /\ TypeInv /\ StackInv /\ ManagerInv
  /\ AttachedRegistered /\ UndefinedHasCause /\ PointedOpen /\ CommandsListed

(* A call and what a step makes of it.                                     *)
Kin(b, c) == b.kind = c.kind /\ (b.kind \notin Walks => b.L = c.L)

(* What becomes of a walk: it comes to index n, Lua changes under it, and  *)
(* its command is deleted.                                                 *)
Moved(c, n) == [c EXCEPT !.next = n]
Broken(c)   == [c EXCEPT !.stale = TRUE]
Bereft(c)   == [c EXCEPT !.gone = TRUE]

-----------------------------------------------------------------------------
(* The calls below the innermost one.                                      *)
LEMMA Popped ==
  ASSUME NEW S, NEW s \in Seq(S), s # <<>>
  PROVE  /\ Front(s) \in Seq(S) /\ Len(Front(s)) = Len(s) - 1
         /\ \A k \in 1..(Len(s) - 1) : Front(s)[k] = s[k]
         /\ Len(s) \in 1..Len(s) /\ Last(s) = s[Len(s)] /\ Last(s) \in S
<1>1. Len(s) \in Nat /\ Len(s) # 0
  BY EmptySeq, Zenon
<1>2. Front(s) \in Seq(S) /\ Len(Front(s)) = Len(s) - 1
  <2>1. Front(s) \in Seq(S)
    BY <1>1 DEF Front
  <2>2. Len(Front(s)) = Len(s) - 1
    <3> DEFINE n == Len(s) - 1
    <3>1. n \in Nat /\ n <= Len(s)
      BY <1>1
    <3>2. \A i \in 1..n : s[i] \in S
      BY <1>1, <3>1
    <3>4. Len(SubSeq(s, 1, n)) = n
      <4> HIDE DEF n
      <4> QED BY <3>1, <3>2, SubSeqProperties
    <3> QED BY <3>4 DEF Front
  <2> QED BY <2>1, <2>2
<1>3. \A k \in 1..(Len(s) - 1) : Front(s)[k] = s[k]
  BY <1>1 DEF Front
<1>4. Last(s) = s[Len(s)] /\ Last(s) \in S
  BY <1>1 DEF Last
<1> QED BY <1>1, <1>2, <1>3, <1>4

(* A walk can move on, become stale, and lose its command.                 *)
LEMMA WalkFields ==
  ASSUME NEW c \in Frames, c.kind \in Walks
  PROVE  /\ c.next \in Nat /\ c.len \in Nat /\ c.stale \in BOOLEAN
         /\ \A n \in Nat :
              LET d == Moved(c, n)
              IN  /\ d \in Frames /\ d.kind = c.kind /\ d.next = n /\ d.len = c.len
                  /\ d.stale = c.stale /\ (c.kind = "command" => d.gone = c.gone)
         /\ LET d == Broken(c)
            IN  /\ d \in Frames /\ d.kind = c.kind /\ d.next = c.next /\ d.len = c.len
                /\ d.stale /\ (c.kind = "command" => d.gone = c.gone)
         /\ c.kind = "command" =>
              LET d == Bereft(c)
              IN  /\ d \in Frames /\ d.kind = c.kind /\ d.next = c.next /\ d.len = c.len
                  /\ d.stale = c.stale /\ c.gone \in BOOLEAN /\ d.gone
<1>1. CASE c \in [kind : {"hook", "unload"}, next : Nat, len : Nat, stale : BOOLEAN]
  BY <1>1 DEF Frames, Moved, Broken, Bereft
<1>2. CASE c \in [kind : {"command"}, next : Nat, len : Nat, stale : BOOLEAN,
                 func : Callbacks, gone : BOOLEAN]
  BY <1>2 DEF Frames, Moved, Broken, Bereft
<1> QED BY <1>1, <1>2 DEF Frames, Walks

-----------------------------------------------------------------------------
(* Each step keeps the calls right and loses no state.                     *)
LEMMA CallsAndStates ==
  ASSUME TypeInv, StackInv, ManagerInv, DANext
  PROVE  StackInv' /\ ManagerInv'

(* What Stale makes of the calls.                                          *)
<1>stale. ASSUME NEW s \in Seq(Frames)
          PROVE  /\ Stale(s) \in Seq(Frames) /\ Len(Stale(s)) = Len(s)
                 /\ \A k \in 1..Len(s) :
                      /\ Kin(s[k], Stale(s)[k])
                      /\ s[k].kind \notin Walks => Stale(s)[k] = s[k]
                      /\ s[k].kind \in Walks =>
                           /\ Stale(s)[k].stale
                           /\ Stale(s)[k].next = s[k].next /\ Stale(s)[k].len = s[k].len
                           /\ s[k].kind = "command" => Stale(s)[k].gone = s[k].gone
  <2> USE <1>stale
  <2> DEFINE st(c) == IF c.kind \in Walks THEN Broken(c) ELSE c
  <2>1. \A c \in Frames :
          /\ st(c) \in Frames /\ Kin(c, st(c))
          /\ c.kind \notin Walks => st(c) = c
          /\ c.kind \in Walks =>
               /\ st(c).stale /\ st(c).next = c.next /\ st(c).len = c.len
               /\ c.kind = "command" => st(c).gone = c.gone
    BY WalkFields DEF Kin
  <2>2. Stale(s) = [k \in 1..Len(s) |-> st(s[k])]
    BY DEF Stale, Broken
  <2>3. \A k \in 1..Len(s) : s[k] \in Frames
    OBVIOUS
  <2> HIDE DEF st
  <2>4. Stale(s) \in Seq(Frames) /\ Len(Stale(s)) = Len(s)
    BY <2>1, <2>2, <2>3
  <2> QED BY <2>1, <2>2, <2>3, <2>4

(* A step of the calls that keeps the ones it leaves and makes at most one *)
(* more, with a right place, keeps them right.                             *)
<1>calls. ASSUME StackInv, did \subseteq did', stack' \in Seq(Frames),
                 Len(stack') <= Len(stack) + 1,
                 \A k \in 1..Len(stack') : k <= Len(stack) => Kin(stack[k], stack'[k]),
                 (\A k \in 1..Len(stack) : FrameOK(stack[k]))',
                 (\A j \in 1..(Len(stack) - 1) : OverOK(stack[j], stack[Len(stack)]))'
                   \/ Len(stack') <= Len(stack)
          PROVE  StackInv'
  <2> USE <1>calls
  <2> SUFFICES ASSUME NEW k \in 1..Len(stack'), NEW j \in 1..(k - 1)
               PROVE  OverOK(stack[j], stack[k])'
    BY DEF StackInv
  <2>0. stack \in Seq(Frames) /\ Len(stack) \in Nat /\ Len(stack') \in Nat
    BY DEF StackInv
  <2>1. CASE k <= Len(stack)
    <3>1. OverOK(stack[j], stack[k])
      BY <2>0, <2>1 DEF StackInv
    <3>2. Kin(stack[k], stack'[k]) /\ Kin(stack[j], stack'[j])
      BY <2>0, <2>1
    <3> QED BY <3>1, <3>2 DEF OverOK, Kin, Walks
  <2>2. CASE ~(k <= Len(stack))
    BY <2>0, <2>2
  <2> QED BY <2>1, <2>2

(* Where files are neither begun nor ended, the same states are loading.   *)
<1>files. ASSUME stack \in Seq(Frames), stack' \in Seq(Frames),
                 \A k \in 1..Len(stack') : k <= Len(stack) => Kin(stack[k], stack'[k]),
                 \A k \in 1..Len(stack') : k > Len(stack) => stack'[k].kind # "file",
                 \A k \in 1..Len(stack) : k > Len(stack') => stack[k].kind # "file"
          PROVE  Loading' = Loading
  <2> USE <1>files
  <2>0. Len(stack) \in Nat /\ Len(stack') \in Nat
    OBVIOUS
  <2>1. \A k \in 1..Len(stack) : stack[k].kind = "file" =>
          k \in 1..Len(stack') /\ stack'[k].kind = "file" /\ stack'[k].L = stack[k].L
    BY <2>0 DEF Kin, Walks
  <2>2. \A k \in 1..Len(stack') : stack'[k].kind = "file" =>
          k \in 1..Len(stack) /\ stack[k].kind = "file" /\ stack'[k].L = stack[k].L
    BY <2>0 DEF Kin, Walks
  <2> QED BY <2>1, <2>2 DEF Loading
<1>0. /\ MaxStates \in Nat /\ created \in 0..MaxStates /\ States = 1..MaxStates
      /\ stack \in Seq(Frames) /\ Len(stack) \in Nat
      /\ \A k \in 1..Len(stack) : stack[k] \in Frames /\ FrameOK(stack[k])
  BY LuaStatesAssumption DEF StackInv, ManagerInv, States

(* Most steps leave the manager alone and begin or end one call, not that  *)
(* of a file, or none.                                                     *)
<1>1. ASSUME UNCHANGED manager, did \subseteq did',
             \/ stack' = stack
             \/ stack # <<>> /\ stack' = Front(stack) /\ Top.kind # "file"
             \/ \E c \in Frames : stack' = Append(stack, c) /\ c.kind # "file" /\ FrameOK(c)
      PROVE  StackInv' /\ ManagerInv'
  <2>1. \A c : FrameOK(c) => FrameOK(c)'
    BY <1>1 DEF FrameOK, manager
  <2>2. /\ stack' \in Seq(Frames) /\ Len(stack') \in Nat /\ Len(stack') <= Len(stack) + 1
        /\ \A k \in 1..Len(stack') : k <= Len(stack) => stack'[k] = stack[k]
        /\ \A k \in 1..Len(stack') :
             k > Len(stack) => stack'[k].kind # "file" /\ FrameOK(stack'[k])
        /\ \A k \in 1..Len(stack) : k > Len(stack') => stack[k].kind # "file"
    <3>1. CASE stack' = stack
      BY <1>0, <3>1
    <3>2. CASE stack # <<>> /\ stack' = Front(stack) /\ Top.kind # "file"
      BY <1>0, <3>2, Popped DEF Top
    <3>3. CASE \E c \in Frames : stack' = Append(stack, c) /\ c.kind # "file" /\ FrameOK(c)
      BY <1>0, <3>3
    <3> QED BY <1>1, <3>1, <3>2, <3>3
  <2>3. (\A k \in 1..Len(stack) : FrameOK(stack[k]))'
    <3> SUFFICES ASSUME NEW k \in 1..Len(stack') PROVE FrameOK(stack[k])'
      OBVIOUS
    <3>1. FrameOK(stack'[k])
      BY <1>0, <2>2
    <3> QED BY <2>1, <3>1 DEF FrameOK
  <2>4. StackInv'
    <3>1. \A k \in 1..Len(stack') : k <= Len(stack) => Kin(stack[k], stack'[k])
      BY <2>2 DEF Kin
    <3>2. \/ (\A j \in 1..(Len(stack) - 1) : OverOK(stack[j], stack[Len(stack)]))'
          \/ Len(stack') <= Len(stack)
      <4> SUFFICES ASSUME Len(stack') > Len(stack), NEW j \in 1..(Len(stack') - 1)
                   PROVE  OverOK(stack[j], stack[Len(stack)])'
        BY <1>0, <2>2
      <4>1. stack'[Len(stack')].kind # "file"
        BY <1>0, <2>2
      <4> QED BY <4>1 DEF OverOK
    <3> QED BY <1>1, <2>2, <2>3, <3>1, <3>2, <1>calls
  <2>5. Loading' = Loading
    BY <1>0, <2>2, <1>files DEF Kin
  <2> QED BY <1>1, <2>4, <2>5 DEF ManagerInv, manager

(* A new state is opened and its file begins.                              *)
<1>2. ASSUME NEW f \in Files, LoadBegin(f), did \subseteq did', Walking => "loaded in a hook" \in did'
      PROVE  StackInv' /\ ManagerInv'
  <2> DEFINE L == created + 1
  <2>1. /\ created' = L /\ UNCHANGED Lua
        /\ stack' = Append(stack, File(L)) /\ open' = open \cup {L}
        /\ fileOf' = [fileOf EXCEPT ![L] = f]
    BY <1>2 DEF LoadBegin
  <2>a. /\ L \in States /\ L \notin 1..created
        /\ 1..created' = 1..created \cup {L} /\ 1..created \subseteq States
    <3>1. created < MaxStates
      BY <1>2 DEF LoadBegin
    <3>2. L \in States /\ L \notin 1..created /\ 1..created \subseteq States
      BY <1>0, <3>1
    <3>3. 1..created' = 1..created \cup {L}
      BY <1>0, <2>1
    <3> QED BY <3>2, <3>3
  <2> HIDE DEF L
  <2>2. L \notin ToSet(Lua) /\ L \notin open
    BY <1>0, <2>a DEF ManagerInv, ToSet
  <2>3. File(L) \in Frames /\ File(L).kind = "file" /\ File(L).L = L
    BY <2>a DEF File, Frames
  <2>4. fileOf'[L] = f /\ \A s \in 1..created : fileOf'[s] = fileOf[s]
    BY <2>1, <2>a DEF TypeInv
  <2>5. /\ stack' \in Seq(Frames) /\ Len(stack') = Len(stack) + 1 /\ stack'[Len(stack')] = File(L)
        /\ \A k \in 1..Len(stack) : stack'[k] = stack[k]
    BY <1>0, <2>1, <2>3
  <2>6. (\A k \in 1..Len(stack) : FrameOK(stack[k]))'
    <3> SUFFICES ASSUME NEW k \in 1..Len(stack') PROVE FrameOK(stack[k])'
      OBVIOUS
    <3>1. CASE k = Len(stack')
      BY <1>2, <2>1, <2>a, <2>2, <2>3, <2>4, <2>5, <3>1 DEF FrameOK, Walks
    <3>2. CASE k # Len(stack')
      <4>1. FrameOK(stack[k]) /\ stack'[k] = stack[k]
        BY <1>0, <2>5, <3>2
      <4> QED BY <1>0, <1>2, <2>1, <2>a, <2>2, <2>4, <4>1 DEF FrameOK, Walks
    <3> QED BY <3>1, <3>2
  <2>7. (\A j \in 1..(Len(stack) - 1) : OverOK(stack[j], stack[Len(stack)]))'
    <3> SUFFICES ASSUME NEW j \in 1..Len(stack) PROVE OverOK(stack[j], stack[Len(stack)])'
      BY <1>0, <2>5
    <3>1. FrameOK(stack[j]) /\ stack'[j] = stack[j]
      BY <1>0, <2>5
    <3>2. CASE stack[j].kind \in Walks
      BY <1>0, <1>2, <2>5, <3>1, <3>2 DEF OverOK, Walking
    <3>3. CASE stack[j].kind \notin Walks
      BY <2>a, <2>3, <2>5, <3>1, <3>3 DEF OverOK, FrameOK
    <3> QED BY <3>2, <3>3
  <2>8. StackInv'
    <3>1. \A k \in 1..Len(stack') : k <= Len(stack) => Kin(stack[k], stack'[k])
      BY <2>5 DEF Kin
    <3>2. stack' \in Seq(Frames) /\ Len(stack') <= Len(stack) + 1
      BY <1>0, <2>5
    <3> QED BY <1>2, <2>6, <2>7, <3>1, <3>2, <1>calls
  <2>9. Loading' = Loading \cup {L}
    BY <1>0, <2>3, <2>5 DEF Loading
  <2> QED BY <1>0, <2>1, <2>a, <2>2, <2>8, <2>9 DEF ManagerInv, L

(* The file that runs is the only call in its state.                       *)
<1>3. ASSUME Running, Top.kind = "file"
      PROVE  /\ stack # <<>> /\ Top = stack[Len(stack)] /\ Len(stack) \in 1..Len(stack)
             /\ Top.L \in 1..created /\ Top.L \in open \ ToSet(Lua) /\ fileOf[Top.L] \in Files
             /\ \A j \in 1..(Len(stack) - 1) :
                  IF stack[j].kind \in Walks THEN "loaded in a hook" \in did ELSE stack[j].L # Top.L
  <2>1. stack # <<>> /\ Top = stack[Len(stack)] /\ Len(stack) \in 1..Len(stack)
    BY <1>0, <1>3, Popped DEF Running, Top
  <2>2. FrameOK(Top) /\ \A j \in 1..(Len(stack) - 1) : OverOK(stack[j], Top)
    BY <1>0, <2>1 DEF StackInv
  <2> QED BY <1>3, <2>1, <2>2 DEF FrameOK, OverOK, Walks
<1>4. ASSUME Running, Top.kind = "file", stack' \in Seq(Frames), Len(stack') = Len(stack) - 1,
             \A k \in 1..Len(stack') : Kin(stack[k], stack'[k])
      PROVE  Loading' = Loading \ {Top.L}
  <2>0. /\ Len(stack') \in Nat /\ 1..Len(stack') \subseteq 1..Len(stack)
        /\ \A k \in 1..Len(stack) : k \in 1..Len(stack') \/ k = Len(stack)
        /\ \A k \in 1..Len(stack') : k \in 1..(Len(stack) - 1)
    BY <1>0, <1>4
  <2>1. \A k \in 1..Len(stack') : stack'[k].kind = "file" =>
          k \in 1..Len(stack) /\ stack[k].kind = "file" /\ stack[k].L = stack'[k].L /\ stack[k].L # Top.L
    BY <1>3, <1>4, <2>0 DEF Kin, Walks
  <2>2. \A k \in 1..Len(stack) : stack[k].kind = "file" /\ stack[k].L # Top.L =>
          k \in 1..Len(stack') /\ stack'[k].kind = "file" /\ stack[k].L = stack'[k].L
    BY <1>3, <1>4, <2>0 DEF Kin, Walks
  <2> QED BY <2>1, <2>2 DEF Loading

(* A file that fails closes its state.                                     *)
<1>5. ASSUME LoadFailed, did \subseteq did'
      PROVE  StackInv' /\ ManagerInv'
  <2>1. /\ Running /\ Top.kind = "file" /\ stack' = Front(stack) /\ open' = open \ {Top.L}
        /\ UNCHANGED <<Lua, LuaNames, created, fileOf>>
    BY <1>5 DEF LoadFailed
  <2>2. /\ stack' \in Seq(Frames) /\ Len(stack') = Len(stack) - 1
        /\ \A k \in 1..Len(stack') : k \in 1..(Len(stack) - 1) /\ stack'[k] = stack[k]
    BY <1>0, <1>3, <2>1, Popped
  <2>3. \A k \in 1..Len(stack') : Kin(stack[k], stack'[k])
    BY <2>2 DEF Kin
  <2>4. (\A k \in 1..Len(stack) : FrameOK(stack[k]))'
    <3> SUFFICES ASSUME NEW k \in 1..Len(stack') PROVE FrameOK(stack[k])'
      OBVIOUS
    <3>1. FrameOK(stack[k]) /\ stack'[k] = stack[k] /\ k \in 1..(Len(stack) - 1)
      BY <1>0, <2>2
    <3> QED BY <1>3, <1>5, <2>1, <3>1 DEF FrameOK, Walks
  <2>5. StackInv'
    <3>1. Len(stack') <= Len(stack) + 1 /\ Len(stack') <= Len(stack)
      BY <1>0, <2>2
    <3> QED BY <1>5, <2>2, <2>3, <2>4, <3>1, <1>calls
  <2>6. Loading' = Loading \ {Top.L}
    BY <1>4, <2>1, <2>2, <2>3
  <2> QED BY <1>3, <2>1, <2>5, <2>6 DEF ManagerInv

(* A file that ends adds its state to Lua.                                 *)
<1>6. ASSUME LoadDone, did \subseteq did'
      PROVE  StackInv' /\ ManagerInv'
  <2>1. /\ Running /\ Top.kind = "file" /\ Lua' = Append(Lua, Top.L)
        /\ stack' = Stale(Front(stack)) /\ UNCHANGED <<created, fileOf, open>>
    BY <1>6 DEF LoadDone
  <2>2. /\ Front(stack) \in Seq(Frames) /\ Len(Front(stack)) = Len(stack) - 1
        /\ \A k \in 1..(Len(stack) - 1) : Front(stack)[k] = stack[k]
    BY <1>0, <1>3, <2>1, Popped
  <2>3. /\ stack' \in Seq(Frames) /\ Len(stack') = Len(stack) - 1
        /\ \A k \in 1..Len(stack') :
             /\ k \in 1..(Len(stack) - 1) /\ Kin(stack[k], stack'[k])
             /\ stack[k].kind \notin Walks => stack'[k] = stack[k]
             /\ stack[k].kind \in Walks =>
                  /\ stack'[k].stale
                  /\ stack'[k].next = stack[k].next /\ stack'[k].len = stack[k].len
                  /\ stack[k].kind = "command" => stack'[k].gone = stack[k].gone
    BY <2>1, <2>2, <1>stale
  <2>4. /\ Lua' \in Seq(1..created) /\ IsInjective(Lua') /\ ToSet(Lua') = ToSet(Lua) \cup {Top.L}
    <3>1. Lua \in Seq(1..created) /\ Top.L \in 1..created /\ Top.L \notin ToSet(Lua) /\ IsInjective(Lua)
      BY <1>3, <2>1 DEF ManagerInv
    <3>2. /\ Lua' \in Seq(1..created) /\ Len(Lua') = Len(Lua) + 1 /\ Lua'[Len(Lua) + 1] = Top.L
          /\ \A k \in 1..Len(Lua) : Lua'[k] = Lua[k] /\ Lua[k] # Top.L
      BY <2>1, <3>1 DEF ToSet
    <3>3. DOMAIN Lua = 1..Len(Lua) /\ DOMAIN Lua' = 1..(Len(Lua) + 1) /\ Len(Lua) \in Nat
      BY <3>1, <3>2
    <3>4. IsInjective(Lua')
      BY <3>1, <3>2, <3>3 DEF IsInjective
    <3>5. ToSet(Lua') = ToSet(Lua) \cup {Top.L}
      BY <3>2, <3>3 DEF ToSet
    <3> QED BY <3>2, <3>4, <3>5
  <2>5. (\A k \in 1..Len(stack) : FrameOK(stack[k]))'
    <3> SUFFICES ASSUME NEW k \in 1..Len(stack') PROVE FrameOK(stack[k])'
      OBVIOUS
    <3>1. FrameOK(stack[k]) /\ k \in 1..(Len(stack) - 1) /\ Kin(stack[k], stack'[k])
      BY <1>0, <2>3
    <3>2. CASE stack[k].kind \in Walks
      BY <1>3, <1>6, <2>1, <2>3, <3>1, <3>2 DEF FrameOK, Kin, Walks
    <3>3. CASE stack[k].kind \notin Walks
      BY <1>3, <1>6, <2>1, <2>3, <2>4, <3>1, <3>3 DEF FrameOK, Walks
    <3> QED BY <3>2, <3>3
  <2>6. StackInv'
    <3>1. Len(stack') <= Len(stack) + 1 /\ Len(stack') <= Len(stack)
      BY <1>0, <2>3
    <3> QED BY <1>6, <2>3, <2>5, <3>1, <1>calls
  <2>7. Loading' = Loading \ {Top.L}
    BY <1>4, <2>1, <2>3
  <2>8. Top.L \in Loading
    BY <1>3, <2>1 DEF Loading
  <2> QED BY <1>3, <2>1, <2>4, <2>6, <2>7, <2>8 DEF ManagerInv

(* A reload closes what is in Lua when nothing runs.                       *)
<1>7. ASSUME ThinkReload, did \subseteq did'
      PROVE  StackInv' /\ ManagerInv'
  <2>1. /\ stack = <<>> /\ stack' = <<>> /\ Lua' = <<>> /\ open' = open \ ToSet(Lua)
        /\ UNCHANGED created
    BY <1>7 DEF ThinkReload, Quiet
  <2>2. Loading = {} /\ Loading' = {}
    BY <2>1 DEF Loading
  <2>3. StackInv'
    BY <2>1 DEF StackInv
  <2>4. Lua' \in Seq(1..created) /\ IsInjective(Lua') /\ ToSet(Lua') = {}
    BY <2>1 DEF IsInjective, ToSet
  <2> QED BY <2>1, <2>2, <2>3, <2>4 DEF ManagerInv

(* Destroy_Lua_Thread takes one state out of Lua and closes it.            *)
<1>8. ASSUME NEW i \in 1..Len(Lua), DestroyLuaThread(i), did' = did \cup {"destroyed"}
      PROVE  StackInv' /\ ManagerInv'
  <2>1. /\ Lua' = RemoveAt(Lua, i) /\ open' = open \ {Lua[i]} /\ stack' = Stale(stack)
        /\ UNCHANGED <<created, fileOf>>
    BY <1>8 DEF DestroyLuaThread
  <2>2. /\ Lua \in Seq(1..created) /\ Len(Lua) \in Nat /\ i \in Nat /\ 1 <= i /\ i <= Len(Lua)
        /\ \A j, k \in 1..Len(Lua) : Lua[j] = Lua[k] => j = k
    BY DEF ManagerInv, IsInjective
  <2>3. /\ Lua' \in Seq(1..created) /\ Len(Lua') = Len(Lua) - 1
        /\ \A j \in 1..(Len(Lua) - 1) : Lua'[j] = IF j < i THEN Lua[j] ELSE Lua[j + 1]
    <3>1. ASSUME NEW m \in 1..(Len(Lua) + 1), NEW n \in 0..Len(Lua), m <= n + 1
          PROVE  /\ SubSeq(Lua, m, n) \in Seq(1..created) /\ Len(SubSeq(Lua, m, n)) = n - m + 1
                 /\ \A j \in 1..(n - m + 1) : SubSeq(Lua, m, n)[j] = Lua[m + j - 1]
      <4>1. m \in Int /\ n \in Int /\ \A j \in m..n : Lua[j] \in 1..created
        <5>1. \A j \in m..n : j \in 1..Len(Lua)
          BY <2>2
        <5>2. m \in Int /\ n \in Int
          BY <2>2
        <5>3. Lua \in Seq(1..created)
          BY <2>2
        <5>4. \A j \in 1..Len(Lua) : Lua[j] \in 1..created
          BY <5>3, ElementOfSeq
        <5> QED BY <5>1, <5>2, <5>4
      <4>2. /\ SubSeq(Lua, m, n) \in Seq(1..created)
            /\ Len(SubSeq(Lua, m, n)) = IF m <= n THEN n - m + 1 ELSE 0
            /\ \A j \in 1..(n - m + 1) : SubSeq(Lua, m, n)[j] = Lua[m + j - 1]
        BY <4>1, SubSeqProperties
      <4> QED BY <2>2, <3>1, <4>2
    <3> DEFINE a == SubSeq(Lua, 1, i - 1)
               b == SubSeq(Lua, i + 1, Len(Lua))
    <3>2. a \in Seq(1..created) /\ Len(a) = i - 1 /\ \A j \in 1..(i - 1) : a[j] = Lua[j]
      <4>1. 1 \in 1..(Len(Lua) + 1) /\ i - 1 \in 0..Len(Lua) /\ 1 <= (i - 1) + 1
        BY <2>2
      <4> QED BY <2>2, <3>1, <4>1
    <3>3. b \in Seq(1..created) /\ Len(b) = Len(Lua) - i /\ \A j \in 1..(Len(Lua) - i) : b[j] = Lua[i + j]
      <4>1. i + 1 \in 1..(Len(Lua) + 1) /\ Len(Lua) \in 0..Len(Lua) /\ i + 1 <= Len(Lua) + 1
        BY <2>2
      <4> QED BY <2>2, <3>1, <4>1
    <3>4. Lua' = a \o b
      BY <2>1 DEF RemoveAt
    <3> HIDE DEF a, b
    <3>5. Lua' \in Seq(1..created) /\ Len(Lua') = Len(Lua) - 1
      <4>1. Lua' \in Seq(1..created) /\ Len(Lua') = Len(a) + Len(b)
        BY <3>2, <3>3, <3>4, ConcatProperties
      <4> QED BY <2>2, <3>2, <3>3, <4>1
    <3>6. ASSUME NEW j \in 1..(Len(Lua) - 1) PROVE Lua'[j] = IF j < i THEN Lua[j] ELSE Lua[j + 1]
      <4>1. Lua'[j] = IF j <= Len(a) THEN a[j] ELSE b[j - Len(a)]
        BY <2>2, <3>2, <3>3, <3>4, ConcatProperties
      <4>2. CASE j < i
        BY <2>2, <3>2, <4>1, <4>2
      <4>3. CASE ~(j < i)
        <5>1. j - Len(a) \in 1..(Len(Lua) - i) /\ i + (j - Len(a)) = j + 1
          BY <2>2, <3>2, <4>3
        <5> QED BY <2>2, <3>2, <3>3, <4>1, <4>3, <5>1
      <4> QED BY <4>2, <4>3
    <3> QED BY <3>5, <3>6
  <2>4. IsInjective(Lua')
    BY <2>2, <2>3 DEF IsInjective
  <2>5. ToSet(Lua') = ToSet(Lua) \ {Lua[i]}
    <3>1. DOMAIN Lua = 1..Len(Lua) /\ DOMAIN Lua' = 1..(Len(Lua) - 1)
      BY <2>2, <2>3
    <3>2. \A j \in 1..(Len(Lua) - 1) : \E k \in 1..Len(Lua) : k # i /\ Lua'[j] = Lua[k]
      BY <2>2, <2>3
    <3>3. \A k \in 1..Len(Lua) : k # i => \E j \in 1..(Len(Lua) - 1) : Lua'[j] = Lua[k]
      <4> SUFFICES ASSUME NEW k \in 1..Len(Lua), k # i
                   PROVE  \E j \in 1..(Len(Lua) - 1) : Lua'[j] = Lua[k]
        OBVIOUS
      <4>1. CASE k < i
        BY <2>2, <2>3, <4>1
      <4>2. CASE k > i
        <5>1. k - 1 \in 1..(Len(Lua) - 1) /\ Lua'[k - 1] = Lua[k]
          BY <2>2, <2>3, <4>2
        <5> QED BY <5>1
      <4> QED BY <2>2, <4>1, <4>2
    <3>4. \A k \in 1..Len(Lua) : k # i => Lua[k] # Lua[i]
      BY <2>2
    <3>5. \A x : x \in ToSet(Lua') <=> \E k \in 1..Len(Lua) : k # i /\ Lua[k] = x
      <4>1. \A x : x \in ToSet(Lua') <=> \E j \in 1..(Len(Lua) - 1) : Lua'[j] = x
        BY <3>1 DEF ToSet
      <4> QED BY <3>2, <3>3, <4>1
    <3>6. \A x : x \in ToSet(Lua) <=> \E k \in 1..Len(Lua) : Lua[k] = x
      BY <3>1 DEF ToSet
    <3> QED BY <3>4, <3>5, <3>6
  <2>6. /\ stack' \in Seq(Frames) /\ Len(stack') = Len(stack)
        /\ \A k \in 1..Len(stack) :
             /\ Kin(stack[k], stack'[k])
             /\ stack[k].kind \notin Walks => stack'[k] = stack[k]
             /\ stack[k].kind \in Walks =>
                  /\ stack'[k].stale
                  /\ stack'[k].next = stack[k].next /\ stack'[k].len = stack[k].len
                  /\ stack[k].kind = "command" => stack'[k].gone = stack[k].gone
    BY <1>0, <2>1, <1>stale
  <2>7. (\A k \in 1..Len(stack) : FrameOK(stack[k]))'
    <3> SUFFICES ASSUME NEW k \in 1..Len(stack') PROVE FrameOK(stack[k])'
      OBVIOUS
    <3>1. FrameOK(stack[k]) /\ k \in 1..Len(stack) /\ Kin(stack[k], stack'[k])
      BY <1>0, <2>6
    <3>2. CASE stack[k].kind \in Walks
      BY <1>8, <2>6, <3>1, <3>2 DEF FrameOK, Kin, Walks
    <3>3. CASE stack[k].kind \notin Walks
      <4>1. Lua[i] \in ToSet(Lua)
        BY <2>2 DEF ToSet
      <4> QED BY <1>8, <2>1, <2>5, <2>6, <3>1, <3>3, <4>1 DEF FrameOK, Walks
    <3> QED BY <3>2, <3>3
  <2>8. StackInv'
    <3>1. Len(stack') <= Len(stack) + 1 /\ Len(stack') <= Len(stack)
      BY <1>0, <2>6
    <3> QED BY <1>8, <2>6, <2>7, <3>1, <1>calls
  <2>9. Loading' = Loading
    BY <1>0, <2>6, <1>files
  <2>10. Lua[i] \notin Loading
    <3>1. Lua[i] \in ToSet(Lua)
      BY <2>2 DEF ToSet
    <3> QED BY <1>0, <3>1 DEF Loading, FrameOK
  <2> QED BY <2>1, <2>3, <2>4, <2>5, <2>8, <2>9, <2>10 DEF ManagerInv

(* A command that is deleted is gone from the calls that activate it.      *)
<1>9. ASSUME NEW c \in Callbacks, UnregisterCommand(c)
      PROVE  StackInv' /\ ManagerInv'
  <2>1. /\ UNCHANGED manager /\ did \subseteq did'
        /\ stack' # stack => "unregistered itself" \in did'
    BY <1>9 DEF UnregisterCommand, Note
  <2>2. stack' = [k \in 1..Len(stack) |->
                   IF stack[k].kind = "command" /\ stack[k].func = c
                   THEN Bereft(stack[k]) ELSE stack[k]]
    BY <1>9 DEF UnregisterCommand, Bereft
  <2>3. \A k \in 1..Len(stack) :
          LET b == stack[k]  d == stack'[k]
          IN  \/ d = b
              \/ /\ b.kind = "command" /\ d \in Frames /\ d.kind = b.kind
                 /\ d.next = b.next /\ d.len = b.len /\ d.stale = b.stale
    BY <1>0, <2>2, WalkFields DEF Walks
  <2>4. stack' \in Seq(Frames) /\ Len(stack') = Len(stack)
    BY <1>0, <2>2, <2>3
  <2>5. \A k \in 1..Len(stack) : Kin(stack[k], stack'[k])
    BY <2>3 DEF Kin, Walks
  <2>6. (\A k \in 1..Len(stack) : FrameOK(stack[k]))'
    <3> SUFFICES ASSUME NEW k \in 1..Len(stack') PROVE FrameOK(stack[k])'
      OBVIOUS
    <3>1. FrameOK(stack[k]) /\ k \in 1..Len(stack)
      BY <1>0, <2>4
    <3>2. CASE stack'[k] = stack[k]
      BY <2>1, <3>1, <3>2 DEF FrameOK, manager
    <3>3. CASE stack'[k] # stack[k]
      <4>1. "unregistered itself" \in did'
        BY <2>1, <3>3
      <4> QED BY <2>1, <2>3, <3>1, <3>3, <4>1 DEF FrameOK, manager, Walks
    <3> QED BY <3>2, <3>3
  <2>7. StackInv'
    <3>1. Len(stack') <= Len(stack) + 1 /\ Len(stack') <= Len(stack)
      BY <1>0, <2>4
    <3> QED BY <2>1, <2>4, <2>5, <2>6, <3>1, <1>calls
  <2>8. Loading' = Loading
    BY <1>0, <2>4, <2>5, <1>files
  <2> QED BY <2>1, <2>7, <2>8 DEF ManagerInv, manager

(* A walk over what Lua still is calls the handler of the next state.      *)
<1>a. ASSUME WalkCall, did \subseteq did'
       PROVE  StackInv' /\ ManagerInv'
  <2> DEFINE n == Len(stack)
             L == Lua[Top.next]
             moved == Moved(Top, Top.next + 1)
  <2>1. /\ UNCHANGED manager /\ n \in 1..n /\ Top = stack[n] /\ Top \in Frames
        /\ Top.kind \in Walks /\ Top.next <= Top.len /\ FrameOK(Top)
    <3>1. UNCHANGED manager /\ stack # <<>> /\ Top.kind \in Walks /\ Top.next <= Top.len
      BY <1>a DEF WalkCall, AtWalk
    <3>2. n \in 1..n /\ Top = stack[n] /\ Top \in Frames
      BY <1>0, <3>1, Popped DEF Top
    <3> QED BY <1>0, <3>1, <3>2
  <2>2. CASE stack' = stack
    BY <1>1, <1>a, <2>1, <2>2
  <2>3. CASE stack' # stack
    <3>1. ~Top.stale /\ Enter([stack EXCEPT ![n].next = @ + 1], L)
      BY <1>a, <2>3 DEF WalkCall
    <3>2. Top.next \in 1..Len(Lua) /\ Top.next \in Nat /\ Top.len = Len(Lua) /\ L \in ToSet(Lua)
      <4>1. Top.next \in 1..(Top.len + 1) /\ Top.len = Len(Lua)
        BY <2>1, <3>1 DEF FrameOK
      <4>2. Lua \in Seq(1..created)
        BY DEF ManagerInv
      <4>3. Top.next \in 1..Len(Lua) /\ Top.next \in Nat
        BY <2>1, <4>1, <4>2
      <4> QED BY <4>1, <4>2, <4>3 DEF ToSet
    <3>3. L \in open /\ L \in 1..created /\ L \in States
      BY <1>0, <3>2 DEF ManagerInv
    <3>4. stack' = Append([stack EXCEPT ![n] = moved], Handler(L))
      BY <2>1, <3>1, <3>3 DEF Enter, Moved
    <3>5. /\ moved \in Frames /\ moved.kind = Top.kind /\ moved.next = Top.next + 1
          /\ moved.len = Top.len /\ moved.stale = Top.stale
          /\ Top.kind = "command" => moved.gone = Top.gone
      <4>1. Top.next + 1 \in Nat
        BY <3>2
      <4> QED BY <2>1, <4>1, WalkFields
    <3>6. Handler(L) \in Frames /\ Handler(L).kind = "handler" /\ Handler(L).L = L
      BY <3>3 DEF Handler, Frames
    <3> HIDE DEF moved, L
    <3>7. /\ stack' \in Seq(Frames) /\ Len(stack') = n + 1 /\ stack'[n] = moved
          /\ stack'[n + 1] = Handler(L)
          /\ \A k \in 1..n : k # n => stack'[k] = stack[k]
      BY <1>0, <2>1, <3>4, <3>5, <3>6
    <3>8. (\A k \in 1..Len(stack) : FrameOK(stack[k]))'
      <4> SUFFICES ASSUME NEW k \in 1..Len(stack') PROVE FrameOK(stack[k])'
        OBVIOUS
      <4>1. CASE k = n
        <5>1. moved.next \in 1..(moved.len + 1)
          BY <3>2, <3>5
        <5> QED BY <1>a, <2>1, <3>5, <3>7, <4>1, <5>1 DEF FrameOK, manager, Walks
      <4>2. CASE k = n + 1
        BY <2>1, <3>3, <3>6, <3>7, <4>2 DEF FrameOK, manager, Walks
      <4>3. CASE k # n /\ k # n + 1
        <5>1. FrameOK(stack[k]) /\ stack'[k] = stack[k]
          BY <1>0, <3>7, <4>3
        <5> QED BY <1>a, <2>1, <5>1 DEF FrameOK, manager
      <4> QED BY <4>1, <4>2, <4>3
    <3>9. \A k \in 1..Len(stack') : k <= Len(stack) => Kin(stack[k], stack'[k])
      BY <1>0, <2>1, <3>5, <3>7 DEF Kin
    <3>10. StackInv'
      <4>1. (\A j \in 1..(Len(stack) - 1) : OverOK(stack[j], stack[Len(stack)]))'
        BY <3>6, <3>7 DEF OverOK
      <4>2. Len(stack') <= Len(stack) + 1
        BY <1>0, <3>7
      <4> QED BY <1>a, <3>7, <3>8, <3>9, <4>1, <4>2, <1>calls
    <3>11. Loading' = Loading
      <4>1. \A k \in 1..Len(stack') : k > Len(stack) => stack'[k].kind # "file"
        BY <1>0, <3>6, <3>7
      <4>2. \A k \in 1..Len(stack) : ~(k > Len(stack'))
        BY <1>0, <3>7
      <4> QED BY <1>0, <3>7, <3>9, <4>1, <4>2, <1>files
    <3> QED BY <2>1, <3>10, <3>11 DEF ManagerInv, manager
  <2> QED BY <2>2, <2>3

(* The calls that an event, a hook or Lua code begins.                     *)
<1>b. ASSUME NEW L, Enter(stack, L) PROVE stack' = stack \/ (L \in open /\ stack' = Append(stack, Handler(L)))
  BY <1>b DEF Enter
<1>c. ASSUME NEW L \in open PROVE Handler(L) \in Frames /\ Handler(L).kind # "file" /\ FrameOK(Handler(L))
  <2>1. L \in 1..created /\ L \in States
    BY <1>0 DEF ManagerInv
  <2> QED BY <2>1 DEF Handler, Frames, FrameOK, Walks
<1>e. Len(Lua) \in Nat
  BY DEF ManagerInv
<1>d. ASSUME NEW kind \in {"hook", "unload"}
      PROVE  Walk(kind) \in Frames /\ Walk(kind).kind # "file" /\ FrameOK(Walk(kind))
  <2>1. /\ Walk(kind).kind = kind /\ Walk(kind).next = 1 /\ Walk(kind).len = Len(Lua)
        /\ Walk(kind).stale = FALSE
    BY DEF Walk
  <2>2. Walk(kind) \in Frames
    BY <1>e DEF Walk, Frames
  <2>3. kind \in Walks /\ kind # "command" /\ kind # "file"
    BY DEF Walks
  <2>4. 1 \in 1..(Len(Lua) + 1)
    BY <1>e
  <2>5. FrameOK(Walk(kind))
    <3> HIDE DEF Walk
    <3> QED BY <2>1, <2>3, <2>4 DEF FrameOK
  <2> QED BY <2>1, <2>2, <2>3, <2>5
<1>f. CASE FileFails
  BY <1>5, <1>f DEF FileFails, Note
<1>g. CASE Reloads
  BY <1>7, <1>g DEF Reloads, Note
<1>h. CASE LoadsNext
  <2>1. CASE LoadNext
    <3>1. stack = <<>> /\ todo # <<>> /\ LoadBegin(Head(todo)) /\ did' = did
      BY <1>h, <2>1 DEF LoadNext, LoadsNext
    <3>2. Head(todo) \in Files
      <4>1. todo \in Seq(Files)
        BY DEF TypeInv
      <4> QED BY <3>1, <4>1, HeadTailProperties
    <3>3. ~Walking
      BY <3>1 DEF Walking
    <3> QED BY <1>2, <3>1, <3>2, <3>3
  <2>2. CASE LoadedAll
    BY <1>1, <1>h, <2>2 DEF LoadedAll, LoadsNext
  <2> QED BY <1>h, <2>1, <2>2 DEF LoadsNext
<1>i. CASE OtherCall
  BY <1>a, <1>i DEF OtherCall
<1>j. CASE Ends
  <2>1. CASE Return
    <3>1. stack # <<>> /\ Top.kind # "file" /\ stack' = Front(stack) /\ UNCHANGED <<manager, did>>
      BY <1>j, <2>1 DEF Ends, Return, Running
    <3> QED BY <1>1, <3>1
  <2>2. CASE LoadDone
    BY <1>6, <1>j, <2>2 DEF Ends
  <2>3. CASE WalkEnd
    <3>1. stack # <<>> /\ Top.kind # "file" /\ stack' = Front(stack) /\ UNCHANGED <<manager, did>>
      BY <1>j, <2>3 DEF Ends, WalkEnd, AtWalk, Walks
    <3> QED BY <1>1, <3>1
  <2> QED BY <1>j, <2>1, <2>2, <2>3 DEF Ends
<1>k. CASE LoadsAnother
  <2>1. PICK f \in Files : LoadLua(f) /\ Note("loaded in a hook", Walking)
    BY <1>k DEF LoadsAnother
  <2>2. LoadBegin(f) /\ did \subseteq did' /\ (Walking => "loaded in a hook" \in did')
    BY <2>1 DEF LoadLua, Note
  <2> QED BY <1>2, <2>2
<1>l. CASE Destroys
  BY <1>8, <1>l DEF Destroys, Note
<1>m. CASE OtherStep
  <2>0. UNCHANGED <<manager, did>>
    BY <1>m DEF OtherStep, HookBegin, WalkBreak, Attach, ScriptEvent, Detach, ReloadLua, RegisterScript, manager
  <2>1. CASE HookBegin \/ ReloadLua
    <3>1. \E kind \in {"hook", "unload"} : stack' = Append(stack, Walk(kind))
      BY <2>1 DEF HookBegin, ReloadLua
    <3> QED BY <1>1, <1>d, <2>0, <3>1
  <2>2. CASE WalkBreak
    <3>1. stack # <<>> /\ Top.kind # "file" /\ stack' = Front(stack)
      BY <2>2 DEF WalkBreak, AtWalk
    <3> QED BY <1>1, <2>0, <3>1
  <2>3. CASE Attach \/ ScriptEvent \/ Detach
    <3>1. PICK L : Enter(stack, L)
      BY <2>3 DEF Attach, ScriptEvent, Detach
    <3> QED BY <1>1, <1>b, <1>c, <2>0, <3>1
  <2>4. CASE \E n \in Names : RegisterScript(n)
    <3>1. stack' = stack
      BY <2>4 DEF RegisterScript
    <3> QED BY <1>1, <2>0, <3>1
  <2> QED BY <1>m, <2>1, <2>2, <2>3, <2>4 DEF OtherStep
<1>n. ASSUME NEW c \in Callbacks, RegisterCommand(c) \/ UnregisterCommand(c) \/ ActivateCommand(c)
      PROVE  StackInv' /\ ManagerInv'
  <2>1. CASE RegisterCommand(c)
    <3>1. stack' = stack /\ UNCHANGED <<manager, did>>
      BY <2>1 DEF RegisterCommand, vars, manager
    <3> QED BY <1>1, <3>1
  <2>2. CASE ActivateCommand(c)
    <3> DEFINE w == [kind |-> "command", next |-> 1, len |-> Len(Lua), stale |-> FALSE,
                     func |-> c, gone |-> FALSE]
    <3>1. stack' = Append(stack, w) /\ UNCHANGED <<manager, did>>
      BY <2>2 DEF ActivateCommand
    <3>2. w \in Frames /\ w.kind # "file" /\ FrameOK(w)
      BY <1>e DEF Frames, FrameOK, Walks
    <3> QED BY <1>1, <3>1, <3>2
  <2> QED BY <1>9, <1>n, <2>1, <2>2
<1>o. CASE CommandCall
  <2>1. did' = did
    BY <1>o DEF CommandCall
  <2>2. CASE WalkCall
    BY <1>a, <2>1, <2>2
  <2>3. CASE stack' = stack /\ UNCHANGED manager
    BY <1>1, <2>1, <2>3
  <2> QED BY <1>o, <2>2, <2>3 DEF CommandCall
<1>p. CASE RegisterKept
  <2>1. stack' = stack /\ UNCHANGED <<manager, did>>
    BY <1>p DEF RegisterKept, vars, manager
  <2> QED BY <1>1, <2>1
<1>q. CASE KeptEvent
  <2>1. UNCHANGED <<manager, did>>
    BY <1>q DEF KeptEvent
  <2>2. PICK L : Enter(stack, L)
    BY <1>q DEF KeptEvent
  <2> QED BY <1>1, <1>b, <1>c, <2>1, <2>2
<1> QED BY <1>f, <1>g, <1>h, <1>i, <1>j, <1>k, <1>l, <1>m, <1>n, <1>o, <1>p, <1>q DEF DANext

(* Each step keeps the other parts.                                        *)
LEMMA RegistrationsStep ==
  ASSUME IInv, fault = "none", DANext
  PROVE  (TypeInv /\ AttachedRegistered /\ UndefinedHasCause /\ PointedOpen /\ CommandsListed)'
<1> DEFINE Rest == TypeInv /\ AttachedRegistered /\ UndefinedHasCause /\ PointedOpen /\ CommandsListed
           Faults == {"none", "closed state", "iterator", "freed command"}
<1>0. Rest /\ StackInv /\ ManagerInv
  BY DEF IInv

(* Most steps call or return, change what is attached, or end in undefined *)
(* behaviour.                                                              *)
<1>1. ASSUME UNCHANGED <<LuaNames, fileOf, open, Scripts, todo, phase, da, did>>,
             Reload_Flag' \in BOOLEAN, attached' \subseteq Scripts,
             fault' \in Faults, UndefinedHasCause'
      PROVE  Rest'
  <2>1. TypeInv'
    BY <1>0, <1>1 DEF TypeInv, da
  <2>2. AttachedRegistered' /\ CommandsListed'
    BY <1>0, <1>1 DEF AttachedRegistered, CommandsListed, da
  <2>3. PointedOpen'
    BY <1>0, <1>1 DEF PointedOpen, da
  <2> QED BY <1>1, <2>1, <2>2, <2>3

(* What runs belongs to a state, open unless one was destroyed.            *)
<1>r. ASSUME Running
      PROVE  /\ Top.L \in States /\ (Top.L \in open \/ "destroyed" \in did)
             /\ Top.kind = "file" => fileOf[Top.L] \in Files
  <2>1. stack # <<>> /\ stack \in Seq(Frames) /\ Top.kind \notin Walks
    BY <1>0, <1>r DEF Running, StackInv
  <2>2. Len(stack) \in 1..Len(stack) /\ Top = stack[Len(stack)]
    BY <2>1, Popped DEF Top
  <2>3. FrameOK(Top)
    BY <1>0, <2>2 DEF StackInv
  <2>4. 1..created \subseteq States
    BY <1>0, LuaStatesAssumption DEF ManagerInv, States
  <2> QED BY <2>1, <2>3, <2>4 DEF FrameOK

(* A script's or a kept table's event.                                     *)
<1>2. /\ Reload_Flag \in BOOLEAN /\ attached \subseteq Scripts /\ fault \in Faults
      /\ UNCHANGED <<fault, did>> => UndefinedHasCause'
  BY <1>0 DEF TypeInv, AttachedRegistered, UndefinedHasCause
<1>3. ASSUME NEW L, Enter(stack, L), L \in Pointed, did' = did
      PROVE  fault' \in Faults /\ UndefinedHasCause'
  <2>1. L \in open \/ did \cap {"destroyed", "failed late", "kept"} # {}
    BY <1>0, <1>3 DEF PointedOpen, Pointed
  <2> QED BY <1>2, <1>3, <2>1 DEF Enter, UndefinedHasCause

(* A walk that has become stale.                                           *)
<1>4. ASSUME AtWalk
      PROVE  /\ Top.stale => did \cap {"destroyed", "loaded in a hook"} # {}
             /\ ~Top.stale /\ Top.next <= Top.len => Lua[Top.next] \in open
             /\ Top.kind = "command" /\ Top.gone => "unregistered itself" \in did
  <2>1. FrameOK(Top) /\ Top.kind \in Walks /\ Top \in Frames
    <3>1. stack # <<>> /\ stack \in Seq(Frames)
      BY <1>0, <1>4 DEF AtWalk, StackInv
    <3>2. Len(stack) \in 1..Len(stack) /\ Top = stack[Len(stack)] /\ Top \in Frames
      BY <3>1, Popped DEF Top
    <3> QED BY <1>0, <1>4, <3>2 DEF StackInv, AtWalk
  <2>2. ASSUME ~Top.stale, Top.next <= Top.len PROVE Lua[Top.next] \in open
    <3>1. Top.next \in 1..(Top.len + 1) /\ Top.len = Len(Lua) /\ Lua \in Seq(1..created)
      BY <1>0, <2>1, <2>2 DEF FrameOK, ManagerInv
    <3>2. Top.next \in 1..Len(Lua)
      BY <2>2, <3>1
    <3>3. Lua[Top.next] \in ToSet(Lua)
      BY <3>1, <3>2 DEF ToSet
    <3> QED BY <1>0, <3>3 DEF ManagerInv
  <2> QED BY <2>1, <2>2 DEF FrameOK
<1>5. ASSUME WalkCall, did' = did
      PROVE  fault' \in Faults /\ UndefinedHasCause'
  <2>1. CASE Top.stale
    <3>1. fault' = "iterator" /\ did \cap {"destroyed", "loaded in a hook"} # {}
      BY <1>4, <1>5, <2>1 DEF WalkCall
    <3> QED BY <1>5, <3>1 DEF UndefinedHasCause
  <2>2. CASE ~Top.stale
    <3>1. Lua[Top.next] \in open
      BY <1>4, <1>5, <2>2 DEF WalkCall
    <3>2. UNCHANGED fault
      BY <1>5, <2>2, <3>1 DEF WalkCall, Enter
    <3> QED BY <1>2, <1>5, <3>2
  <2> QED BY <2>1, <2>2
<1>a. CASE FileFails
  <2>1. /\ UNCHANGED <<Lua, LuaNames, Reload_Flag, created, fileOf, Scripts, attached, todo, phase, fault, da>>
        /\ open' = open \ {Top.L}
        /\ did' = IF Top.L \in Pointed THEN did \cup {"failed late"} ELSE did
    BY <1>a DEF FileFails, LoadFailed, Note, scripts
  <2>2. TypeInv' /\ AttachedRegistered' /\ CommandsListed'
    BY <1>0, <2>1 DEF TypeInv, AttachedRegistered, CommandsListed, da, Hazards
  <2>3. PointedOpen'
    BY <1>0, <2>1 DEF PointedOpen, Pointed, da
  <2>4. UndefinedHasCause'
    BY <1>2, <2>1 DEF UndefinedHasCause
  <2> QED BY <2>2, <2>3, <2>4
<1>b. CASE Reloads
  <2>1. /\ UNCHANGED <<LuaNames, Reload_Flag, created, fileOf, fault, da>>
        /\ Scripts' = {} /\ attached' = {} /\ todo' = Plugins /\ phase' = "reload"
        /\ did' = IF kept # {} THEN did \cup {"kept"} ELSE did
    <3>1. managersList = {}
      BY <1>0 DEF TypeInv
    <3>2. UNCHANGED da
      BY <1>b, <3>1 DEF Reloads, Cleanup, da
    <3> QED BY <1>b, <3>2 DEF Reloads, ThinkReload, Note
  <2>2. TypeInv' /\ AttachedRegistered' /\ CommandsListed'
    BY <1>0, <2>1, LuaStatesAssumption DEF TypeInv, AttachedRegistered, CommandsListed, da, Hazards
  <2>3. PointedOpen'
    BY <1>0, <2>1 DEF PointedOpen, da
  <2>4. UndefinedHasCause'
    BY <1>0, <2>1 DEF UndefinedHasCause
  <2> QED BY <2>2, <2>3, <2>4
<1>6. ASSUME NEW f \in Files, LoadBegin(f), UNCHANGED <<Reload_Flag, Scripts, attached, phase, fault, da>>,
             todo' \in Seq(Files), phase = "run" => todo' = <<>>,
             did' \in {did, did \cup {"loaded in a hook"}}
      PROVE  Rest'
  <2>1. /\ UNCHANGED LuaNames /\ fileOf' = [fileOf EXCEPT ![created + 1] = f] /\ open \subseteq open'
    BY <1>6 DEF LoadBegin
  <2>2. TypeInv' /\ AttachedRegistered' /\ CommandsListed'
    BY <1>0, <1>6, <2>1 DEF TypeInv, AttachedRegistered, CommandsListed, da, Hazards
  <2>3. PointedOpen'
    BY <1>0, <1>6, <2>1 DEF PointedOpen, da
  <2>4. UndefinedHasCause'
    BY <1>0, <1>6 DEF UndefinedHasCause
  <2> QED BY <2>2, <2>3, <2>4
<1>c. CASE LoadsNext
  <2>1. CASE LoadNext
    <3>1. /\ todo # <<>> /\ LoadBegin(Head(todo)) /\ todo' = Tail(todo)
          /\ UNCHANGED <<Reload_Flag, Scripts, attached, phase, fault, da, did>>
      BY <1>c, <2>1 DEF LoadsNext, LoadNext, scripts
    <3>2. todo \in Seq(Files) /\ phase # "run"
      BY <1>0, <3>1 DEF TypeInv
    <3>3. Head(todo) \in Files /\ todo' \in Seq(Files)
      BY <3>1, <3>2, HeadTailProperties
    <3> QED BY <1>6, <3>1, <3>2, <3>3
  <2>2. CASE LoadedAll
    <3>1. /\ UNCHANGED <<LuaNames, fileOf, open, Scripts, attached, todo, fault, da, did>>
          /\ phase' = "run" /\ todo = <<>> /\ Reload_Flag' \in BOOLEAN
      BY <1>c, <2>2 DEF LoadsNext, LoadedAll, scripts, manager
    <3>2. TypeInv' /\ AttachedRegistered' /\ CommandsListed'
      BY <1>0, <3>1 DEF TypeInv, AttachedRegistered, CommandsListed, da
    <3>3. PointedOpen' /\ UndefinedHasCause'
      BY <1>0, <1>2, <3>1 DEF PointedOpen, da
    <3> QED BY <3>2, <3>3
  <2> QED BY <1>c, <2>1, <2>2 DEF LoadsNext
<1>d. CASE OtherCall
  <2>1. /\ UNCHANGED <<LuaNames, fileOf, open, Scripts, attached, Reload_Flag, todo, phase, da, did>>
        /\ WalkCall
    BY <1>d DEF OtherCall, WalkCall, manager, scripts
  <2> QED BY <1>1, <1>2, <1>5, <2>1
<1>e. CASE Ends
  <2>1. CASE Return
    <3>1. UNCHANGED <<LuaNames, fileOf, open, Scripts, attached, Reload_Flag, todo, phase, fault, da, did>>
      BY <1>e, <2>1 DEF Ends, Return, manager, scripts
    <3> QED BY <1>1, <1>2, <3>1
  <2>2. CASE LoadDone
    <3>1. /\ UNCHANGED <<fileOf, open, Scripts, attached, Reload_Flag, todo, phase, fault, da, did>>
          /\ LuaNames' = Append(LuaNames, fileOf[Top.L]) /\ Running /\ Top.kind = "file"
      BY <1>e, <2>2 DEF Ends, LoadDone, scripts
    <3>2. LuaNames' \in Seq(Files)
      BY <1>r, <1>0, <3>1 DEF TypeInv
    <3>3. TypeInv' /\ AttachedRegistered' /\ CommandsListed'
      BY <1>0, <3>1, <3>2 DEF TypeInv, AttachedRegistered, CommandsListed, da
    <3>4. PointedOpen' /\ UndefinedHasCause'
      BY <1>0, <1>2, <3>1 DEF PointedOpen, da
    <3> QED BY <3>3, <3>4
  <2>3. CASE WalkEnd
    <3>1. /\ UNCHANGED <<LuaNames, fileOf, open, Scripts, attached, todo, phase, da, did>>
          /\ Reload_Flag' \in BOOLEAN /\ fault' = IF Top.stale THEN "iterator" ELSE fault
          /\ AtWalk
      BY <1>e, <2>3 DEF Ends, WalkEnd, manager, scripts
    <3>2. fault' \in Faults /\ UndefinedHasCause'
      BY <1>2, <1>4, <3>1 DEF UndefinedHasCause
    <3> QED BY <1>1, <1>2, <3>1, <3>2
  <2> QED BY <1>e, <2>1, <2>2, <2>3 DEF Ends
<1>f. CASE LoadsAnother
  <2>1. PICK f \in Files : LoadLua(f) /\ Note("loaded in a hook", Walking) /\ UNCHANGED da
    BY <1>f DEF LoadsAnother
  <2>2. /\ LoadBegin(f) /\ UNCHANGED <<Reload_Flag, Scripts, attached, todo, phase, fault, da>>
        /\ did' \in {did, did \cup {"loaded in a hook"}}
    BY <2>1 DEF LoadLua, Note, scripts
  <2>3. todo \in Seq(Files) /\ (phase = "run" => todo = <<>>)
    BY <1>0 DEF TypeInv
  <2> QED BY <1>6, <2>2, <2>3
<1>g. CASE Destroys
  <2>1. /\ UNCHANGED <<LuaNames, Reload_Flag, fileOf, Scripts, attached, todo, phase, da>>
        /\ fault' \in {"closed state", fault} /\ did' = did \cup {"destroyed"}
    BY <1>g DEF Destroys, DestroyLuaThread, Note, scripts
  <2>2. TypeInv' /\ AttachedRegistered' /\ CommandsListed'
    BY <1>0, <2>1 DEF TypeInv, AttachedRegistered, CommandsListed, da, Hazards
  <2>3. PointedOpen' /\ UndefinedHasCause'
    BY <1>0, <2>1 DEF PointedOpen, UndefinedHasCause
  <2> QED BY <2>2, <2>3
<1>h. CASE OtherStep
  <2>1. UNCHANGED <<LuaNames, fileOf, open, Reload_Flag, todo, phase, da, did>>
    BY <1>h DEF OtherStep, HookBegin, WalkBreak, Attach, ScriptEvent, Detach, ReloadLua, RegisterScript, manager
  <2>2. CASE HookBegin \/ WalkBreak \/ ReloadLua
    <3>1. UNCHANGED <<Scripts, attached, fault>>
      BY <2>2 DEF HookBegin, WalkBreak, ReloadLua, scripts
    <3> QED BY <1>1, <1>2, <2>1, <3>1
  <2>3. CASE Attach \/ ScriptEvent \/ Detach
    <3>1. Scripts' = Scripts /\ \E r \in Scripts : attached' \in {attached, attached \cup {r}, attached \ {r}} /\ Enter(stack, r.L)
      BY <1>2, <2>3 DEF Attach, ScriptEvent, Detach, scripts
    <3>2. PICK r \in Scripts : attached' \subseteq Scripts /\ Enter(stack, r.L)
      BY <1>2, <3>1
    <3>3. r.L \in Pointed
      BY DEF Pointed
    <3>4. fault' \in Faults /\ UndefinedHasCause'
      BY <1>3, <2>1, <3>2, <3>3
    <3> QED BY <1>1, <1>2, <2>1, <3>1, <3>2, <3>4
  <2>4. ASSUME NEW n \in Names, RegisterScript(n) PROVE Rest'
    <3>1. /\ Running /\ UNCHANGED <<attached, fault>>
          /\ Scripts' = IF \E r \in Scripts : r.name = n THEN Scripts
                        ELSE Scripts \cup {[name |-> n, L |-> Top.L]}
      BY <2>4 DEF RegisterScript
    <3>2. Top.L \in States /\ (Top.L \in open \/ "destroyed" \in did)
      BY <1>r, <1>0, <3>1
    <3>3. TypeInv'
      BY <1>0, <2>1, <3>1, <3>2 DEF TypeInv, da
    <3>4. AttachedRegistered' /\ CommandsListed'
      BY <1>0, <2>1, <3>1 DEF AttachedRegistered, CommandsListed, da
    <3>5. PointedOpen'
      <4> SUFFICES ASSUME did \cap {"destroyed", "failed late"} = {} PROVE PointedOpen'
        BY <2>1 DEF PointedOpen, da
      <4>1. Top.L \in open
        BY <3>2
      <4>2. Scripts' \subseteq Scripts \cup {[name |-> n, L |-> Top.L]}
        BY <3>1
      <4>3. \A r \in Scripts' \cup attached' : r.L \in open
        <5>1. \A r \in Scripts \cup attached : r.L \in open
          BY <1>0 DEF PointedOpen
        <5>2. [name |-> n, L |-> Top.L].L = Top.L
          OBVIOUS
        <5>3. \A r \in Scripts' \cup attached' : r \in Scripts \cup attached \/ r = [name |-> n, L |-> Top.L]
          BY <3>1, <4>2
        <5> QED BY <4>1, <5>1, <5>2, <5>3
      <4> QED BY <1>0, <2>1, <4>3 DEF PointedOpen, da
    <3>6. UndefinedHasCause'
      BY <1>2, <2>1, <3>1
    <3> QED BY <3>3, <3>4, <3>5, <3>6
  <2> QED BY <1>h, <2>2, <2>3, <2>4 DEF OtherStep
<1>i. ASSUME NEW c \in Callbacks, RegisterCommand(c) \/ UnregisterCommand(c) \/ ActivateCommand(c)
      PROVE  Rest'
  <2>1. /\ UNCHANGED <<LuaNames, fileOf, open, Scripts, attached, Reload_Flag, todo, phase, fault, managersList, kept>>
        /\ did' \in {did, did \cup {"unregistered itself"}}
    BY <1>i DEF RegisterCommand, UnregisterCommand, ActivateCommand, Note, vars, manager, scripts, da
  <2>2. \/ LuaTT_DAChatList' = LuaTT_DAChatList \cup {c} /\ triggers' \in {triggers, triggers \cup {c}}
           /\ (triggers' = triggers => c \in LuaTT_DAChatList \cup triggers)
        \/ LuaTT_DAChatList' = LuaTT_DAChatList \ {c} /\ triggers' = triggers \ {c}
        \/ UNCHANGED da
    BY <1>i DEF RegisterCommand, UnregisterCommand, ActivateCommand
  <2>3. TypeInv' /\ AttachedRegistered'
    BY <1>0, <2>1, <2>2 DEF TypeInv, AttachedRegistered, da, Hazards
  <2>4. CommandsListed'
    BY <1>0, <2>2 DEF CommandsListed, da
  <2>5. PointedOpen' /\ UndefinedHasCause'
    BY <1>0, <2>1 DEF PointedOpen, UndefinedHasCause
  <2> QED BY <2>3, <2>4, <2>5
<1>j. CASE CommandCall
  <2>1. /\ UNCHANGED <<LuaNames, fileOf, open, Scripts, attached, Reload_Flag, todo, phase, da, did>>
        /\ AtWalk /\ Top.kind = "command"
    BY <1>j DEF CommandCall, WalkCall, manager, scripts
  <2>2. fault' \in Faults /\ UndefinedHasCause'
    <3>1. CASE Top.gone /\ fault' = "freed command"
      BY <1>4, <2>1, <3>1 DEF UndefinedHasCause
    <3>2. CASE WalkCall
      BY <1>5, <2>1, <3>2
    <3> QED BY <1>j, <3>1, <3>2 DEF CommandCall
  <2> QED BY <1>1, <1>2, <2>1, <2>2
<1>k. CASE RegisterKept
  <2>1. /\ UNCHANGED <<LuaNames, fileOf, open, Scripts, attached, Reload_Flag, todo, phase, fault, did>>
        /\ UNCHANGED <<LuaTT_DAChatList, managersList, triggers>> /\ kept' = kept \cup {Top.L} /\ Running
    BY <1>k DEF RegisterKept, vars
  <2>2. Top.L \in States /\ (Top.L \in open \/ "destroyed" \in did)
    BY <1>r, <2>1
  <2>3. TypeInv' /\ AttachedRegistered' /\ CommandsListed'
    BY <1>0, <2>1, <2>2 DEF TypeInv, AttachedRegistered, CommandsListed
  <2>4. PointedOpen' /\ UndefinedHasCause'
    BY <1>0, <1>2, <2>1, <2>2 DEF PointedOpen
  <2> QED BY <2>3, <2>4
<1>l. CASE KeptEvent
  <2>1. PICK L \in kept : Enter(stack, L)
    BY <1>l DEF KeptEvent
  <2>2. UNCHANGED <<LuaNames, fileOf, open, Scripts, attached, Reload_Flag, todo, phase, da, did>>
    BY <1>l DEF KeptEvent, manager, scripts
  <2>3. L \in Pointed
    BY DEF Pointed
  <2>4. fault' \in Faults /\ UndefinedHasCause'
    BY <1>3, <2>1, <2>2, <2>3
  <2> QED BY <1>1, <1>2, <2>2, <2>4
<1> QED BY <1>a, <1>b, <1>c, <1>d, <1>e, <1>f, <1>g, <1>h, <1>i, <1>j, <1>k, <1>l DEF DANext

-----------------------------------------------------------------------------
(* The invariant holds of every behaviour.                                 *)
THEOREM Invariance == DASpec => []IInv
<1>1. DAInit => IInv
  <2> SUFFICES ASSUME DAInit PROVE IInv
    OBVIOUS
  <2>1. TypeInv /\ AttachedRegistered /\ UndefinedHasCause /\ PointedOpen /\ CommandsListed
    <3>1. TypeInv
      <4>1. LuaNames \in Seq(Files) /\ todo \in Seq(Files) /\ fileOf \in [States -> Files \cup {"none"}]
        BY LuaStatesAssumption DEF DAInit, Init
      <4> QED BY <4>1 DEF DAInit, Init, TypeInv
    <3>2. AttachedRegistered /\ UndefinedHasCause /\ CommandsListed
      BY DEF DAInit, Init, AttachedRegistered, UndefinedHasCause, CommandsListed
    <3>3. PointedOpen
      BY DEF DAInit, Init, PointedOpen
    <3> QED BY <3>1, <3>2, <3>3
  <2>2. StackInv
    BY DEF DAInit, Init, StackInv
  <2>3. ManagerInv
    BY LuaStatesAssumption DEF DAInit, Init, ManagerInv, IsInjective, ToSet, Loading
  <2> QED BY <2>1, <2>2, <2>3 DEF IInv
<1>2. IInv /\ [DANext]_allvars => IInv'
  <2> SUFFICES ASSUME IInv, [DANext]_allvars PROVE IInv'
    OBVIOUS
  <2>1. CASE DANext
    <3>1. StackInv' /\ ManagerInv'
      BY <2>1, CallsAndStates DEF IInv
    <3>2. (TypeInv /\ AttachedRegistered /\ UndefinedHasCause /\ PointedOpen /\ CommandsListed)'
      BY <2>1, RegistrationsStep DEF DANext
    <3> QED BY <3>1, <3>2 DEF IInv
  <2>2. CASE UNCHANGED allvars
    <3>1. UNCHANGED vars /\ UNCHANGED da /\ UNCHANGED did
      BY <2>2 DEF allvars
    <3>2. TypeInv' /\ AttachedRegistered' /\ CommandsListed'
      BY <3>1 DEF IInv, TypeInv, AttachedRegistered, CommandsListed, vars, da
    <3>3. UndefinedHasCause' /\ PointedOpen'
      BY <3>1 DEF IInv, UndefinedHasCause, PointedOpen, vars, da
    <3>4. StackInv'
      BY <3>1 DEF IInv, StackInv, FrameOK, OverOK, vars
    <3>5. ManagerInv'
      BY <3>1 DEF IInv, ManagerInv, Loading, vars
    <3> QED BY <3>2, <3>3, <3>4, <3>5 DEF IInv
  <2> QED BY <2>1, <2>2
<1> QED BY <1>1, <1>2, PTL DEF DASpec

(* The states, the calls and what scripts register are what they are       *)
(* declared to be, for any folder of files and any nesting.                *)
THEOREM TypeCorrect == DASpec => []DATypeOK
<1>1. IInv => DATypeOK
  <2> SUFFICES ASSUME IInv PROVE DATypeOK
    OBVIOUS
  <2>1. Lua \in Seq(States) /\ open \subseteq States /\ 1..created \subseteq States
    BY LuaStatesAssumption DEF IInv, ManagerInv, States
  <2>2. \A k \in 1..Len(stack) :
          IF stack[k].kind \in Walks THEN stack[k].next \in 1..(stack[k].len + 1)
                                    ELSE stack[k].L \in States
    BY <2>1 DEF IInv, StackInv, FrameOK
  <2> QED BY <2>1, <2>2 DEF IInv, TypeInv, ManagerInv, DATypeOK, TypeOK
<1> QED BY <1>1, Invariance, PTL

(* No state is lost: what is open is in Lua or is still loading            *)
(* (LuaManager.cpp:1327-1357, 1378-1383).                                  *)
THEOREM NothingLost == DASpec => []NoneLost
<1>1. IInv => NoneLost
  BY DEF IInv, ManagerInv, NoneLost
<1> QED BY <1>1, Invariance, PTL

(* A script object belongs to a registrant that still exists               *)
(* (LuaManager.cpp:208-231).                                               *)
THEOREM ObjectsRegistered == DASpec => []AttachedRegistered
<1>1. IInv => AttachedRegistered
  BY DEF IInv
<1> QED BY <1>1, Invariance, PTL

(* Undefined behaviour has one of the five causes (LuaManager.cpp:1342,    *)
(* 1348, hooks.cpp:951, LuaFunctions.cpp:7173, LuaFunctionsDA.cpp:402).    *)
THEOREM UndefinedCaused == DASpec => []UndefinedHasCause
<1>1. IInv => UndefinedHasCause
  BY DEF IInv
<1> QED BY <1>1, Invariance, PTL

(* What scripts and the server point to is open, but for the same causes.  *)
THEOREM PointersOpen == DASpec => []PointedOpen
<1>1. IInv => PointedOpen
  BY DEF IInv
<1> QED BY <1>1, Invariance, PTL

(* The server's chat commands are those in the list                        *)
(* (LuaFunctionsDA.cpp:378-380, 402-404).                                  *)
THEOREM CommandsAgree == DASpec => []CommandsListed
<1>1. IInv => CommandsListed
  BY DEF IInv
<1> QED BY <1>1, Invariance, PTL
=============================================================================
