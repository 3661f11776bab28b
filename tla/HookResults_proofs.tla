------------------------- MODULE HookResults_proofs -------------------------
(***************************************************************************)
(* The answers of hooks (LuaManager.cpp), for any number of states, any    *)
(* answers and events that nest to any depth: what one hook has made of    *)
(* the answers so far is right at each state it asks, whatever the events  *)
(* raised meanwhile do, and no frame is left with more on it than said.    *)
(***************************************************************************)
EXTENDS HookResults, TLAPS, SequenceTheorems, FiniteSetTheorems

Own      == {"script", "crate"}
Deciding == {"veto", "bool", "crate", "damage"}

HeardSet == [how : {"answered", "failed", "absent"}, answer : Answers \cup {<<>>}]

WalkSet ==
  [event : Events, next : 1..(Count + 1), last : 0..Count, inside : BOOLEAN,
   ret : Values \cup Numbers \cup {"CONTINUE"},
   damage : Numbers \cup {"given"}, warhead : Numbers \cup {"given"}, heard : Seq(HeardSet)]

(* Where a hook is: a handler runs in a state that exists, and each state  *)
(* asked so far has been heard, unless the walk was cut short.             *)
Place(w) ==
  /\ w.next <= w.last + 1
  /\ w.inside => w.next <= w.last
  /\ KindOf[w.event] \in Own => w.last >= 1 /\ w.next = w.last + Len(w.heard)
  /\ KindOf[w.event] \notin Own => w.last = Count /\ Len(w.heard) < w.next
  /\ KindOf[w.event] \notin Own \cup {"purchase", "word"} => w.next = Len(w.heard) + 1
  /\ KindOf[w.event] = "word" /\ w.next <= w.last => w.next = Len(w.heard) + 1

(* RefusalStands, RefusalHasCause and WordsCount of one hook.              *)
Refused(w) == Silent(w) # {} \/ \E k \in Answered(w) : Refuses(w, k)
Caused(w) ==
  \/ \E k \in Answered(w) : Refuses(w, k)
  \/ Failed(w) # {} /\ (KindOf[w.event] = "damage" => Silent(w) # {})
Verdict(w) ==
  KindOf[w.event] \in Deciding => (Refused(w) => w.ret = "0") /\ (w.ret = "0" => Caused(w))

IsWord(w, k) == First(w, k) # "CONTINUE" /\ IsText(First(w, k))
Worded(w) ==
  KindOf[w.event] = "word" /\ Failed(w) = {} =>
    IF \E k \in Answered(w) : IsWord(w, k)
    THEN \E k \in Answered(w) : IsWord(w, k) /\ w.ret = First(w, k) /\ k = Len(w.heard) /\ w.next > w.last
    ELSE w.ret = "CONTINUE"

Counting(w) ==
  {k \in Answered(w) : IF KindOf[w.event] = "last" THEN Number(First(w, k)) # "0" ELSE IsText(First(w, k))}
Counted(w) ==
  KindOf[w.event] \in {"last", "integer"} /\ Failed(w) = {} =>
    IF Counting(w) = {} THEN w.ret = Default(w.event)
    ELSE \E m \in Counting(w) : w.ret = Number(First(w, m)) /\ \A k \in Counting(w) : k <= m

Sound(w) == Verdict(w) /\ Worded(w) /\ Counted(w)

(* The hooks below the innermost one all run a handler.                    *)
HooksInv ==
  /\ walks \in Seq(WalkSet)
  /\ \A k \in 1..(Len(walks) - 1) : walks[k].inside
  /\ \A k \in 1..Len(walks) : Place(walks[k]) /\ Sound(walks[k])

(* A state has a frame for each of its handlers that called a function of  *)
(* the Lua API, and its first one, in which only the lowest hook that runs *)
(* a handler in the state may have put the table of a script object.       *)
Callers(l) == {k \in 1..(Len(walks) - 1) : walks[k].next = l}

Tabled(l) ==
  \E k \in 1..Len(walks) :
    /\ walks[k].inside /\ walks[k].next = l /\ KindOf[walks[k].event] \in Own
    /\ \A j \in 1..(k - 1) : walks[j].next # l

Litter(l, v) ==
  \/ v = "function"
  \/ v = "nil" /\ (l \notin Reporting \/ \E e \in Events : KindOf[e] = "invoke")

FramesInv ==
  /\ slots \in [Lua -> Seq(Seq(Values))]
  /\ \A l \in Lua : IsFiniteSet(Callers(l)) /\ Len(slots[l]) = 1 + Cardinality(Callers(l))
  /\ \A l \in Lua : \A v \in ToSet(slots[l][1]) : Litter(l, v) \/ (v = "table" /\ Tabled(l))

IInv == HooksInv /\ FramesInv

-----------------------------------------------------------------------------
-----------------------------------------------------------------------------
(* Every step keeps the invariant: it begins a hook, ends one, or takes    *)
(* the innermost one a state further.                                      *)
THEOREM Invariance == Spec => []IInv

(* What a hook has heard when it has heard one state more.                 *)
<1>more. ASSUME NEW w \in WalkSet, NEW x \in WalkSet, NEW h \in HeardSet,
                x.event = w.event, x.last = w.last, x.heard = Append(w.heard, h)
         PROVE  LET n == Len(w.heard) + 1
                IN /\ n \in Nat /\ Len(x.heard) = n
                   /\ Answered(w) \subseteq 1..(n - 1) /\ Failed(w) \subseteq 1..(n - 1)
                   /\ Answered(x) = Answered(w) \cup (IF h.how = "answered" THEN {n} ELSE {})
                   /\ Failed(x) = Failed(w) \cup (IF h.how = "failed" THEN {n} ELSE {})
                   /\ Silent(x) = Silent(w) \cup (IF h.how = "failed" /\ State(w, n) \notin Reporting THEN {n} ELSE {})
                   /\ \A k \in Answered(w) : First(x, k) = First(w, k) /\ (Refuses(x, k) <=> Refuses(w, k))
                   /\ x.heard[n] = h
  <2> USE <1>more
  <2> DEFINE n == Len(w.heard) + 1
  <2>1. w.heard \in Seq(HeardSet) /\ x.heard \in Seq(HeardSet) /\ Len(w.heard) \in Nat
    BY DEF WalkSet
  <2>2. /\ Len(x.heard) = n /\ x.heard[n] = h
        /\ \A k \in 1..(n - 1) : x.heard[k] = w.heard[k]
    BY <2>1
  <2>3. Asked(w) = 1..(n - 1) /\ Asked(x) = 1..n /\ 1..n = 1..(n - 1) \cup {n} /\ n \notin 1..(n - 1) /\ n \in Nat
    BY <2>1, <2>2 DEF Asked
  <2> HIDE DEF n
  <2>4. Answered(w) \subseteq 1..(n - 1) /\ Failed(w) \subseteq 1..(n - 1)
    BY <2>3 DEF Answered, Failed
  <2>5. Answered(x) = Answered(w) \cup (IF h.how = "answered" THEN {n} ELSE {})
    BY <2>2, <2>3 DEF Answered
  <2>6. Failed(x) = Failed(w) \cup (IF h.how = "failed" THEN {n} ELSE {})
    BY <2>2, <2>3 DEF Failed
  <2>7. \A k : State(x, k) = State(w, k)
    BY DEF State
  <2>8. Silent(x) = Silent(w) \cup (IF h.how = "failed" /\ State(w, n) \notin Reporting THEN {n} ELSE {})
    BY <2>6, <2>7 DEF Silent
  <2>9. ASSUME NEW k \in Answered(w) PROVE First(x, k) = First(w, k) /\ (Refuses(x, k) <=> Refuses(w, k))
    <3>1. x.heard[k] = w.heard[k]
      BY <2>2, <2>4
    <3> QED BY <3>1 DEF First, Refuses
  <2> QED BY <2>2, <2>3, <2>4, <2>5, <2>6, <2>8, <2>9 DEF n

(* A hook makes the right thing of an answer, and of a failure: v is what  *)
(* it reads after the call, which has left results.                        *)
<1>hears. ASSUME NEW how, NEW answer \in Answers \cup {<<>>}, NEW results, NEW v, NEW x \in WalkSet,
                 Top \in WalkSet, Place(Top), Sound(Top), Top.inside, ~x.inside,
                 \/ how = "answered" /\ answer \in Answers /\ results = Cut(answer, Wanted(Kind))
                 \/ how = "failed" /\ answer = <<>> /\ results = IF L \in Reporting THEN <<>> ELSE <<"nil">>,
                 Kind # "damage" /\ results # <<>> => v = Last(results),
                 x.event = Top.event, x.last = Top.last,
                 x.heard = Append(Top.heard, [how |-> how, answer |-> answer]),
                 x.next = IF Kind = "word" /\ x.ret # "CONTINUE" THEN Top.last + 1 ELSE Top.next + 1,
                 x.ret = IF Kind # "damage" THEN Combined(v)
                         ELSE IF results # <<>> /\ Top.ret # "0" THEN Truth(Last(results)) ELSE Top.ret
          PROVE  Place(x) /\ Sound(x)
  <2> USE <1>hears
  <2> DEFINE w == Top
             h == [how |-> how, answer |-> answer]
             n == Len(w.heard) + 1
             f == IF answer = <<>> THEN "nil" ELSE Head(answer)
  <2>1. how \in {"answered", "failed"} /\ h \in HeardSet /\ h.how = how /\ h.answer = answer
    BY DEF HeardSet
  <2>2. w \in WalkSet /\ Place(w) /\ Sound(w) /\ L = w.next /\ Kind = KindOf[w.event] /\ w.next <= w.last
    BY DEF L, Kind, Place
  <2>3. /\ n \in Nat /\ Len(x.heard) = n /\ x.heard[n] = h
        /\ Answered(w) \subseteq 1..(n - 1) /\ Failed(w) \subseteq 1..(n - 1)
        /\ Answered(x) = Answered(w) \cup (IF how = "answered" THEN {n} ELSE {})
        /\ Failed(x) = Failed(w) \cup (IF how = "failed" THEN {n} ELSE {})
        /\ Silent(x) = Silent(w) \cup (IF how = "failed" /\ State(w, n) \notin Reporting THEN {n} ELSE {})
        /\ \A k \in Answered(w) : First(x, k) = First(w, k) /\ (Refuses(x, k) <=> Refuses(w, k))
    BY <2>1, <2>2, <1>more
  <2>4. First(x, n) = f
    BY <2>1, <2>3 DEF First
  <2>5. KindOf[x.event] = Kind
    BY <2>2
  <2>6. w.next \in Nat /\ w.last \in Nat /\ Count \in Nat
    BY <2>2, HookResultsAssumption DEF WalkSet
  <2> HIDE DEF w, h, n, f
  <2>7. Place(x)
    <3>1. ~x.inside /\ x.last = w.last
      BY DEF w
    <3>2. x.next = IF Kind = "word" /\ x.ret # "CONTINUE" THEN w.last + 1 ELSE w.next + 1
      BY DEF w
    <3>3. x.next <= x.last + 1 /\ x.next > w.next
      BY <2>2, <2>6, <3>1, <3>2
    <3>4. Len(w.heard) \in Nat /\ Len(x.heard) = Len(w.heard) + 1
      BY <2>2, <2>3 DEF n, WalkSet
    <3>5. Kind \in Own => x.last >= 1 /\ x.next = x.last + Len(x.heard)
      BY <2>2, <2>6, <3>1, <3>2, <3>4 DEF Place, Own
    <3>6. Kind \notin Own => x.last = Count /\ Len(x.heard) < x.next
      BY <2>2, <2>6, <3>1, <3>2, <3>3, <3>4 DEF Place
    <3>7. Kind \notin Own \cup {"purchase", "word"} => x.next = Len(x.heard) + 1
      BY <2>2, <2>6, <3>1, <3>2, <3>4 DEF Place
    <3>8. Kind = "word" /\ x.next <= x.last => x.next = Len(x.heard) + 1
      BY <2>2, <2>6, <3>1, <3>2, <3>4 DEF Place
    <3> QED BY <2>5, <3>1, <3>3, <3>5, <3>6, <3>7, <3>8 DEF Place
  <2>8. how = "answered" /\ Kind \in {"veto", "bool", "crate", "integer", "last", "word"} => v = f
    <3> SUFFICES ASSUME how = "answered", Kind \in {"veto", "bool", "crate", "integer", "last", "word"}
                 PROVE  v = f
      OBVIOUS
    <3>1. Wanted(Kind) = 1
      BY DEF Wanted
    <3>2. results = <<f>>
      BY <3>1 DEF Cut, f
    <3> QED BY <3>2 DEF Last
  <2>9. how = "failed" /\ L \notin Reporting /\ Kind # "damage" => v = "nil"
    <3> SUFFICES ASSUME how = "failed", L \notin Reporting, Kind # "damage" PROVE v = "nil"
      OBVIOUS
    <3>1. results = <<"nil">>
      OBVIOUS
    <3>2. Last(<<"nil">>) = "nil" /\ <<"nil">> # <<>>
      BY DEF Last
    <3> QED BY <3>1, <3>2
  <2>10. Verdict(x)
    <3> DEFINE no == IF how = "answered" THEN Refuses(x, n) ELSE L \notin Reporting
    <3> SUFFICES ASSUME Kind \in Deciding
                 PROVE  (Refused(x) => x.ret = "0") /\ (x.ret = "0" => Caused(x))
      BY <2>5 DEF Verdict
    <3>1. State(w, n) = L
      BY <2>2, <2>6 DEF State, Place, Deciding, Own, n
    <3>2. Refused(x) <=> Refused(w) \/ no
      BY <2>1, <2>3, <3>1 DEF Refused
    <3>3. Caused(w) \/ no \/ (how = "failed" /\ Kind # "damage") => Caused(x)
      BY <2>1, <2>2, <2>3, <2>5, <3>1 DEF Caused
    <3>4. (Refused(w) => w.ret = "0") /\ (w.ret = "0" => Caused(w))
      BY <2>2 DEF Sound, Verdict
    <3>5. CASE Kind = "damage"
      <4>1. how = "answered" => results = answer
        BY <3>5 DEF Wanted, Cut
      <4>2. Refuses(x, n) <=> answer # <<>> /\ Last(answer) \in {"nil", "false"}
        BY <2>1, <2>3, <2>5, <3>5 DEF Refuses
      <4>3. how = "failed" => results = IF L \in Reporting THEN <<>> ELSE <<"nil">>
        OBVIOUS
      <4>4. x.ret = "0" <=> w.ret = "0" \/ (results # <<>> /\ Last(results) \in {"nil", "false"})
        BY <3>5 DEF Truth, w
      <4>5. no <=> (results # <<>> /\ Last(results) \in {"nil", "false"})
        <5>1. CASE how = "answered"
          BY <4>1, <4>2, <5>1
        <5>2. CASE how = "failed" /\ L \in Reporting
          BY <4>3, <5>2
        <5>3. CASE how = "failed" /\ L \notin Reporting
          <6>1. results = <<"nil">> /\ no
            BY <4>3, <5>3
          <6>2. Last(<<"nil">>) = "nil" /\ <<"nil">> # <<>>
            BY DEF Last
          <6> QED BY <6>1, <6>2
        <5> QED BY <2>1, <5>1, <5>2, <5>3
      <4> QED BY <3>2, <3>3, <3>4, <4>4, <4>5
    <3>6. CASE Kind = "veto"
      <4>1. Refuses(x, n) <=> f \notin Numbers \ {"0"}
        BY <2>4, <2>5, <3>6 DEF Refuses
      <4>2. x.ret = IF w.ret = "0" THEN "0" ELSE Number(v)
        BY <3>6 DEF Combined, w
      <4>3. no => Number(v) = "0"
        BY <2>1, <2>8, <2>9, <3>6, <4>1 DEF Number, Numbers
      <4>4. how = "answered" /\ Number(v) = "0" => no
        BY <2>8, <3>6, <4>1 DEF Number, Numbers
      <4> QED BY <2>1, <3>2, <3>3, <3>4, <3>6, <4>2, <4>3, <4>4
    <3>7. CASE Kind \in {"bool", "crate"}
      <4>1. Refuses(x, n) <=> f \in {"nil", "false"}
        BY <2>4, <2>5, <3>7 DEF Refuses
      <4>2. x.ret = IF w.ret = "0" THEN "0" ELSE Truth(v)
        <5>1. CASE Kind = "bool"
          BY <5>1 DEF Combined, w
        <5>2. CASE Kind = "crate"
          <6>1. Answered(w) = {} /\ Failed(w) = {}
            BY <2>2, <2>3, <2>6, <5>2 DEF Place, Own, n
          <6>2. w.ret # "0"
            BY <3>4, <6>1 DEF Caused
          <6> QED BY <5>2, <6>2 DEF Combined, w
        <5> QED BY <3>7, <5>1, <5>2
      <4>3. no => Truth(v) = "0"
        BY <2>1, <2>8, <2>9, <3>7, <4>1 DEF Truth
      <4>4. how = "answered" /\ Truth(v) = "0" => no
        BY <2>8, <3>7, <4>1 DEF Truth
      <4> QED BY <2>1, <3>2, <3>3, <3>4, <3>7, <4>2, <4>3, <4>4
    <3> QED BY <3>5, <3>6, <3>7 DEF Deciding
  <2>11. Worded(x)
    <3> SUFFICES ASSUME Kind = "word", Failed(x) = {}
                 PROVE  IF \E k \in Answered(x) : IsWord(x, k)
                        THEN \E k \in Answered(x) : /\ IsWord(x, k) /\ x.ret = First(x, k)
                                                    /\ k = Len(x.heard) /\ x.next > x.last
                        ELSE x.ret = "CONTINUE"
      BY <2>5 DEF Worded
    <3>1. how = "answered" /\ Failed(w) = {} /\ n \in Answered(x)
      BY <2>1, <2>3
    <3>2. ~\E k \in Answered(w) : IsWord(w, k)
      BY <2>2, <2>6, <3>1 DEF Sound, Worded
    <3>3. \A k \in Answered(x) : IsWord(x, k) => k = n
      BY <2>3, <3>2 DEF IsWord
    <3>4. x.ret = IF IsText(f) THEN f ELSE "CONTINUE"
      BY <2>8, <3>1 DEF Combined
    <3>5. CASE IsWord(x, n)
      <4>1. x.ret = f /\ x.ret # "CONTINUE"
        BY <2>4, <3>4, <3>5 DEF IsWord
      <4>2. x.next > x.last
        BY <2>2, <2>6, <4>1 DEF w
      <4> QED BY <2>3, <2>4, <3>1, <3>5, <4>1, <4>2
    <3>6. CASE ~IsWord(x, n)
      BY <2>4, <3>3, <3>4, <3>6 DEF IsWord
    <3> QED BY <3>5, <3>6
  <2>12. Counted(x)
    <3> SUFFICES ASSUME Kind \in {"last", "integer"}, Failed(x) = {}
                 PROVE  IF Counting(x) = {} THEN x.ret = Default(x.event)
                        ELSE \E m \in Counting(x) : /\ x.ret = Number(First(x, m))
                                                    /\ \A k \in Counting(x) : k <= m
      BY <2>5 DEF Counted
    <3> DEFINE new == IF Kind = "last" THEN Number(f) # "0" ELSE IsText(f)
    <3>1. how = "answered" /\ Failed(w) = {}
      BY <2>1, <2>3
    <3>2. IF Counting(w) = {} THEN w.ret = Default(w.event)
          ELSE \E m \in Counting(w) : w.ret = Number(First(w, m)) /\ \A k \in Counting(w) : k <= m
      BY <2>2, <3>1 DEF Sound, Counted
    <3>3. Counting(x) = Counting(w) \cup (IF new THEN {n} ELSE {})
      BY <2>2, <2>3, <2>4, <2>5, <3>1 DEF Counting
    <3>4. x.ret = IF new THEN Number(f) ELSE w.ret
      BY <2>8, <3>1 DEF Combined, w
    <3>5. CASE new
      <4>1. n \in Counting(x) /\ \A k \in Counting(x) : k <= n
        BY <2>3, <3>3, <3>5 DEF Counting
      <4>2. x.ret = Number(First(x, n))
        BY <2>4, <3>4, <3>5
      <4> QED BY <4>1, <4>2
    <3>6. CASE ~new
      <4>1. Counting(x) = Counting(w) /\ x.ret = w.ret
        BY <3>3, <3>4, <3>6
      <4>2. \A m \in Counting(w) : First(x, m) = First(w, m)
        BY <2>3 DEF Counting
      <4>3. x.event = w.event
        BY DEF w
      <4> QED BY <3>2, <4>1, <4>2, <4>3
    <3> QED BY <3>5, <3>6
  <2> QED BY <2>7, <2>10, <2>11, <2>12 DEF Sound

<1>1. Init => IInv
  <2> SUFFICES ASSUME Init PROVE IInv
    OBVIOUS
  <2>1. walks \in Seq(WalkSet) /\ Len(walks) = 0 /\ Len(walks) - 1 = -1
    BY EmptySeq DEF Init
  <2>2. slots = [l \in Lua |-> <<<<>>>>] /\ <<<<>>>> \in Seq(Seq(Values)) /\ Len(<<<<>>>>) = 1
    <3>1. <<>> \in Seq(Values)
      BY EmptySeq
    <3> QED BY <3>1 DEF Init
  <2>3. HooksInv
    BY <2>1 DEF HooksInv
  <2>4. \A l \in Lua : Callers(l) = {}
    BY <2>1 DEF Callers
  <2>5. \A l \in Lua : ToSet(slots[l][1]) = {}
    <3>1. ToSet(<<>>) = {}
      BY DEF ToSet
    <3> QED BY <2>2, <3>1
  <2>6. FramesInv
    BY <2>2, <2>4, <2>5, FS_EmptySet DEF FramesInv
  <2> QED BY <2>3, <2>6 DEF IInv
<1>2. IInv /\ [Next]_vars => IInv'
  <2> SUFFICES ASSUME IInv, [Next]_vars PROVE IInv'
    OBVIOUS
  <2> DEFINE n == Len(walks)
  <2>0. /\ walks \in Seq(WalkSet) /\ n \in Nat /\ slots \in [Lua -> Seq(Seq(Values))]
        /\ \A k \in 1..n : walks[k] \in WalkSet /\ Place(walks[k]) /\ Sound(walks[k])
        /\ \A k \in 1..(n - 1) : walks[k].inside
    BY ElementOfSeq DEF IInv, HooksInv, FramesInv
  <2>1. Count \in Nat /\ Lua = 1..Count /\ \A a \in Answers : a \in Seq(STRING)
    BY HookResultsAssumption DEF Lua
  <2>2. ASSUME NEW l \in Lua
        PROVE  /\ slots[l] \in Seq(Seq(Values)) /\ Len(slots[l]) \in Nat /\ Len(slots[l]) >= 1
               /\ IsFiniteSet(Callers(l)) /\ Len(slots[l]) = 1 + Cardinality(Callers(l))
               /\ Len(slots[l]) = 1 <=> Callers(l) = {}
    <3>1. IsFiniteSet(Callers(l)) /\ Len(slots[l]) = 1 + Cardinality(Callers(l))
      BY DEF IInv, FramesInv
    <3>2. Cardinality(Callers(l)) \in Nat /\ (Cardinality(Callers(l)) = 0 <=> Callers(l) = {})
      BY <3>1, FS_CardinalityType, FS_EmptySet
    <3> QED BY <2>0, <3>1, <3>2
  <2>3. CASE UNCHANGED vars
    <3>1. walks' = walks /\ slots' = slots
      BY <2>3 DEF vars
    <3>2. HooksInv'
      BY <3>1 DEF IInv, HooksInv
    <3>3. \A l : Callers(l)' = Callers(l) /\ (Tabled(l) => Tabled(l)')
      BY <3>1 DEF Callers, Tabled
    <3>4. FramesInv'
      BY <3>1, <3>3 DEF IInv, FramesInv
    <3> QED BY <3>2, <3>4 DEF IInv

(* The innermost hook becomes x, and its state's innermost frame frame.    *)
  <2>4. ASSUME NEW x \in WalkSet, NEW frame \in Seq(Values), Place(x), Sound(x),
               walks # <<>>, L \in Lua, SetTop(x),
               SetFrame(L, frame) \/ (UNCHANGED slots /\ frame = Frame),
               \A v \in ToSet(frame) : \/ v \in ToSet(Frame) \/ Litter(L, v)
                                       \/ v = "table" /\ x.inside /\ x.next = L /\ KindOf[x.event] \in Own,
               Top.inside /\ Kind \in Own => frame = <<>>
        PROVE  IInv'
    <3>1. n >= 1 /\ Top = walks[n] /\ L = walks[n].next
      BY <2>0, <2>4 DEF Top, L, Last
    <3>2. /\ walks' \in Seq(WalkSet) /\ Len(walks') = n /\ walks'[n] = x
          /\ \A k \in 1..(n - 1) : walks'[k] = walks[k]
      BY <2>0, <2>4, <3>1 DEF SetTop
    <3>3. HooksInv'
      <4>1. ASSUME NEW k \in 1..n PROVE Place(walks'[k]) /\ Sound(walks'[k])
        <5>1. CASE k = n
          BY <2>4, <3>2, <5>1
        <5>2. CASE k # n
          <6>1. k \in 1..(n - 1)
            BY <2>0, <5>2
          <6> QED BY <2>0, <3>2, <6>1
        <5> QED BY <5>1, <5>2
      <4>2. \A k \in 1..(n - 1) : walks'[k].inside
        BY <2>0, <3>1, <3>2
      <4> QED BY <3>2, <4>1, <4>2 DEF HooksInv
    <3>4. \A l \in Lua : Callers(l)' = Callers(l)
      BY <2>0, <3>1, <3>2 DEF Callers
    <3>5. Frame = slots[L][Len(slots[L])] /\ Frame \in Seq(Values)
      BY <2>2, <2>4, ElementOfSeq DEF Frame, Last
    <3>6. /\ slots' \in [Lua -> Seq(Seq(Values))]
          /\ \A l \in Lua : Len(slots'[l]) = Len(slots[l])
          /\ \A l \in Lua : l # L \/ Len(slots[l]) # 1 => slots'[l][1] = slots[l][1]
          /\ Len(slots[L]) = 1 => slots'[L][1] = frame /\ slots[L][1] = Frame
      <4>1. CASE UNCHANGED slots /\ frame = Frame
        BY <2>0, <3>5, <4>1
      <4>2. CASE SetFrame(L, frame)
        <5> DEFINE s == [slots[L] EXCEPT ![Len(slots[L])] = frame]
        <5>1. s \in Seq(Seq(Values)) /\ Len(s) = Len(slots[L])
          BY <2>2, <2>4
        <5>2. (Len(slots[L]) # 1 => s[1] = slots[L][1]) /\ (Len(slots[L]) = 1 => s[1] = frame)
          BY <2>2, <2>4
        <5>3. slots' = [slots EXCEPT ![L] = s]
          BY <4>2 DEF SetFrame
        <5> HIDE DEF s
        <5> QED BY <2>0, <2>4, <3>5, <5>1, <5>2, <5>3
      <4> QED BY <2>4, <4>1, <4>2
    <3>7. ASSUME NEW l \in Lua, NEW v \in ToSet(slots'[l][1])
          PROVE  Litter(l, v) \/ (v = "table" /\ Tabled(l)')
      <4>1. Tabled(l) /\ ~(l = L /\ Top.inside /\ Kind \in Own /\ Callers(l) = {}) => Tabled(l)'
        <5> SUFFICES ASSUME Tabled(l), ~(l = L /\ Top.inside /\ Kind \in Own /\ Callers(l) = {})
                     PROVE  Tabled(l)'
          OBVIOUS
        <5>1. PICK k \in 1..n : /\ walks[k].inside /\ walks[k].next = l /\ KindOf[walks[k].event] \in Own
                                /\ \A j \in 1..(k - 1) : walks[j].next # l
          BY DEF Tabled
        <5>2. k # n
          BY <2>0, <3>1, <5>1 DEF Callers, Kind
        <5>3. k \in 1..(n - 1) /\ \A j \in 1..(k - 1) : j \in 1..(n - 1)
          BY <2>0, <5>1, <5>2
        <5>4. walks'[k] = walks[k] /\ \A j \in 1..(k - 1) : walks'[j] = walks[j]
          BY <3>2, <5>3
        <5> QED BY <3>2, <5>1, <5>4 DEF Tabled
      <4>2. CASE l # L \/ Len(slots[l]) # 1
        <5>1. v \in ToSet(slots[l][1])
          BY <3>6, <3>7, <4>2
        <5>2. Litter(l, v) \/ (v = "table" /\ Tabled(l))
          BY <5>1 DEF IInv, FramesInv
        <5> QED BY <2>2, <4>1, <4>2, <5>2
      <4>3. CASE l = L /\ Len(slots[l]) = 1
        <5>1. v \in ToSet(frame) /\ Callers(l) = {}
          BY <2>2, <3>6, <3>7, <4>3
        <5>2. CASE v \in ToSet(Frame)
          <6>1. Litter(l, v) \/ (v = "table" /\ Tabled(l))
            BY <3>6, <4>3, <5>2 DEF IInv, FramesInv
          <6>2. ToSet(<<>>) = {}
            BY DEF ToSet
          <6> QED BY <2>4, <4>1, <5>1, <6>1, <6>2
        <5>3. CASE v = "table" /\ x.inside /\ x.next = L /\ KindOf[x.event] \in Own
          <6>1. \A j \in 1..(n - 1) : walks'[j].next # l
            BY <3>2, <5>1 DEF Callers
          <6>2. n \in 1..n
            BY <2>0, <3>1
          <6> QED BY <3>2, <4>3, <5>3, <6>1, <6>2 DEF Tabled
        <5> QED BY <2>4, <4>3, <5>1, <5>2, <5>3
      <4> QED BY <4>2, <4>3
    <3>8. FramesInv'
      BY <2>2, <3>4, <3>6, <3>7 DEF FramesInv, Litter
    <3> QED BY <3>3, <3>8 DEF IInv

(* What a hook answers stays right while it hears nothing new.             *)
  <2>5. ASSUME NEW w \in WalkSet, NEW x \in WalkSet, Sound(w), x.event = w.event, x.heard = w.heard,
               x.ret = w.ret, x.last = w.last, x.next = w.next \/ KindOf[w.event] # "word"
        PROVE  Sound(x)
    <3>1. Answered(x) = Answered(w) /\ Failed(x) = Failed(w) /\ Silent(x) = Silent(w)
      BY <2>5 DEF Answered, Failed, Silent, Asked, State
    <3>2. \A k : First(x, k) = First(w, k) /\ (Refuses(x, k) <=> Refuses(w, k))
      BY <2>5 DEF First, Refuses
    <3>3. Verdict(x)
      BY <2>5, <3>1, <3>2 DEF Sound, Verdict, Refused, Caused
    <3>4. Worded(x)
      BY <2>5, <3>1, <3>2 DEF Sound, Worded, IsWord
    <3>5. Counting(x) = Counting(w)
      BY <2>5, <3>1, <3>2 DEF Counting
    <3>6. Counted(x)
      BY <2>5, <3>1, <3>2, <3>5 DEF Sound, Counted
    <3> QED BY <3>3, <3>4, <3>6 DEF Sound
  <2>6. walks # <<>> => /\ n \in 1..n /\ Top = walks[n] /\ Top \in WalkSet /\ Place(Top) /\ Sound(Top)
                        /\ Kind = KindOf[Top.event] /\ L = Top.next
                        /\ Top.next \in 1..(Count + 1) /\ Top.last \in 0..Count
                        /\ (Top.next <= Top.last => L \in Lua)
    <3> SUFFICES ASSUME walks # <<>>
                 PROVE  /\ n \in 1..n /\ Top = walks[n] /\ Top \in WalkSet /\ Place(Top) /\ Sound(Top)
                        /\ Kind = KindOf[Top.event] /\ L = Top.next
                        /\ Top.next \in 1..(Count + 1) /\ Top.last \in 0..Count
                        /\ (Top.next <= Top.last => L \in Lua)
      OBVIOUS
    <3>1. n \in 1..n /\ Top = walks[n]
      BY <2>0 DEF Top, Last
    <3>2. Top.next \in 1..(Count + 1) /\ Top.last \in 0..Count
      BY <2>0, <3>1 DEF WalkSet
    <3>3. Top.next <= Top.last => Top.next \in Lua
      BY <2>1, <3>2
    <3> QED BY <2>0, <3>1, <3>2, <3>3 DEF Kind, L
  <2>7. ASSUME L \in Lua PROVE Frame \in Seq(Values)
    BY <2>2, <2>7, ElementOfSeq DEF Frame, Last
  <2>8. CASE Call
    <3> DEFINE x == [Top EXCEPT !.inside = TRUE]
               frame == IF Kind \in Own THEN Append(Frame, "table") ELSE Frame
    <3>1. /\ walks # <<>> /\ ~Top.inside /\ Top.next <= Top.last /\ SetTop(x)
          /\ SetFrame(L, frame) \/ (UNCHANGED slots /\ frame = Frame)
      BY <2>8 DEF Call, Asking, Own
    <3>2. L \in Lua /\ Frame \in Seq(Values) /\ "table" \in Values
      <4>1. L \in Lua
        BY <2>6, <3>1
      <4>2. Frame \in Seq(Values)
        BY <2>7, <4>1
      <4>3. "table" \in Values
        BY DEF Values
      <4> QED BY <4>1, <4>2, <4>3
    <3>3. x \in WalkSet /\ x.inside
      BY <2>6, <3>1 DEF WalkSet
    <3>4. UNCHANGED <<>> /\ x.event = Top.event /\ x.heard = Top.heard /\ x.ret = Top.ret
          /\ x.last = Top.last /\ x.next = Top.next
      BY <2>6, <3>1 DEF WalkSet
    <3> HIDE DEF x
    <3>5. Place(x)
      BY <2>6, <3>1, <3>3, <3>4 DEF Place
    <3>6. Sound(x)
      BY <2>5, <2>6, <3>1, <3>3, <3>4
    <3>7. frame \in Seq(Values)
      BY <3>2
    <3>8. \A v \in ToSet(frame) : v \in ToSet(Frame) \/ (v = "table" /\ Kind \in Own)
      <4>1. CASE Kind \in Own
        <5>1. DOMAIN frame = 1..(Len(Frame) + 1) /\ DOMAIN Frame = 1..Len(Frame) /\ Len(Frame) \in Nat
          BY <3>2, <4>1
        <5>2. \A k \in 1..(Len(Frame) + 1) : frame[k] = IF k \in 1..Len(Frame) THEN Frame[k] ELSE "table"
          BY <3>2, <4>1
        <5> QED BY <4>1, <5>1, <5>2 DEF ToSet
      <4>2. CASE Kind \notin Own
        BY <4>2
      <4> QED BY <4>1, <4>2
    <3> HIDE DEF frame
    <3> QED BY <2>4, <2>6, <3>1, <3>2, <3>3, <3>4, <3>5, <3>6, <3>7, <3>8
  <2>9. CASE Skip
    <3> DEFINE h == [how |-> "absent", answer |-> <<>>]
               x == [Top EXCEPT !.next = @ + 1, !.heard = Append(Top.heard, h)]
               frame == CASE Kind = "invoke"             -> Append(Frame, "nil")
                          [] Kind \in {"script", "crate"} -> <<>>
                          [] OTHER                        -> Frame
    <3>1. /\ walks # <<>> /\ ~Top.inside /\ Top.next <= Top.last /\ SetTop(x) /\ SetFrame(L, frame)
      BY <2>9 DEF Skip, Asking, Heard
    <3>2. L \in Lua /\ Frame \in Seq(Values) /\ "nil" \in Values
      <4>1. L \in Lua
        BY <2>6, <3>1
      <4>2. Frame \in Seq(Values)
        BY <2>7, <4>1
      <4>3. "nil" \in Values
        BY DEF Values
      <4> QED BY <4>1, <4>2, <4>3
    <3>3. h \in HeardSet /\ h.how = "absent"
      BY DEF HeardSet
    <3>4. x \in WalkSet
      <4>1. Top.heard \in Seq(HeardSet)
        BY <2>6, <3>1 DEF WalkSet
      <4>2. Append(Top.heard, h) \in Seq(HeardSet)
        BY <3>3, <4>1, AppendProperties
      <4>3. Top.next + 1 \in 1..(Count + 1)
        BY <2>1, <2>6, <3>1
      <4> QED BY <2>6, <3>1, <4>2, <4>3 DEF WalkSet
    <3>5. /\ x.event = Top.event /\ x.heard = Append(Top.heard, h) /\ x.ret = Top.ret
          /\ x.last = Top.last /\ x.next = Top.next + 1 /\ ~x.inside
      BY <2>6, <3>1 DEF WalkSet
    <3> HIDE DEF x, h
    <3>6. /\ Len(x.heard) = Len(Top.heard) + 1 /\ Len(Top.heard) \in Nat
          /\ Answered(x) = Answered(Top) /\ Failed(x) = Failed(Top) /\ Silent(x) = Silent(Top)
          /\ \A k \in Answered(Top) : First(x, k) = First(Top, k) /\ (Refuses(x, k) <=> Refuses(Top, k))
      <4>1. Top \in WalkSet /\ Top.heard \in Seq(HeardSet)
        BY <2>6, <3>1 DEF WalkSet
      <4> DEFINE m == Len(Top.heard) + 1
      <4>2. /\ Len(x.heard) = m
            /\ Answered(x) = Answered(Top) \cup (IF h.how = "answered" THEN {m} ELSE {})
            /\ Failed(x) = Failed(Top) \cup (IF h.how = "failed" THEN {m} ELSE {})
            /\ Silent(x) = Silent(Top)
                 \cup (IF h.how = "failed" /\ State(Top, m) \notin Reporting THEN {m} ELSE {})
            /\ \A k \in Answered(Top) : First(x, k) = First(Top, k) /\ (Refuses(x, k) <=> Refuses(Top, k))
        BY <2>6, <3>1, <3>3, <3>4, <3>5, <1>more
      <4>3. h.how # "answered" /\ h.how # "failed"
        BY <3>3
      <4>4. Len(Top.heard) \in Nat
        BY <4>1
      <4> QED BY <4>2, <4>3, <4>4
    <3>7. Place(x)
      BY <2>1, <2>6, <3>1, <3>5, <3>6 DEF Place
    <3>8. Sound(x)
      <4>1. Verdict(x)
        BY <2>6, <3>1, <3>5, <3>6 DEF Sound, Verdict, Refused, Caused
      <4>2. Worded(x)
        <5>1. KindOf[Top.event] = "word" /\ Failed(Top) = {} =>
                (~\E k \in Answered(Top) : IsWord(Top, k)) /\ Top.ret = "CONTINUE"
          BY <2>6, <3>1 DEF Sound, Worded
        <5> QED BY <3>5, <3>6, <5>1 DEF Worded, IsWord
      <4>3. Counting(x) = Counting(Top)
        BY <3>5, <3>6 DEF Counting
      <4>4. \A k \in Counting(Top) : First(x, k) = First(Top, k)
        BY <3>6 DEF Counting
      <4>5. Counted(x)
        BY <2>6, <3>1, <3>5, <3>6, <4>3, <4>4 DEF Sound, Counted
      <4> QED BY <4>1, <4>2, <4>5 DEF Sound
    <3>9. frame \in Seq(Values)
      BY <3>2, EmptySeq
    <3>10. \A v \in ToSet(frame) : v \in ToSet(Frame) \/ (v = "nil" /\ Kind = "invoke")
      <4>1. CASE Kind = "invoke"
        <5>1. DOMAIN frame = 1..(Len(Frame) + 1) /\ DOMAIN Frame = 1..Len(Frame) /\ Len(Frame) \in Nat
          BY <3>2, <4>1
        <5>2. \A k \in 1..(Len(Frame) + 1) : frame[k] = IF k \in 1..Len(Frame) THEN Frame[k] ELSE "nil"
          BY <3>2, <4>1
        <5> QED BY <4>1, <5>1, <5>2 DEF ToSet
      <4>2. CASE Kind \in {"script", "crate"}
        <5>1. frame = <<>> /\ ToSet(<<>>) = {}
          BY <4>2 DEF ToSet
        <5> QED BY <5>1
      <4>3. CASE Kind \notin {"invoke", "script", "crate"}
        BY <4>3
      <4> QED BY <4>1, <4>2, <4>3
    <3>11. Kind = "invoke" => \E e \in Events : KindOf[e] = "invoke"
      BY <2>6, <3>1 DEF WalkSet
    <3> HIDE DEF frame
    <3> QED BY <2>4, <2>6, <3>1, <3>2, <3>4, <3>7, <3>8, <3>9, <3>10, <3>11 DEF Litter
  <2>sound. CASE SoundHeard
    <3> DEFINE h == [how |-> "failed", answer |-> <<>>]
               x == [Top EXCEPT !.next = @ + 1, !.heard = Append(Top.heard, h)]
    <3>1. /\ walks # <<>> /\ ~Top.inside /\ Top.next <= Top.last /\ Kind = "script"
          /\ SetTop(x) /\ SetFrame(L, <<>>)
      BY <2>sound DEF SoundHeard, Asking, Heard
    <3>2. L \in Lua /\ <<>> \in Seq(Values) /\ ToSet(<<>>) = {}
      <4>1. L \in Lua
        BY <2>6, <3>1
      <4> QED BY <4>1, EmptySeq DEF ToSet
    <3>3. h \in HeardSet
      BY DEF HeardSet
    <3>4. x \in WalkSet
      <4>1. Top.heard \in Seq(HeardSet)
        BY <2>6, <3>1 DEF WalkSet
      <4>2. Append(Top.heard, h) \in Seq(HeardSet)
        BY <3>3, <4>1, AppendProperties
      <4>3. Top.next + 1 \in 1..(Count + 1)
        BY <2>1, <2>6, <3>1
      <4> QED BY <2>6, <3>1, <4>2, <4>3 DEF WalkSet
    <3>5. /\ x.event = Top.event /\ x.heard = Append(Top.heard, h) /\ x.ret = Top.ret
          /\ x.last = Top.last /\ x.next = Top.next + 1 /\ ~x.inside
      BY <2>6, <3>1 DEF WalkSet
    <3>6. Len(x.heard) = Len(Top.heard) + 1 /\ Len(Top.heard) \in Nat
      BY <2>6, <3>1, <3>5 DEF WalkSet
    <3> HIDE DEF x, h
    <3>8. KindOf[x.event] = "script"
      BY <2>6, <3>1, <3>5
    <3>7. Place(x)
      <4>1. /\ Top.next \in Nat /\ Top.last \in Nat /\ Top.last >= 1
            /\ Top.next = Top.last + Len(Top.heard)
        BY <2>1, <2>6, <3>1, <3>5, <3>8 DEF Place, Own, WalkSet
      <4> QED BY <3>1, <3>5, <3>6, <3>8, <4>1 DEF Place, Own
    <3>9. Sound(x)
      BY <3>8 DEF Sound, Verdict, Worded, Counted, Deciding
    <3> QED BY <2>4, <2>6, <3>1, <3>2, <3>4, <3>7, <3>9
  <2>10. CASE PurchaserGone
    <3> DEFINE x == [Top EXCEPT !.next = Top.last + 1]
               frame == Append(Frame, "function")
    <3>1. /\ walks # <<>> /\ ~Top.inside /\ Top.next <= Top.last /\ Kind = "purchase"
          /\ SetTop(x) /\ SetFrame(L, frame)
      BY <2>10 DEF PurchaserGone, Asking
    <3>2. L \in Lua /\ Frame \in Seq(Values) /\ "function" \in Values
      <4>1. L \in Lua
        BY <2>6, <3>1
      <4>2. Frame \in Seq(Values)
        BY <2>7, <4>1
      <4>3. "function" \in Values
        BY DEF Values
      <4> QED BY <4>1, <4>2, <4>3
    <3>3. Top.last + 1 \in 1..(Count + 1)
      BY <2>1, <2>6, <3>1
    <3>4. x \in WalkSet
      BY <2>6, <3>1, <3>3 DEF WalkSet
    <3>5. /\ x.event = Top.event /\ x.heard = Top.heard /\ x.ret = Top.ret
          /\ x.last = Top.last /\ x.next = Top.last + 1 /\ ~x.inside
      BY <2>6, <3>1 DEF WalkSet
    <3> HIDE DEF x
    <3>6. Place(x)
      <4>1. Len(Top.heard) \in Nat
        BY <2>6, <3>1 DEF WalkSet
      <4> QED BY <2>1, <2>6, <3>1, <3>5, <4>1 DEF Place, Own
    <3>7. Sound(x)
      BY <2>5, <2>6, <3>1, <3>4, <3>5
    <3>8. frame \in Seq(Values)
      BY <3>2
    <3>9. \A v \in ToSet(frame) : v \in ToSet(Frame) \/ v = "function"
      <4>1. DOMAIN frame = 1..(Len(Frame) + 1) /\ DOMAIN Frame = 1..Len(Frame) /\ Len(Frame) \in Nat
        BY <3>2
      <4>2. \A k \in 1..(Len(Frame) + 1) : frame[k] = IF k \in 1..Len(Frame) THEN Frame[k] ELSE "function"
        BY <3>2
      <4> QED BY <4>1, <4>2 DEF ToSet
    <3> HIDE DEF frame
    <3> QED BY <2>4, <2>6, <3>1, <3>2, <3>4, <3>6, <3>7, <3>8, <3>9 DEF Litter, Own
  <2>11. ASSUME NEW how, NEW answer \in Answers \cup {<<>>}, NEW results, Running, GoOn(how, answer, results),
                \/ how = "answered" /\ answer \in Answers /\ results = Cut(answer, Wanted(Kind))
                \/ how = "failed" /\ answer = <<>> /\ results = IF L \in Reporting THEN <<>> ELSE <<"nil">>
         PROVE  IInv'
    <3> DEFINE frame == Frame \o results
               kept  == IF Clears(Kind) THEN <<>> ELSE frame
               h     == [how |-> how, answer |-> answer]
               after == [Top EXCEPT !.inside = FALSE, !.next = @ + 1, !.heard = Append(Top.heard, h)]
    <3>1. walks # <<>> /\ Top.inside
      BY <2>11 DEF Running
    <3>2. Top.next <= Top.last /\ L \in Lua
      BY <2>6, <3>1 DEF Place
    <3>3. Frame \in Seq(Values) /\ "nil" \in Values
      <4>1. Frame \in Seq(Values)
        BY <2>7, <3>2
      <4>2. "nil" \in Values
        BY DEF Values
      <4> QED BY <4>1, <4>2
    <3>4. results \in Seq(Values)
      <4>1. CASE how = "failed"
        <5>1. results = <<>> \/ results = <<"nil">>
          BY <2>11, <4>1
        <5>2. <<"nil">> \in Seq(Values) /\ <<>> \in Seq(Values)
          BY <3>3, EmptySeq
        <5> QED BY <5>1, <5>2
      <4>2. CASE how = "answered"
        <5>1. answer \in Answers /\ answer \in Seq(STRING) /\ results = Cut(answer, Wanted(Kind))
          BY <2>1, <2>11, <4>2
        <5>2. DOMAIN answer = 1..Len(answer)
          BY <5>1
        <5>3. \A k \in 1..Len(answer) : answer[k] \in Values
          BY <5>1, <5>2 DEF Values, ToSet
        <5>4. answer \in Seq(Values)
          BY <5>1, <5>3
        <5>5. answer # <<>> => Head(answer) \in Values
          BY <5>4
        <5>6. CASE Wanted(Kind) = -1
          BY <5>1, <5>4, <5>6 DEF Cut
        <5>7. CASE Wanted(Kind) = 0
          BY <5>1, <5>7, EmptySeq DEF Cut
        <5>8. CASE Wanted(Kind) = 1
          <6>1. results = <<IF answer = <<>> THEN "nil" ELSE Head(answer)>>
            BY <5>1, <5>8 DEF Cut
          <6> QED BY <3>3, <5>5, <6>1
        <5>9. Wanted(Kind) \in {-1, 0, 1}
          BY DEF Wanted
        <5> QED BY <5>6, <5>7, <5>8, <5>9
      <4> QED BY <2>11, <4>1, <4>2
    <3>5. frame \in Seq(Values) /\ kept \in Seq(Values)
      BY <3>3, <3>4, EmptySeq
    <3>6. ~Clears(Kind) => results = <<>> \/ (results = <<"nil">> /\ L \notin Reporting)
      <4> SUFFICES ASSUME ~Clears(Kind), results # <<>> PROVE results = <<"nil">> /\ L \notin Reporting
        OBVIOUS
      <4>1. Wanted(Kind) = 0
        BY DEF Clears, Wanted
      <4>2. how = "failed"
        BY <2>11, <4>1 DEF Cut
      <4> QED BY <2>11, <4>2
    <3>7. \A v \in ToSet(kept) : v \in ToSet(Frame) \/ Litter(L, v)
      <4>1. CASE Clears(Kind)
        <5>1. kept = <<>> /\ ToSet(<<>>) = {}
          BY <4>1 DEF ToSet
        <5> QED BY <5>1
      <4>2. CASE ~Clears(Kind) /\ results = <<>>
        BY <3>3, <4>2
      <4>3. CASE ~Clears(Kind) /\ results = <<"nil">> /\ L \notin Reporting
        <5>1. /\ DOMAIN kept = 1..(Len(Frame) + 1) /\ DOMAIN Frame = 1..Len(Frame) /\ Len(Frame) \in Nat
              /\ \A k \in 1..(Len(Frame) + 1) : kept[k] = IF k \in 1..Len(Frame) THEN Frame[k] ELSE "nil"
          BY <3>3, <4>3
        <5> QED BY <4>3, <5>1 DEF ToSet, Litter
      <4> QED BY <3>6, <4>1, <4>2, <4>3
    <3>8. SetFrame(L, kept)
      BY <2>11 DEF GoOn
    <3>9. after \in WalkSet /\ Top.heard \in Seq(HeardSet) /\ h \in HeardSet
      <4>1. Top.heard \in Seq(HeardSet) /\ h \in HeardSet
        BY <2>6, <2>11, <3>1 DEF WalkSet, HeardSet
      <4>2. Append(Top.heard, h) \in Seq(HeardSet)
        BY <4>1, AppendProperties
      <4>3. Top.next + 1 \in 1..(Count + 1)
        BY <2>1, <2>6, <3>1, <3>2
      <4> QED BY <2>6, <3>1, <4>1, <4>2, <4>3 DEF WalkSet
    <3>10. /\ after.event = Top.event /\ after.last = Top.last /\ ~after.inside /\ after.ret = Top.ret
           /\ after.heard = Append(Top.heard, h) /\ after.next = Top.next + 1
      BY <2>6, <3>1 DEF WalkSet
    <3> HIDE DEF after, kept, h
    <3>11. \E x \in WalkSet : \E v :
             /\ SetTop(x)
             /\ Kind # "damage" /\ results # <<>> => v = Last(results)
             /\ x.event = Top.event /\ x.last = Top.last /\ ~x.inside /\ x.heard = Append(Top.heard, h)
             /\ x.next = IF Kind = "word" /\ x.ret # "CONTINUE" THEN Top.last + 1 ELSE Top.next + 1
             /\ x.ret = IF Kind # "damage" THEN Combined(v)
                        ELSE IF results # <<>> /\ Top.ret # "0" THEN Truth(Last(results)) ELSE Top.ret
      <4>1. CASE Kind = "damage"
        <5> DEFINE x == Judged(after, results)
        <5>1. SetTop(x)
          BY <2>11, <4>1 DEF GoOn, after, h, Heard
        <5>2. /\ x.event = after.event /\ x.last = after.last /\ x.inside = after.inside
              /\ x.heard = after.heard /\ x.next = after.next
          BY <3>9 DEF Judged, WalkSet
        <5>3. Len(results) \in Nat /\ (Len(results) >= 1 <=> results # <<>>)
          BY <3>4
        <5>4. results # <<>> => Last(results) = results[Len(results)]
          BY DEF Last
        <5>5. x.ret = IF results # <<>> /\ Top.ret # "0" THEN Truth(Last(results)) ELSE Top.ret
          BY <3>9, <3>10, <5>3, <5>4 DEF Judged, WalkSet
        <5>6. x \in WalkSet
          BY <3>9, <5>3 DEF Judged, WalkSet, Truth, Numbers
        <5> HIDE DEF x
        <5> QED BY <3>10, <4>1, <5>1, <5>2, <5>5, <5>6
      <4>2. CASE Kind # "damage"
        <5>1. PICK v \in Readable(frame) :
                SetTop([after EXCEPT
                  !.ret  = Combined(v),
                  !.next = IF Kind = "word" /\ Combined(v) # "CONTINUE" THEN Top.last + 1 ELSE @])
          BY <2>11, <4>2 DEF GoOn, after, h, Heard
        <5> DEFINE x == [after EXCEPT
                  !.ret  = Combined(v),
                  !.next = IF Kind = "word" /\ Combined(v) # "CONTINUE" THEN Top.last + 1 ELSE @]
        <5>2. v \in Values
          BY <3>5, <5>1 DEF Readable, Last
        <5>3. Combined(v) \in Values \cup Numbers \cup {"CONTINUE"}
          <6>1. Top.ret \in Values \cup Numbers \cup {"CONTINUE"}
            BY <2>6, <3>1 DEF WalkSet
          <6> QED BY <5>2, <6>1 DEF Combined, Number, Truth, Numbers
        <5>4. Top.last + 1 \in 1..(Count + 1)
          BY <2>1, <2>6, <3>1
        <5>5. x \in WalkSet
          BY <3>9, <5>3, <5>4 DEF WalkSet
        <5>6. /\ x.event = after.event /\ x.last = after.last /\ x.inside = after.inside
              /\ x.heard = after.heard /\ x.ret = Combined(v)
              /\ x.next = IF Kind = "word" /\ Combined(v) # "CONTINUE" THEN Top.last + 1 ELSE after.next
          BY <3>9 DEF WalkSet
        <5>7. results # <<>> => v = Last(results)
          <6> SUFFICES ASSUME results # <<>> PROVE v = Last(results)
            OBVIOUS
          <6>1. frame # <<>> /\ frame[Len(frame)] = results[Len(results)]
            BY <3>3, <3>4
          <6>2. Last(frame) = Last(results)
            BY <6>1 DEF Last
          <6> QED BY <5>1, <6>1, <6>2 DEF Readable
        <5>8. SetTop(x)
          BY <5>1
        <5> HIDE DEF x
        <5> QED BY <3>10, <4>2, <5>5, <5>6, <5>7, <5>8
      <4> QED BY <4>1, <4>2
    <3>12. PICK x \in WalkSet : \E v :
             /\ SetTop(x)
             /\ Kind # "damage" /\ results # <<>> => v = Last(results)
             /\ x.event = Top.event /\ x.last = Top.last /\ ~x.inside /\ x.heard = Append(Top.heard, h)
             /\ x.next = IF Kind = "word" /\ x.ret # "CONTINUE" THEN Top.last + 1 ELSE Top.next + 1
             /\ x.ret = IF Kind # "damage" THEN Combined(v)
                        ELSE IF results # <<>> /\ Top.ret # "0" THEN Truth(Last(results)) ELSE Top.ret
      BY <3>11
    <3>13. Top \in WalkSet /\ Place(Top) /\ Sound(Top)
      BY <2>6, <3>1
    <3>14. Place(x) /\ Sound(x)
      BY <2>11, <3>1, <3>12, <3>13, <1>hears DEF h
    <3>15. Kind \in Own => kept = <<>>
      BY DEF Own, Clears, kept
    <3> HIDE DEF frame
    <3> QED BY <2>4, <3>1, <3>2, <3>5, <3>7, <3>8, <3>12, <3>14, <3>15
  <2>12. ASSUME NEW e \in Events, Begin(e),
                \/ walks = <<>> /\ UNCHANGED slots
                \/ Running /\ \E v \in {"nil", "1"} : slots' = [slots EXCEPT ![L] = Append(@, <<v>>)]
         PROVE  IInv'
    <3>1. PICK x : /\ walks' = Append(walks, x)
                   /\ \/ KindOf[e] \notin Own /\ x = Walk(e, 1, Count)
                      \/ KindOf[e] \in Own /\ \E l \in Lua : x = Walk(e, l, l)
      BY <2>12 DEF Begin, Own
    <3>2. PICK first, last : /\ x = Walk(e, first, last)
                             /\ \/ KindOf[e] \notin Own /\ first = 1 /\ last = Count
                                \/ KindOf[e] \in Own /\ first \in Lua /\ last = first
      BY <3>1
    <3>3. first \in 1..(Count + 1) /\ last \in 0..Count /\ first <= last + 1
      BY <2>1, <3>2
    <3>4. /\ x.event = e /\ x.next = first /\ x.last = last /\ ~x.inside /\ x.heard = <<>>
          /\ x.ret = Default(e) /\ x \in WalkSet
      <4>1. Default(e) \in Numbers \cup {"CONTINUE"} /\ <<>> \in Seq(HeardSet)
        BY EmptySeq DEF Default, Numbers
      <4> QED BY <3>2, <3>3, <4>1 DEF Walk, WalkSet
    <3>5. Len(x.heard) = 0 /\ Place(x)
      BY <2>1, <3>2, <3>3, <3>4 DEF Place, Own
    <3>6. Sound(x)
      <4>1. Answered(x) = {} /\ Failed(x) = {} /\ Silent(x) = {} /\ Counting(x) = {}
        BY <3>5 DEF Answered, Failed, Silent, Counting, Asked
      <4>2. Verdict(x)
        <5>1. KindOf[x.event] \in Deciding => x.ret = "1"
          BY <3>4 DEF Deciding, Default
        <5> QED BY <4>1, <5>1 DEF Verdict, Refused
      <4>3. Worded(x)
        BY <3>4, <4>1 DEF Worded, Default
      <4>4. Counted(x)
        BY <3>4, <4>1 DEF Counted
      <4> QED BY <4>2, <4>3, <4>4 DEF Sound
    <3>7. /\ walks' \in Seq(WalkSet) /\ Len(walks') = n + 1 /\ walks'[n + 1] = x
          /\ \A k \in 1..n : walks'[k] = walks[k]
      BY <2>0, <3>1, <3>4, AppendProperties
    <3>8. HooksInv'
      <4>1. ASSUME NEW k \in 1..(n + 1) PROVE Place(walks'[k]) /\ Sound(walks'[k])
        <5>1. CASE k = n + 1
          BY <3>5, <3>6, <3>7, <5>1
        <5>2. CASE k # n + 1
          <6>1. k \in 1..n
            BY <2>0, <5>2
          <6> QED BY <2>0, <3>7, <6>1
        <5> QED BY <5>1, <5>2
      <4>2. ASSUME NEW k \in 1..n PROVE walks'[k].inside
        <5>1. k \in 1..(n - 1) \/ k = n
          BY <2>0
        <5>2. k = n => walks # <<>>
          BY <2>0, <4>2
        <5>3. walks[k].inside
          BY <2>0, <2>6, <2>12, <5>1, <5>2 DEF Running
        <5> QED BY <3>7, <5>3
      <4>3. 1..(Len(walks') - 1) = 1..n
        BY <2>0, <3>7
      <4> QED BY <3>7, <4>1, <4>2, <4>3 DEF HooksInv
    <3>9. ASSUME NEW l \in Lua PROVE Tabled(l) => Tabled(l)'
      <4> SUFFICES ASSUME Tabled(l) PROVE Tabled(l)'
        OBVIOUS
      <4>1. PICK k \in 1..n : /\ walks[k].inside /\ walks[k].next = l /\ KindOf[walks[k].event] \in Own
                              /\ \A j \in 1..(k - 1) : walks[j].next # l
        BY DEF Tabled
      <4>2. k \in 1..(n + 1) /\ \A j \in 1..(k - 1) : j \in 1..n
        BY <2>0
      <4>3. walks'[k] = walks[k] /\ \A j \in 1..(k - 1) : walks'[j] = walks[j]
        BY <3>7, <4>2
      <4> QED BY <3>7, <4>1, <4>2, <4>3 DEF Tabled
    <3>10. ASSUME NEW l \in Lua
           PROVE  Callers(l)' = IF walks # <<>> /\ Top.next = l THEN Callers(l) \cup {n} ELSE Callers(l)
      <4>1. Callers(l)' = {k \in 1..n : walks[k].next = l}
        BY <2>0, <3>7 DEF Callers
      <4>2. CASE walks = <<>>
        BY <2>0, <4>1, <4>2 DEF Callers
      <4>3. CASE walks # <<>>
        <5>1. 1..n = 1..(n - 1) \cup {n} /\ Top = walks[n]
          BY <2>0, <2>6, <4>3
        <5> QED BY <4>1, <4>3, <5>1 DEF Callers
      <4> QED BY <4>2, <4>3
    <3>11. CASE walks = <<>> /\ UNCHANGED slots
      <4>1. \A l \in Lua : Callers(l)' = Callers(l)
        BY <3>10, <3>11
      <4> QED BY <3>8, <3>9, <3>11, <4>1 DEF IInv, FramesInv
    <3>12. CASE Running /\ \E v \in {"nil", "1"} : slots' = [slots EXCEPT ![L] = Append(@, <<v>>)]
      <4>1. PICK v \in {"nil", "1"} : slots' = [slots EXCEPT ![L] = Append(@, <<v>>)]
        BY <3>12
      <4>2. walks # <<>> /\ L = Top.next /\ L \in Lua
        BY <2>6, <3>12 DEF Running, Place
      <4>3. <<v>> \in Seq(Values)
        <5>1. v \in Values
          BY DEF Values
        <5> QED BY <5>1
      <4> DEFINE s == Append(slots[L], <<v>>)
      <4>4. s \in Seq(Seq(Values)) /\ Len(s) = Len(slots[L]) + 1 /\ s[1] = slots[L][1]
        BY <2>2, <4>2, <4>3, AppendProperties
      <4> HIDE DEF s
      <4>5. slots' = [slots EXCEPT ![L] = s]
        BY <4>1 DEF s
      <4>6. slots' \in [Lua -> Seq(Seq(Values))] /\ \A l \in Lua : slots'[l][1] = slots[l][1]
        BY <2>0, <4>4, <4>5
      <4>7. ASSUME NEW l \in Lua
            PROVE  IsFiniteSet(Callers(l)') /\ Len(slots'[l]) = 1 + Cardinality(Callers(l)')
        <5>1. CASE l = L
          <6>1. Callers(l)' = Callers(l) \cup {n} /\ n \notin Callers(l)
            BY <2>0, <3>10, <4>2, <5>1 DEF Callers
          <6>2. IsFiniteSet(Callers(l)') /\ Cardinality(Callers(l)') = Cardinality(Callers(l)) + 1
            <7>1. IsFiniteSet(Callers(l))
              BY <2>2
            <7>2. /\ IsFiniteSet(Callers(l) \cup {n})
                  /\ Cardinality(Callers(l) \cup {n})
                       = IF n \in Callers(l) THEN Cardinality(Callers(l)) ELSE Cardinality(Callers(l)) + 1
              BY <7>1, FS_AddElement
            <7> QED BY <6>1, <7>2
          <6>3. Len(slots'[l]) = Len(slots[l]) + 1
            BY <2>0, <4>4, <4>5, <5>1
          <6>4. Cardinality(Callers(l)) \in Nat
            BY <2>2, FS_CardinalityType
          <6> QED BY <2>2, <6>2, <6>3, <6>4
        <5>2. CASE l # L
          <6>1. Callers(l)' = Callers(l)
            BY <3>10, <4>2, <5>2
          <6>2. slots'[l] = slots[l]
            BY <2>0, <4>5, <5>2
          <6> QED BY <2>2, <6>1, <6>2
        <5> QED BY <5>1, <5>2
      <4>8. FramesInv'
        <5>1. ASSUME NEW l \in Lua, NEW u \in ToSet(slots'[l][1])
              PROVE  Litter(l, u) \/ (u = "table" /\ Tabled(l)')
          <6>1. u \in ToSet(slots[l][1])
            BY <4>6, <5>1
          <6>2. Litter(l, u) \/ (u = "table" /\ Tabled(l))
            BY <6>1 DEF IInv, FramesInv
          <6> QED BY <3>9, <6>2
        <5> QED BY <4>6, <4>7, <5>1 DEF FramesInv, Litter
      <4> QED BY <3>8, <4>8 DEF IInv
    <3> QED BY <2>12, <3>11, <3>12
  <2>13. CASE End
    <3>1. /\ walks # <<>> /\ ~Top.inside /\ walks' = Front(walks)
          /\ IF n = 1 THEN UNCHANGED slots
             ELSE slots' = [slots EXCEPT ![walks[n - 1].next] = Front(@)]
      BY <2>13 DEF End
    <3>2. n >= 1 /\ Top = walks[n]
      BY <2>0, <2>6, <3>1
    <3>3. /\ walks' \in Seq(WalkSet) /\ Len(walks') = n - 1
          /\ \A k \in 1..(n - 1) : walks'[k] = walks[k]
      <4> DEFINE m == n - 1
      <4>1. m \in Nat /\ Front(walks) = SubSeq(walks, 1, m)
        BY <2>0, <3>2 DEF Front
      <4>2. \A k \in 1..m : walks[k] \in WalkSet
        <5>1. \A k \in 1..(n - 1) : k \in 1..n
          BY <2>0
        <5> QED BY <2>0, <5>1
      <4> HIDE DEF m
      <4>3. /\ SubSeq(walks, 1, m) \in Seq(WalkSet)
            /\ Len(SubSeq(walks, 1, m)) = IF 1 <= m THEN m - 1 + 1 ELSE 0
            /\ \A k \in 1..(m - 1 + 1) : SubSeq(walks, 1, m)[k] = walks[1 + k - 1]
        BY <4>1, <4>2, SubSeqProperties
      <4>4. walks' \in Seq(WalkSet) /\ Len(walks') = m /\ \A k \in 1..m : walks'[k] = walks[k]
        BY <3>1, <4>1, <4>3
      <4> QED BY <4>4 DEF m
    <3>4. HooksInv'
      <4>1. ASSUME NEW k \in 1..(n - 1) PROVE Place(walks'[k]) /\ Sound(walks'[k]) /\ walks'[k].inside
        <5>1. k \in 1..n
          BY <2>0
        <5> QED BY <2>0, <3>3, <5>1
      <4>2. \A k \in 1..(Len(walks') - 1) : k \in 1..(n - 1)
        BY <2>0, <3>3
      <4> QED BY <3>3, <4>1, <4>2 DEF HooksInv
    <3>5. ASSUME NEW l \in Lua PROVE Tabled(l) => Tabled(l)'
      <4> SUFFICES ASSUME Tabled(l) PROVE Tabled(l)'
        OBVIOUS
      <4>1. PICK k \in 1..n : /\ walks[k].inside /\ walks[k].next = l /\ KindOf[walks[k].event] \in Own
                              /\ \A j \in 1..(k - 1) : walks[j].next # l
        BY DEF Tabled
      <4>2. k \in 1..(n - 1) /\ \A j \in 1..(k - 1) : j \in 1..(n - 1)
        BY <2>0, <3>1, <3>2, <4>1
      <4>3. walks'[k] = walks[k] /\ \A j \in 1..(k - 1) : walks'[j] = walks[j]
        BY <3>3, <4>2
      <4> QED BY <3>3, <4>1, <4>2, <4>3 DEF Tabled
    <3>6. \A l \in Lua : Callers(l)' = Callers(l) \ {n - 1}
      <4>1. 1..(n - 2) = 1..(n - 1) \ {n - 1} /\ Len(walks') - 1 = n - 2
        BY <2>0, <3>2, <3>3
      <4>2. \A l : Callers(l)' = {k \in 1..(n - 2) : walks[k].next = l}
        BY <3>3, <4>1 DEF Callers
      <4> QED BY <4>1, <4>2 DEF Callers
    <3>7. CASE n = 1
      <4>1. \A l \in Lua : Callers(l)' = Callers(l)
        BY <3>6, <3>7 DEF Callers
      <4>2. UNCHANGED slots
        BY <3>1, <3>7
      <4> QED BY <3>4, <3>5, <4>1, <4>2 DEF IInv, FramesInv
    <3>8. CASE n # 1
      <4> DEFINE c == walks[n - 1].next
                 s == Front(slots[c])
      <4>1. n - 1 \in 1..(n - 1) /\ n - 1 \in 1..n
        <5>1. n \in Nat /\ n >= 1 /\ n # 1
          BY <2>0, <3>2, <3>8
        <5> HIDE DEF n
        <5> QED BY <5>1
      <4>2. c \in Lua /\ n - 1 \in Callers(c)
        <5>1. walks[n - 1] \in WalkSet /\ Place(walks[n - 1]) /\ walks[n - 1].inside
          BY <2>0, <4>1
        <5>2. c \in 1..(Count + 1) /\ walks[n - 1].last \in 0..Count /\ c <= walks[n - 1].last
          BY <5>1 DEF WalkSet, Place
        <5> QED BY <2>1, <4>1, <5>2 DEF Callers
      <4>3. /\ slots[c] \in Seq(Seq(Values)) /\ Len(slots[c]) \in Nat /\ Len(slots[c]) >= 2
        <5>1. /\ slots[c] \in Seq(Seq(Values)) /\ Len(slots[c]) \in Nat /\ Len(slots[c]) >= 1
              /\ (Len(slots[c]) = 1 <=> Callers(c) = {})
          BY <2>2, <4>2
        <5>2. Callers(c) # {}
          BY <4>2
        <5>3. \A m \in Nat : m >= 1 /\ m # 1 => m >= 2
          OBVIOUS
        <5> HIDE DEF c
        <5> QED BY <5>1, <5>2, <5>3
      <4>4. s \in Seq(Seq(Values)) /\ Len(s) = Len(slots[c]) - 1 /\ s[1] = slots[c][1]
        BY <4>3 DEF Front
      <4> HIDE DEF s
      <4>5. slots' = [slots EXCEPT ![c] = s]
        BY <3>1, <3>8 DEF s
      <4>6. slots' \in [Lua -> Seq(Seq(Values))] /\ \A l \in Lua : slots'[l][1] = slots[l][1]
        BY <2>0, <4>2, <4>4, <4>5
      <4>7. ASSUME NEW l \in Lua
            PROVE  IsFiniteSet(Callers(l)') /\ Len(slots'[l]) = 1 + Cardinality(Callers(l)')
        <5>1. /\ IsFiniteSet(Callers(l) \ {n - 1})
              /\ Cardinality(Callers(l) \ {n - 1})
                   = IF n - 1 \in Callers(l) THEN Cardinality(Callers(l)) - 1 ELSE Cardinality(Callers(l))
          BY <2>2, FS_RemoveElement
        <5>2. n - 1 \in Callers(l) <=> l = c
          BY <4>1 DEF Callers
        <5>3. Len(slots'[l]) = IF l = c THEN Len(slots[l]) - 1 ELSE Len(slots[l])
          BY <2>0, <4>2, <4>4, <4>5
        <5>4. Cardinality(Callers(l)) \in Nat
          BY <2>2, FS_CardinalityType
        <5>5. Callers(l)' = Callers(l) \ {n - 1}
          BY <3>6
        <5>6. Len(slots[l]) = 1 + Cardinality(Callers(l))
          BY <2>2
        <5> HIDE DEF c, n
        <5> QED BY <5>1, <5>2, <5>3, <5>4, <5>5, <5>6
      <4>8. FramesInv'
        <5>1. ASSUME NEW l \in Lua, NEW u \in ToSet(slots'[l][1])
              PROVE  Litter(l, u) \/ (u = "table" /\ Tabled(l)')
          <6>1. u \in ToSet(slots[l][1])
            BY <4>6, <5>1
          <6>2. Litter(l, u) \/ (u = "table" /\ Tabled(l))
            BY <6>1 DEF IInv, FramesInv
          <6> QED BY <3>5, <6>2
        <5> QED BY <4>6, <4>7, <5>1 DEF FramesInv, Litter
      <4> QED BY <3>4, <4>8 DEF IInv
    <3> QED BY <3>7, <3>8
  <2>14. ASSUME NEW answer \in Answers, Return(answer) PROVE IInv'
    <3>1. Running /\ GoOn("answered", answer, Cut(answer, Wanted(Kind)))
      BY <2>14 DEF Return
    <3> QED BY <2>11, <3>1
  <2>15. CASE Fail
    <3>1. Running /\ GoOn("failed", <<>>, IF L \in Reporting THEN <<>> ELSE <<"nil">>)
      BY <2>15 DEF Fail
    <3> QED BY <2>11, <3>1
  <2>16. ASSUME NEW e \in Events, Raise(e) \/ RaiseInside(e) PROVE IInv'
    BY <2>12, <2>16 DEF Raise, RaiseInside
  <2> QED BY <2>3, <2>8, <2>9, <2>10, <2>13, <2>14, <2>15, <2>16, <2>sound DEF Next
<1> QED BY <1>1, <1>2, PTL DEF Spec

-----------------------------------------------------------------------------
(* Every variable keeps its type, and the hooks below the innermost one    *)
(* all run a handler.                                                      *)
THEOREM TypeCorrect == Spec => []TypeOK
<1>1. IInv => TypeOK
  <2> SUFFICES ASSUME IInv PROVE TypeOK
    OBVIOUS
  <2>1. \A l \in Lua : slots[l] # <<>>
    <3>1. ASSUME NEW l \in Lua PROVE slots[l] # <<>>
      <4>1. slots[l] \in Seq(Seq(Values)) /\ IsFiniteSet(Callers(l)) /\ Len(slots[l]) = 1 + Cardinality(Callers(l))
        BY DEF IInv, FramesInv
      <4>2. Cardinality(Callers(l)) \in Nat
        BY <4>1, FS_CardinalityType
      <4>3. Len(slots[l]) # 0
        BY <4>1, <4>2
      <4> QED BY <4>3
    <3> QED BY <3>1
  <2> QED BY <2>1 DEF IInv, HooksInv, FramesInv, TypeOK, WalkSet, HeardSet
<1> QED BY <1>1, Invariance, PTL

(* One refusal is enough, however the events nest.                         *)
THEOREM RefusalsStand == Spec => []RefusalStands
<1>1. IInv => RefusalStands
  <2> SUFFICES ASSUME IInv, NEW w \in Verdicts PROVE Refused(w) => w.ret = "0"
    BY DEF RefusalStands, Refused
  <2>1. PICK k \in 1..Len(walks) : w = walks[k]
    BY DEF Verdicts, Hooks, ToSet, IInv, HooksInv
  <2> QED BY <2>1 DEF IInv, HooksInv, Sound, Verdict, Verdicts, Deciding
<1> QED BY <1>1, Invariance, PTL

(* Nothing is refused without a cause, however the events nest.            *)
THEOREM RefusalsCaused == Spec => []RefusalHasCause
<1>1. IInv => RefusalHasCause
  <2> SUFFICES ASSUME IInv, NEW w \in Verdicts PROVE w.ret = "0" => Caused(w)
    BY DEF RefusalHasCause, Caused
  <2>1. PICK k \in 1..Len(walks) : w = walks[k]
    BY DEF Verdicts, Hooks, ToSet, IInv, HooksInv
  <2> QED BY <2>1 DEF IInv, HooksInv, Sound, Verdict, Verdicts, Deciding
<1> QED BY <1>1, Invariance, PTL

(* The first word, the last number and the last text count, however many   *)
(* states there are.                                                       *)
THEOREM WordsCounted == Spec => []WordsCount
<1>1. IInv => WordsCount
  <2> SUFFICES ASSUME IInv, NEW w \in Hooks, Failed(w) = {}
               PROVE  CASE KindOf[w.event] = "word" ->
                             IF \E k \in Answered(w) : IsWord(w, k)
                             THEN \E k \in Answered(w) : /\ IsWord(w, k) /\ w.ret = First(w, k)
                                                         /\ k = Len(w.heard) /\ w.next > w.last
                             ELSE w.ret = "CONTINUE"
                        [] KindOf[w.event] \in {"last", "integer"} ->
                             w.ret = IF Counting(w) = {} THEN Default(w.event)
                                     ELSE Number(First(w, Max(Counting(w))))
                        [] OTHER -> TRUE
    BY DEF WordsCount, IsWord, Counting
  <2>1. PICK k \in 1..Len(walks) : w = walks[k]
    BY DEF Hooks, ToSet, IInv, HooksInv
  <2>2. Worded(w) /\ Counted(w) /\ w \in WalkSet
    BY <2>1, ElementOfSeq DEF IInv, HooksInv, Sound
  <2>3. CASE KindOf[w.event] = "word"
    BY <2>2, <2>3 DEF Worded
  <2>4. CASE KindOf[w.event] \in {"last", "integer"}
    <3>1. CASE Counting(w) = {}
      BY <2>2, <2>4, <3>1 DEF Counted
    <3>2. CASE Counting(w) # {}
      <4>1. PICK m \in Counting(w) : w.ret = Number(First(w, m)) /\ \A j \in Counting(w) : j <= m
        BY <2>2, <2>4, <3>2 DEF Counted
      <4>2. Counting(w) \subseteq Nat
        BY <2>2 DEF Counting, Answered, Asked
      <4>3. Max(Counting(w)) = m
        BY <4>1, <4>2 DEF Max
      <4> QED BY <2>4, <3>2, <4>1, <4>3
    <3> QED BY <3>1, <3>2
  <2> QED BY <2>3, <2>4
<1> QED BY <1>1, Invariance, PTL

(* No answer and no argument is left behind on a state's stack.            *)
THEOREM StacksClean == Spec => []NothingElseLeft
<1>1. IInv => NothingElseLeft
  <2> SUFFICES ASSUME IInv, NEW l \in Lua, NEW v \in ToSet(Head(slots[l]))
               PROVE  \/ v = "nil" /\ (l \notin Reporting \/ \E e \in Events : KindOf[e] = "invoke")
                      \/ v = "function"
                      \/ /\ v = "table"
                         /\ \E w \in Hooks : w.inside /\ w.next = l /\ KindOf[w.event] \in {"script", "crate"}
    BY DEF NothingElseLeft
  <2>1. Head(slots[l]) = slots[l][1]
    BY DEF IInv, FramesInv
  <2>2. Litter(l, v) \/ (v = "table" /\ Tabled(l))
    BY <2>1 DEF IInv, FramesInv
  <2>3. Tabled(l) => \E w \in Hooks : w.inside /\ w.next = l /\ KindOf[w.event] \in {"script", "crate"}
    <3>1. DOMAIN walks = 1..Len(walks)
      BY DEF IInv, HooksInv
    <3> QED BY <3>1 DEF Tabled, Hooks, ToSet, Own
  <2> QED BY <2>2, <2>3 DEF Litter
<1> QED BY <1>1, Invariance, PTL
=============================================================================
