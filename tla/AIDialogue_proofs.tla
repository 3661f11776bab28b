-------------------------- MODULE AIDialogue_proofs --------------------------
(***************************************************************************)
(* The timers and flags of AI_Dialogue_Script (ConversationControl.cpp),   *)
(* for histories of any length: timers are pending callbacks, and every    *)
(* flag that silences the soldier has the timer that clears it.            *)
(***************************************************************************)
EXTENDS AIDialogue, TLAPS

(* The fields of a script with any number of pending timers.               *)
Fields == [Acting : BOOLEAN, LastState : States, SawEnemy : BOOLEAN, SawFriend : BOOLEAN,
           EnemyKilled : BOOLEAN, told : BOOLEAN, timers : [Timers -> Nat]]

(* A living soldier has one timer 2 while it speaks and none otherwise; a  *)
(* dead one may have two, the line it dropped and its last one.            *)
LineInv(s, d) ==
  /\ s.timers[2] <= 2
  /\ s.Acting => s.timers[2] > 0
  /\ ~d => s.timers[2] = IF s.Acting THEN 1 ELSE 0

(* A remark on an enemy or a friend is held back exactly while the timer   *)
(* of that remark is pending.                                              *)
SightInv(s) ==
  /\ s.timers[3] = IF s.SawEnemy THEN 1 ELSE 0
  /\ s.timers[4] = IF s.SawFriend THEN 1 ELSE 0

(* What Act and State_Changed keep true of the script s, d saying whether  *)
(* it is dead.                                                             *)
Good(s, d) == s \in Fields /\ LineInv(s, d) /\ SightInv(s)

(* News that was put off has the end of a line to wait for.                *)
IInv ==
  /\ Good(me, dead)
  /\ me.EnemyKilled => me.timers[2] > 0
  /\ me.timers[1] = IF star THEN 0 ELSE 1
  /\ aiState \in States
  /\ hibernating \in BOOLEAN /\ dead \in BOOLEAN /\ star \in BOOLEAN

(* What a script may be in after Act: a line is started only by a soldier  *)
(* that is silent, awake and, but for its last line, alive.                *)
Acted(s, r, type) ==
  /\ r \in Fields /\ r.LastState = s.LastState /\ r.EnemyKilled = s.EnemyKilled
  /\ r.timers[1] = s.timers[1]
  /\ \/ r.Acting = s.Acting /\ r.timers[2] = s.timers[2]
     \/ /\ ~s.Acting /\ r.Acting /\ r.timers[2] = s.timers[2] + 1
        /\ ~star /\ (dead => type = "DIE")
  /\ \/ r.SawEnemy = s.SawEnemy /\ r.timers[3] = s.timers[3]
     \/ type = "SAW_ENEMY" /\ r.SawEnemy /\ r.timers[3] = s.timers[3] + 1
  /\ \/ r.SawFriend = s.SawFriend /\ r.timers[4] = s.timers[4]
     \/ type = "SAW_FRIEND" /\ r.SawFriend /\ r.timers[4] = s.timers[4] + 1

(* A timer that is started is one pending callback more.                   *)
LEMMA StartedFields ==
  ASSUME NEW s \in Fields, NEW n \in Timers
  PROVE  /\ Started(s, n) \in Fields
         /\ Started(s, n).timers = [s.timers EXCEPT ![n] = @ + 1]
         /\ Started(s, n).Acting = s.Acting /\ Started(s, n).LastState = s.LastState
         /\ Started(s, n).SawEnemy = s.SawEnemy /\ Started(s, n).SawFriend = s.SawFriend
         /\ Started(s, n).EnemyKilled = s.EnemyKilled
BY DEF Started, Fields

LEMMA ActFields ==
  ASSUME NEW s \in Fields, NEW type, NEW r \in Act(s, type)
  PROVE  Acted(s, r, type)
<1> DEFINE on == [s EXCEPT !.told = (type = "KILLED_ENEMY")]
           seen == IF type = "SAW_FRIEND" THEN Started([on EXCEPT !.SawFriend = TRUE], 4)
                   ELSE IF type = "SAW_ENEMY" THEN Started([on EXCEPT !.SawEnemy = TRUE], 3)
                   ELSE on
           speaks == Started([seen EXCEPT !.Acting = TRUE], 2)
<1>1. CASE r = s
  BY <1>1 DEF Acted, Fields
<1>2. CASE r # s
  <2>1. ~s.Acting /\ ~star /\ (dead => type = "DIE") /\ r \in {seen, speaks}
    BY <1>2 DEF Act
  <2>2. /\ seen \in Fields /\ seen.LastState = s.LastState /\ seen.EnemyKilled = s.EnemyKilled
        /\ seen.Acting = s.Acting
        /\ seen.timers[1] = s.timers[1] /\ seen.timers[2] = s.timers[2]
        /\ \/ seen.SawEnemy = s.SawEnemy /\ seen.timers[3] = s.timers[3]
           \/ type = "SAW_ENEMY" /\ seen.SawEnemy /\ seen.timers[3] = s.timers[3] + 1
        /\ \/ seen.SawFriend = s.SawFriend /\ seen.timers[4] = s.timers[4]
           \/ type = "SAW_FRIEND" /\ seen.SawFriend /\ seen.timers[4] = s.timers[4] + 1
    <3>0. /\ on \in Fields /\ on.timers = s.timers /\ on.Acting = s.Acting
          /\ on.LastState = s.LastState /\ on.EnemyKilled = s.EnemyKilled
          /\ on.SawEnemy = s.SawEnemy /\ on.SawFriend = s.SawFriend
      <4>1. (type = "KILLED_ENEMY") \in BOOLEAN
        OBVIOUS
      <4> QED BY <4>1 DEF Fields
    <3> HIDE DEF on
    <3>1. CASE type = "SAW_FRIEND"
      <4> DEFINE s1 == [on EXCEPT !.SawFriend = TRUE]
      <4>1. /\ s1 \in Fields /\ s1.SawFriend /\ s1.timers = s.timers /\ s1.Acting = s.Acting
            /\ s1.LastState = s.LastState /\ s1.EnemyKilled = s.EnemyKilled
            /\ s1.SawEnemy = s.SawEnemy
        BY <3>0 DEF Fields
      <4>2. seen = Started(s1, 4) /\ 4 \in Timers
        BY <3>1 DEF Timers
      <4> HIDE DEF s1, seen
      <4>3. /\ seen \in Fields /\ seen.timers = [s.timers EXCEPT ![4] = @ + 1]
            /\ seen.Acting = s.Acting /\ seen.LastState = s.LastState
            /\ seen.EnemyKilled = s.EnemyKilled /\ seen.SawEnemy = s.SawEnemy /\ seen.SawFriend
        BY <4>1, <4>2, StartedFields
      <4>4. /\ seen.timers[1] = s.timers[1] /\ seen.timers[2] = s.timers[2]
            /\ seen.timers[3] = s.timers[3] /\ seen.timers[4] = s.timers[4] + 1
        BY <4>3 DEF Fields, Timers
      <4> QED BY <3>1, <4>3, <4>4
    <3>2. CASE type = "SAW_ENEMY"
      <4> DEFINE s1 == [on EXCEPT !.SawEnemy = TRUE]
      <4>1. /\ s1 \in Fields /\ s1.SawEnemy /\ s1.timers = s.timers /\ s1.Acting = s.Acting
            /\ s1.LastState = s.LastState /\ s1.EnemyKilled = s.EnemyKilled
            /\ s1.SawFriend = s.SawFriend
        BY <3>0 DEF Fields
      <4>2. seen = Started(s1, 3) /\ 3 \in Timers
        BY <3>2 DEF Timers
      <4> HIDE DEF s1, seen
      <4>3. /\ seen \in Fields /\ seen.timers = [s.timers EXCEPT ![3] = @ + 1]
            /\ seen.Acting = s.Acting /\ seen.LastState = s.LastState
            /\ seen.EnemyKilled = s.EnemyKilled /\ seen.SawFriend = s.SawFriend /\ seen.SawEnemy
        BY <4>1, <4>2, StartedFields
      <4>4. /\ seen.timers[1] = s.timers[1] /\ seen.timers[2] = s.timers[2]
            /\ seen.timers[4] = s.timers[4] /\ seen.timers[3] = s.timers[3] + 1
        BY <4>3 DEF Fields, Timers
      <4> QED BY <3>2, <4>3, <4>4
    <3>3. CASE type \notin {"SAW_FRIEND", "SAW_ENEMY"}
      BY <3>0, <3>3
    <3> QED BY <3>1, <3>2, <3>3
  <2> HIDE DEF seen
  <2>3. /\ speaks \in Fields /\ speaks.LastState = seen.LastState
        /\ speaks.EnemyKilled = seen.EnemyKilled /\ speaks.Acting
        /\ speaks.SawEnemy = seen.SawEnemy /\ speaks.SawFriend = seen.SawFriend
        /\ speaks.timers = [seen.timers EXCEPT ![2] = @ + 1]
    <3> DEFINE s1 == [seen EXCEPT !.Acting = TRUE]
    <3>1. /\ s1 \in Fields /\ s1.SawEnemy = seen.SawEnemy /\ s1.SawFriend = seen.SawFriend
          /\ s1.timers = seen.timers /\ s1.Acting /\ s1.LastState = seen.LastState
          /\ s1.EnemyKilled = seen.EnemyKilled
      BY <2>2 DEF Fields
    <3>2. speaks = Started(s1, 2) /\ 2 \in Timers
      BY DEF Timers
    <3> HIDE DEF s1, speaks
    <3> QED BY <3>1, <3>2, StartedFields
  <2> HIDE DEF speaks
  <2>4. CASE r = seen
    BY <2>2, <2>4 DEF Acted
  <2>5. CASE r = speaks
    BY <2>1, <2>2, <2>3, <2>5 DEF Acted, Fields, Timers
  <2> QED BY <2>1, <2>4, <2>5
<1> QED BY <1>1, <1>2

(* Act keeps the script good, unless the remark is still held back.        *)
LEMMA ActGood ==
  ASSUME NEW s, Good(s, dead), dead \in BOOLEAN, NEW type, NEW r \in Act(s, type),
         type # "DIE",
         type = "SAW_ENEMY" => ~s.SawEnemy, type = "SAW_FRIEND" => ~s.SawFriend
  PROVE  /\ Good(r, dead) /\ r.timers[1] = s.timers[1] /\ r.EnemyKilled = s.EnemyKilled
         /\ r.timers[2] >= s.timers[2]
         /\ r.timers[2] > s.timers[2] => s.timers[2] = 0 /\ r.timers[2] = 1
<1>1. s \in Fields /\ Acted(s, r, type)
  BY ActFields DEF Good
<1>2. r \in Fields /\ r.timers[1] = s.timers[1] /\ r.EnemyKilled = s.EnemyKilled
  BY <1>1 DEF Acted
<1>3. r.timers \in [Timers -> Nat] /\ s.timers \in [Timers -> Nat]
  BY <1>1, <1>2 DEF Fields
<1>4. LineInv(r, dead) /\ r.timers[2] >= s.timers[2]
  BY <1>1, <1>3 DEF Acted, Good, LineInv, Timers
<1>5. SightInv(r)
  BY <1>1 DEF Acted, Good, SightInv
<1>6. r.timers[2] > s.timers[2] => s.timers[2] = 0 /\ r.timers[2] = 1
  BY <1>1, <1>3 DEF Acted, Good, LineInv, Timers
<1> QED BY <1>2, <1>4, <1>5, <1>6 DEF Good

(* What NoOverlap says of one step.                                        *)
OneLine == me'.timers[2] > me.timers[2] => (me.timers[2] = 0 \/ (dead' /\ ~dead))

(* Every callback and timer keeps the invariant and starts no line over    *)
(* another, but for the last one.                                          *)
LEMMA StepGood == IInv /\ [Next]_vars => IInv' /\ OneLine
<1> SUFFICES ASSUME IInv, [Next]_vars PROVE IInv' /\ OneLine
  OBVIOUS
<1>t. /\ Good(me, dead) /\ me \in Fields /\ me.timers \in [Timers -> Nat]
      /\ LineInv(me, dead) /\ SightInv(me)
      /\ dead \in BOOLEAN /\ star \in BOOLEAN /\ 1 \in Timers /\ 2 \in Timers
      /\ 3 \in Timers /\ 4 \in Timers
  BY DEF IInv, Good, Fields, Timers

(* A timer that expires is one pending callback less.                      *)
<1>e. ASSUME NEW n \in Timers, me.timers[n] > 0
      PROVE  /\ Expired(n) \in Fields
             /\ Expired(n).timers = [me.timers EXCEPT ![n] = @ - 1]
             /\ Expired(n).Acting = me.Acting /\ Expired(n).LastState = me.LastState
             /\ Expired(n).SawEnemy = me.SawEnemy /\ Expired(n).SawFriend = me.SawFriend
             /\ Expired(n).EnemyKilled = me.EnemyKilled
  <2>1. me.timers[n] - 1 \in Nat
    BY <1>e, <1>t
  <2> QED BY <1>t, <2>1 DEF Expired, Fields

<1>1. ASSUME NEW type, me' \in Act(me, type), UNCHANGED World, type # "DIE",
             type = "SAW_ENEMY" => ~me.SawEnemy, type # "SAW_FRIEND"
      PROVE  IInv' /\ OneLine
  <2>1. /\ Good(me', dead) /\ me'.timers[1] = me.timers[1]
        /\ me'.EnemyKilled = me.EnemyKilled /\ me'.timers[2] >= me.timers[2]
        /\ me'.timers[2] > me.timers[2] => me.timers[2] = 0 /\ me'.timers[2] = 1
    BY <1>1, <1>t, ActGood
  <2>2. UNCHANGED <<aiState, hibernating, dead, star>>
    BY <1>1 DEF World
  <2>3. me'.EnemyKilled => me'.timers[2] > 0
    <3>1. me'.timers[2] \in Nat /\ me.timers[2] \in Nat
      BY <1>t, <2>1 DEF Good, Fields
    <3> QED BY <2>1, <3>1 DEF IInv
  <2> QED BY <2>1, <2>2, <2>3 DEF IInv, OneLine
<1>2. CASE Damaged
  BY <1>1, <1>2 DEF Damaged
<1>3. CASE Poked
  BY <1>1, <1>3 DEF Poked
<1>4. CASE EnemySeen
  BY <1>1, <1>4 DEF EnemySeen
<1>5. ASSUME NEW type \in CustomTypes, Custom(type) PROVE IInv' /\ OneLine
  <2>1. CASE type = "KILLED_ENEMY" /\ me.Acting
    <3>1. me' = [me EXCEPT !.EnemyKilled = TRUE] /\ UNCHANGED <<aiState, hibernating, dead, star>>
      BY <1>5, <2>1 DEF Custom, World
    <3>2. /\ me' \in Fields /\ me'.timers = me.timers /\ me'.Acting = me.Acting
          /\ me'.SawEnemy = me.SawEnemy /\ me'.SawFriend = me.SawFriend
      BY <1>t, <3>1 DEF Fields
    <3>3. me.timers[2] > 0
      BY <1>t, <2>1 DEF LineInv
    <3> QED BY <1>t, <3>1, <3>2, <3>3 DEF IInv, Good, LineInv, SightInv, OneLine
  <2>2. CASE ~(type = "KILLED_ENEMY" /\ me.Acting)
    BY <1>1, <1>5, <2>2 DEF Custom, CustomTypes
  <2> QED BY <2>1, <2>2
<1>6. CASE Killed
  <2>1. dead = FALSE /\ dead' = TRUE /\ UNCHANGED <<aiState, hibernating, star>>
    BY <1>6, <1>t DEF Killed
  <2>2. CASE UNCHANGED me
    BY <1>t, <2>1, <2>2 DEF IInv, Good, LineInv, OneLine
  <2>3. CASE me' \in Act([me EXCEPT !.Acting = FALSE], "DIE")
    <3> DEFINE s == [me EXCEPT !.Acting = FALSE]
    <3>1. /\ s \in Fields /\ s.timers = me.timers /\ ~s.Acting
          /\ s.SawEnemy = me.SawEnemy /\ s.SawFriend = me.SawFriend
          /\ s.EnemyKilled = me.EnemyKilled
      BY <1>t DEF Fields
    <3>2. me' \in Act(s, "DIE")
      BY <2>3
    <3> HIDE DEF s
    <3>3. Acted(s, me', "DIE")
      BY <3>1, <3>2, ActFields
    <3>4. me' \in Fields /\ me'.timers \in [Timers -> Nat]
      BY <3>3 DEF Acted, Fields
    <3>5. /\ me'.timers[2] <= 2 /\ me'.timers[2] >= me.timers[2]
          /\ me'.Acting => me'.timers[2] > 0
          /\ me'.timers[1] = me.timers[1] /\ me'.EnemyKilled = me.EnemyKilled
      BY <1>t, <2>1, <3>1, <3>3, <3>4 DEF Acted, LineInv
    <3>6. SightInv(me)'
      BY <1>t, <3>1, <3>3 DEF Acted, SightInv
    <3>7. me'.EnemyKilled => me'.timers[2] > 0
      BY <1>t, <3>4, <3>5 DEF IInv
    <3> QED BY <2>1, <3>4, <3>5, <3>6, <3>7 DEF IInv, Good, LineInv, OneLine
  <2> QED BY <1>6, <2>2, <2>3 DEF Killed
<1>7. CASE Timer1
  <2> DEFINE e == Expired(1)
  <2>1. PICK changed \in StateChanged(e, aiState), seen \in BOOLEAN :
          \E s \in IF seen /\ ~hibernating /\ ~changed.SawFriend
                   THEN Act(changed, "SAW_FRIEND") ELSE {changed} :
            me' = Started(s, 1)
    BY <1>7 DEF Timer1
  <2>2. PICK s \in IF seen /\ ~hibernating /\ ~changed.SawFriend
                   THEN Act(changed, "SAW_FRIEND") ELSE {changed} :
          me' = Started(s, 1)
    BY <2>1
  <2>3. UNCHANGED <<aiState, hibernating, dead, star>> /\ me.timers[1] = 1 /\ ~star
    BY <1>7, <1>t DEF Timer1, World, IInv
  <2>4. /\ Good(e, dead) /\ e.timers[1] = 0 /\ e.timers[2] = me.timers[2]
        /\ e.EnemyKilled = me.EnemyKilled
    <3>1. /\ e \in Fields /\ e.timers = [me.timers EXCEPT ![1] = @ - 1]
          /\ e.Acting = me.Acting /\ e.SawEnemy = me.SawEnemy /\ e.SawFriend = me.SawFriend
          /\ e.EnemyKilled = me.EnemyKilled
      BY <1>t, <2>3, <1>e
    <3> HIDE DEF e
    <3>2. /\ e.timers[1] = 0 /\ e.timers[2] = me.timers[2]
          /\ e.timers[3] = me.timers[3] /\ e.timers[4] = me.timers[4]
      BY <1>t, <2>3, <3>1
    <3> QED BY <1>t, <3>1, <3>2 DEF Good, LineInv, SightInv
  <2> HIDE DEF e
  <2>5. /\ Good(changed, dead) /\ changed.timers[1] = 0
        /\ changed.EnemyKilled = me.EnemyKilled /\ changed.timers[2] >= me.timers[2]
        /\ changed.timers[2] > me.timers[2] => me.timers[2] = 0 /\ changed.timers[2] = 1
    <3> DEFINE now == [e EXCEPT !.LastState = aiState]
    <3>1. /\ Good(now, dead) /\ now.timers = e.timers /\ now.EnemyKilled = e.EnemyKilled
      BY <2>4 DEF Good, LineInv, SightInv, Fields, IInv
    <3>2. changed \in {e, now} \/ changed \in Act(now, "STATE")
      BY <2>1 DEF StateChanged
    <3> HIDE DEF now
    <3>3. CASE changed \in {e, now}
      BY <1>t, <2>4, <3>1, <3>3
    <3>4. CASE changed \in Act(now, "STATE")
      BY <1>t, <2>4, <3>1, <3>4, ActGood
    <3> QED BY <3>2, <3>3, <3>4
  <2>6. /\ Good(s, dead) /\ s.timers[1] = 0
        /\ s.EnemyKilled = me.EnemyKilled /\ s.timers[2] >= me.timers[2]
        /\ s.timers[2] > me.timers[2] => me.timers[2] = 0
    <3>1. CASE s = changed
      BY <2>5, <3>1
    <3>2. CASE s \in Act(changed, "SAW_FRIEND") /\ ~changed.SawFriend
      <4>1. /\ Good(s, dead) /\ s.timers[1] = changed.timers[1]
            /\ s.EnemyKilled = changed.EnemyKilled /\ s.timers[2] >= changed.timers[2]
            /\ s.timers[2] > changed.timers[2] => changed.timers[2] = 0
        BY <1>t, <2>5, <3>2, ActGood
      <4>2. s.timers[2] \in Nat /\ changed.timers[2] \in Nat /\ me.timers[2] \in Nat
        BY <1>t, <2>5, <4>1 DEF Good, Fields
      <4> QED BY <2>5, <4>1, <4>2
    <3> QED BY <2>2, <3>1, <3>2
  <2>7. /\ me' \in Fields /\ me'.timers = [s.timers EXCEPT ![1] = @ + 1]
        /\ me'.Acting = s.Acting /\ me'.SawEnemy = s.SawEnemy /\ me'.SawFriend = s.SawFriend
        /\ me'.EnemyKilled = s.EnemyKilled
    BY <1>t, <2>2, <2>6, StartedFields DEF Good
  <2>8. /\ me'.timers[1] = 1 /\ me'.timers[2] = s.timers[2]
        /\ me'.timers[3] = s.timers[3] /\ me'.timers[4] = s.timers[4]
    BY <1>t, <2>6, <2>7 DEF Good, Fields
  <2>9. me'.EnemyKilled => me'.timers[2] > 0
    <3>1. me'.timers[2] \in Nat /\ me.timers[2] \in Nat
      BY <1>t, <2>7 DEF Fields
    <3> QED BY <2>6, <2>7, <2>8, <3>1 DEF IInv
  <2> QED BY <2>3, <2>6, <2>7, <2>8, <2>9 DEF IInv, Good, LineInv, SightInv, OneLine
<1>8. CASE Timer2
  <2> DEFINE over == [Expired(2) EXCEPT !.Acting = FALSE, !.told = FALSE]
  <2>1. /\ UNCHANGED <<aiState, hibernating, dead, star>> /\ me.timers[2] \in {1, 2}
        /\ ~dead => me.timers[2] = 1
    BY <1>8, <1>t DEF Timer2, World, LineInv
  <2>2. /\ over \in Fields /\ over.timers = [me.timers EXCEPT ![2] = @ - 1] /\ ~over.Acting
        /\ over.SawEnemy = me.SawEnemy /\ over.SawFriend = me.SawFriend
        /\ over.EnemyKilled = me.EnemyKilled
    <3> DEFINE s == Expired(2)
    <3>1. me.timers[2] > 0
      BY <2>1
    <3>2. /\ s \in Fields /\ s.timers = [me.timers EXCEPT ![2] = @ - 1]
          /\ s.SawEnemy = me.SawEnemy /\ s.SawFriend = me.SawFriend
          /\ s.EnemyKilled = me.EnemyKilled
      BY <1>t, <3>1, <1>e
    <3>3. over = [s EXCEPT !.Acting = FALSE, !.told = FALSE]
      OBVIOUS
    <3> HIDE DEF s, over
    <3> QED BY <3>2, <3>3 DEF Fields
  <2>3. \/ over.EnemyKilled /\ \E s \in Act(over, "KILLED_ENEMY") :
                                  me' = [s EXCEPT !.EnemyKilled = FALSE]
        \/ ~over.EnemyKilled /\ me' = over
    BY <1>8 DEF Timer2
  <2> HIDE DEF over
  <2>4. /\ over.timers[1] = me.timers[1] /\ over.timers[2] = me.timers[2] - 1
        /\ over.timers[3] = me.timers[3] /\ over.timers[4] = me.timers[4]
    BY <1>t, <2>2
  <2>5. Good(over, dead)
    BY <1>t, <2>1, <2>2, <2>4 DEF Good, LineInv, SightInv
  <2>6. CASE ~over.EnemyKilled /\ me' = over
    BY <2>1, <2>4, <2>5, <2>6 DEF IInv, OneLine
  <2>7. ASSUME NEW s \in Act(over, "KILLED_ENEMY"), me' = [s EXCEPT !.EnemyKilled = FALSE]
        PROVE  IInv' /\ OneLine
    <3>1. /\ Good(s, dead) /\ s.timers[1] = me.timers[1]
          /\ s.timers[2] > over.timers[2] => over.timers[2] = 0 /\ s.timers[2] = 1
      BY <1>t, <2>4, <2>5, <2>7, ActGood
    <3>2. /\ me' \in Fields /\ me'.timers = s.timers /\ ~me'.EnemyKilled
          /\ me'.Acting = s.Acting /\ me'.SawEnemy = s.SawEnemy /\ me'.SawFriend = s.SawFriend
      BY <2>7, <3>1 DEF Good, Fields
    <3>3. me'.timers[2] > me.timers[2] => FALSE
      <4>1. s.timers[2] \in Nat /\ over.timers[2] \in Nat
        BY <2>5, <3>1 DEF Good, Fields, Timers
      <4> QED BY <2>1, <2>4, <3>1, <3>2, <4>1
    <3> QED BY <2>1, <3>1, <3>2, <3>3 DEF IInv, Good, LineInv, SightInv, OneLine
  <2> QED BY <2>3, <2>6, <2>7
<1>9. CASE Timer3 \/ Timer4
  <2>1. UNCHANGED <<aiState, hibernating, dead, star>>
    BY <1>9 DEF Timer3, Timer4, World
  <2>2. ASSUME NEW n \in {3, 4}, me.timers[n] > 0, NEW s, s = Expired(n)
        PROVE  /\ s \in Fields /\ s.timers[n] = me.timers[n] - 1
               /\ \A m \in Timers : m # n => s.timers[m] = me.timers[m]
               /\ s.Acting = me.Acting /\ s.LastState = me.LastState
               /\ s.SawEnemy = me.SawEnemy /\ s.SawFriend = me.SawFriend
               /\ s.EnemyKilled = me.EnemyKilled
    <3>1. n \in Timers
      BY <1>t
    <3>2. /\ s \in Fields /\ s.timers = [me.timers EXCEPT ![n] = @ - 1]
          /\ s.Acting = me.Acting /\ s.LastState = me.LastState
          /\ s.SawEnemy = me.SawEnemy /\ s.SawFriend = me.SawFriend
          /\ s.EnemyKilled = me.EnemyKilled
      BY <1>t, <2>2, <3>1, <1>e
    <3> QED BY <1>t, <3>1, <3>2
  <2>3. CASE Timer3
    <3>1. PICK s : s = Expired(3) /\ me' = [s EXCEPT !.SawEnemy = FALSE] /\ me.timers[3] > 0
      BY <2>3 DEF Timer3
    <3>2. /\ s \in Fields /\ s.timers[3] = me.timers[3] - 1
          /\ s.timers[1] = me.timers[1] /\ s.timers[2] = me.timers[2]
          /\ s.timers[4] = me.timers[4]
          /\ s.Acting = me.Acting /\ s.SawFriend = me.SawFriend /\ s.EnemyKilled = me.EnemyKilled
      BY <1>t, <2>2, <3>1
    <3>3. /\ me' \in Fields /\ me'.timers = s.timers /\ ~me'.SawEnemy /\ me'.Acting = s.Acting
          /\ me'.SawFriend = s.SawFriend /\ me'.EnemyKilled = s.EnemyKilled
      BY <3>1, <3>2 DEF Fields
    <3> QED BY <1>t, <2>1, <3>1, <3>2, <3>3 DEF IInv, Good, LineInv, SightInv, OneLine
  <2>4. CASE Timer4
    <3>1. PICK s : s = Expired(4) /\ me' = [s EXCEPT !.SawFriend = FALSE] /\ me.timers[4] > 0
      BY <2>4 DEF Timer4
    <3>2. /\ s \in Fields /\ s.timers[4] = me.timers[4] - 1
          /\ s.timers[1] = me.timers[1] /\ s.timers[2] = me.timers[2]
          /\ s.timers[3] = me.timers[3]
          /\ s.Acting = me.Acting /\ s.SawEnemy = me.SawEnemy /\ s.EnemyKilled = me.EnemyKilled
      BY <1>t, <2>2, <3>1
    <3>3. /\ me' \in Fields /\ me'.timers = s.timers /\ ~me'.SawFriend /\ me'.Acting = s.Acting
          /\ me'.SawEnemy = s.SawEnemy /\ me'.EnemyKilled = s.EnemyKilled
      BY <3>1, <3>2 DEF Fields
    <3> QED BY <1>t, <2>1, <3>1, <3>2, <3>3 DEF IInv, Good, LineInv, SightInv, OneLine
  <2> QED BY <1>9, <2>3, <2>4
<1>10. CASE WorldMoves \/ UNCHANGED vars
  BY <1>t, <1>10 DEF WorldMoves, vars, IInv, OneLine
<1> QED BY <1>2, <1>3, <1>4, <1>5, <1>6, <1>7, <1>8, <1>9, <1>10 DEF Next

-----------------------------------------------------------------------------
(* The invariant of the callbacks holds in every reachable state.          *)
THEOREM Invariance == Spec => []IInv
<1>1. Init => IInv
  <2> SUFFICES ASSUME Init PROVE IInv
    OBVIOUS
  <2>1. /\ me.timers = [n \in Timers |-> IF n = 1 /\ ~star THEN 1 ELSE 0]
        /\ ~me.Acting /\ ~me.SawEnemy /\ ~me.SawFriend /\ ~me.EnemyKilled
        /\ dead = FALSE /\ hibernating \in BOOLEAN /\ star \in BOOLEAN /\ aiState \in States
    BY DEF Init
  <2>2. me.timers \in [Timers -> Nat]
    BY <2>1 DEF Timers
  <2>3. me \in Fields
    BY <2>1, <2>2 DEF Init, Fields
  <2>4. /\ me.timers[1] = IF star THEN 0 ELSE 1
        /\ me.timers[2] = 0 /\ me.timers[3] = 0 /\ me.timers[4] = 0
    BY <2>1 DEF Timers
  <2>5. LineInv(me, dead)
    BY <2>1, <2>4 DEF LineInv
  <2>6. SightInv(me)
    BY <2>1, <2>4 DEF SightInv
  <2> QED BY <2>1, <2>3, <2>4, <2>5, <2>6 DEF IInv, Good
<1> QED BY <1>1, StepGood, PTL DEF Spec

(* Timers are pending as often as TypeOK says and no more, however long    *)
(* the soldier lives (ConversationControl.cpp:133-285).                    *)
THEOREM TypeCorrect == Spec => []TypeOK
<1>1. IInv => TypeOK
  <2> SUFFICES ASSUME IInv PROVE TypeOK
    OBVIOUS
  <2>1. me.timers \in [Timers -> 0..2]
    <3>1. me.timers \in [Timers -> Nat] /\ me.timers[2] <= 2 /\ me.timers[1] \in {0, 1}
          /\ me.timers[3] \in {0, 1} /\ me.timers[4] \in {0, 1}
      BY DEF IInv, Good, Fields, LineInv, SightInv
    <3>2. ASSUME NEW n \in Timers PROVE me.timers[n] \in 0..2
      BY <3>1 DEF Timers
    <3> QED BY <3>1, <3>2
  <2>2. me.timers[3] < 2 /\ me.timers[4] < 2
    BY DEF IInv, Good, SightInv
  <2>3. me \in Fields
    BY DEF IInv, Good
  <2> QED BY <2>1, <2>2, <2>3 DEF IInv, Fields, TypeOK
<1> QED BY <1>1, Invariance, PTL

(* No flag is left without the timer that clears it: neither a line, nor a *)
(* remark, nor news that was put off is held back for ever.                *)
THEOREM FlagsTimed == Spec => []FlagsHaveTimers
<1>1. IInv => FlagsHaveTimers
  BY DEF IInv, Good, LineInv, SightInv, FlagsHaveTimers
<1> QED BY <1>1, Invariance, PTL

(* No soldier starts a line over another, except its last one.             *)
THEOREM LinesApart == Spec => NoOverlap
<1>1. IInv /\ [Next]_vars => [OneLine]_vars
  BY StepGood
<1> QED BY <1>1, Invariance, PTL DEF Spec, NoOverlap, OneLine
=============================================================================
