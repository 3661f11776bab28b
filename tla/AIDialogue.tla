----------------------------- MODULE AIDialogue -----------------------------
(***************************************************************************)
(* AI_Dialogue_Script of ConversationControl.cpp: the script that makes a  *)
(* soldier of the computer speak.  It is driven by the callbacks of the    *)
(* engine and by its own timers: 1 polls the soldier, 2 ends a line, 3 and *)
(* 4 end the time in which it does not remark on another enemy or friend.  *)
(*                                                                         *)
(* The fields of the script and its pending timers are one record, because *)
(* a callback may call Act twice.  The text of a line, its sound and its   *)
(* random choice are left out: a line is spoken or (silence) it is not.    *)
(***************************************************************************)
EXTENDS Naturals

States == {"idle", "search", "combat", "other"}
Timers == 1..4

VARIABLES
  me,            (* the fields of the script, how many timers of each       *)
                 (* number are pending, and whether Act last set out to     *)
                 (* remark on a killed enemy (told: history, for the        *)
                 (* property DeferredServed)                                *)
  aiState,       (* what Get_AI_State of the soldier says                   *)
  hibernating,   (* Is_Hibernating                                          *)
  dead,          (* Is_Dead                                                 *)
  star           (* Is_A_Star: a player, for whom the script is silent      *)

vars == <<me, aiState, hibernating, dead, star>>

Started(s, n) == [s EXCEPT !.timers[n] = @ + 1]

(* Created: clear the fields and, for a soldier of the computer, start the *)
(* polling timer.                                                          *)
Init ==
  /\ aiState \in States
  /\ hibernating \in BOOLEAN
  /\ dead = FALSE
  /\ star \in BOOLEAN
  /\ me = [Acting |-> FALSE, LastState |-> aiState, SawEnemy |-> FALSE, SawFriend |-> FALSE,
           EnemyKilled |-> FALSE, told |-> FALSE,
           timers |-> [n \in Timers |-> IF n = 1 /\ ~star THEN 1 ELSE 0]]

-----------------------------------------------------------------------------
(* Slip: Act without the test of _Acting.                                  *)
ActAgain(s, type) ==
  IF hibernating \/ star \/ (dead /\ type # "DIE") THEN {s}
  ELSE {s, Started([s EXCEPT !.Acting = TRUE], 2)}

(* Slip: the remark on a friend starts the timer of the enemies.           *)
ActWrongTimer(s, type) ==
  IF hibernating \/ s.Acting \/ star \/ (dead /\ type # "DIE") THEN {s}
  ELSE LET seen == IF type = "SAW_FRIEND" THEN Started([s EXCEPT !.SawFriend = TRUE], 3) ELSE s
       IN {seen, Started([seen EXCEPT !.Acting = TRUE], 2)}

(* Act, as the set of the states the script may be in after it: unchanged  *)
(* when it must not speak; otherwise a remark on a sighting is remembered, *)
(* and then the script is silent or speaks until timer 2 expires.          *)
Act(s, type) ==
  IF hibernating \/ s.Acting \/ star \/ (dead /\ type # "DIE") THEN {s}
  ELSE LET on == [s EXCEPT !.told = (type = "KILLED_ENEMY")]
           seen == IF type = "SAW_FRIEND" THEN Started([on EXCEPT !.SawFriend = TRUE], 4)
                   ELSE IF type = "SAW_ENEMY" THEN Started([on EXCEPT !.SawEnemy = TRUE], 3)
                   ELSE on
       IN {seen, Started([seen EXCEPT !.Acting = TRUE], 2)}

(* Slip: State_Changed ignores the soldier while it hibernates.            *)
StateChangedAwake(s, to) ==
  IF s.LastState = to \/ hibernating THEN {s} ELSE Act([s EXCEPT !.LastState = to], "STATE")

(* State_Changed: remember the new state and remark on the changes between *)
(* idle, search and combat.                                                *)
StateChanged(s, to) ==
  LET now == [s EXCEPT !.LastState = to]
  IN IF s.LastState = to THEN {s}
     ELSE IF hibernating \/ "other" \in {s.LastState, to} THEN {now}
     ELSE Act(now, "STATE")

World == <<aiState, hibernating, dead, star>>

(* Damaged, with a damager and a blow that is not deadly.                  *)
Damaged ==
  /\ ~hibernating
  /\ me' \in Act(me, "TAKE_DAMAGE")
  /\ UNCHANGED World

(* Killed: a soldier that does not hibernate and has a killer drops its    *)
(* line for its last one.                                                  *)
Killed ==
  /\ ~dead
  /\ dead' = TRUE
  /\ \/ UNCHANGED me
     \/ ~hibernating /\ me' \in Act([me EXCEPT !.Acting = FALSE], "DIE")
  /\ UNCHANGED <<aiState, hibernating, star>>

Poked ==
  /\ ~hibernating /\ me.LastState # "other"
  /\ me' \in Act(me, "POKE")
  /\ UNCHANGED World

(* Enemy_Seen, outside the time that follows a remark on an enemy.         *)
EnemySeen ==
  /\ ~hibernating /\ ~me.SawEnemy
  /\ me' \in Act(me, "SAW_ENEMY")
  /\ UNCHANGED World

(* Custom: the victim of this soldier tells it.  The news of a killed      *)
(* enemy that arrives during a line is kept for the end of the line.       *)
Custom(type) ==
  /\ IF type = "KILLED_ENEMY" /\ me.Acting
     THEN me' = [me EXCEPT !.EnemyKilled = TRUE]
     ELSE me' \in Act(me, type)
  /\ UNCHANGED World

CustomTypes == {"DAMAGE_ENEMY", "DAMAGE_FRIEND", "KILLED_ENEMY", "KILLED_FRIEND"}

(* Timer_Expired.  A timer is pending until its callback.                  *)
Expired(n) == [me EXCEPT !.timers[n] = @ - 1]

(* Slip: the poll is not started again.                                    *)
Timer1Once ==
  /\ me.timers[1] > 0
  /\ me' \in StateChanged(Expired(1), aiState)
  /\ UNCHANGED World

(* Timer 1: follow the state, look for a friend unless one was seen lately *)
(* (seen: whether a visible friend is there) and poll again.               *)
Timer1 ==
  /\ me.timers[1] > 0
  /\ \E changed \in StateChanged(Expired(1), aiState), seen \in BOOLEAN :
       \E s \in IF seen /\ ~hibernating /\ ~changed.SawFriend
                THEN Act(changed, "SAW_FRIEND") ELSE {changed} :
         me' = Started(s, 1)
  /\ UNCHANGED World

(* Slip: the news kept during a line is dropped at its end.                *)
Timer2Forgets ==
  /\ me.timers[2] > 0
  /\ me' = [Expired(2) EXCEPT !.Acting = FALSE, !.EnemyKilled = FALSE, !.told = FALSE]
  /\ UNCHANGED World

(* Timer 2: the line is over; the news kept during it comes now.           *)
Timer2 ==
  /\ me.timers[2] > 0
  /\ LET over == [Expired(2) EXCEPT !.Acting = FALSE, !.told = FALSE]
     IN IF over.EnemyKilled
        THEN \E s \in Act(over, "KILLED_ENEMY") : me' = [s EXCEPT !.EnemyKilled = FALSE]
        ELSE me' = over
  /\ UNCHANGED World

Timer3 ==
  /\ me.timers[3] > 0
  /\ me' = [Expired(3) EXCEPT !.SawEnemy = FALSE]
  /\ UNCHANGED World

Timer4 ==
  /\ me.timers[4] > 0
  /\ me' = [Expired(4) EXCEPT !.SawFriend = FALSE]
  /\ UNCHANGED World

(* The engine changes what the soldier does and wakes it up or not.        *)
WorldMoves ==
  /\ aiState' \in States /\ hibernating' \in BOOLEAN
  /\ UNCHANGED <<me, dead, star>>

Next ==
  \/ Damaged \/ Killed \/ Poked \/ EnemySeen
  \/ \E type \in CustomTypes : Custom(type)
  \/ Timer1 \/ Timer2 \/ Timer3 \/ Timer4
  \/ WorldMoves

Spec == Init /\ [][Next]_vars

(* The engine calls back every timer that was started.                     *)
FairSpec == Spec /\ WF_vars(Timer1) /\ WF_vars(Timer2) /\ WF_vars(Timer3) /\ WF_vars(Timer4)

-----------------------------------------------------------------------------
(* A callback is never left without its timer nor piled on another: the    *)
(* polling timer is pending exactly once, those of the sightings at most   *)
(* once, that of a line at most twice (a last line over another).          *)
TypeOK ==
  /\ me \in [Acting : BOOLEAN, LastState : States, SawEnemy : BOOLEAN, SawFriend : BOOLEAN,
             EnemyKilled : BOOLEAN, told : BOOLEAN, timers : [Timers -> 0..2]]
  /\ aiState \in States
  /\ hibernating \in BOOLEAN /\ dead \in BOOLEAN /\ star \in BOOLEAN
  /\ me.timers[1] = (IF star THEN 0 ELSE 1) /\ me.timers[3] < 2 /\ me.timers[4] < 2

(* Whatever a flag holds back ends: a flag that is set has the timer that  *)
(* clears it still pending, and so has a reaction that was put off, even   *)
(* when the death of the soldier has reset _Acting in between              *)
(* (ConversationControl.cpp:133, 175-192, 203-206, 265-285).               *)
FlagsHaveTimers ==
  /\ me.Acting => me.timers[2] > 0
  /\ me.EnemyKilled => me.timers[2] > 0
  /\ me.SawEnemy => me.timers[3] > 0
  /\ me.SawFriend => me.timers[4] > 0

(* A soldier does not start a line over another, except its last one       *)
(* (ConversationControl.cpp:257, 280-285).                                 *)
NoOverlap ==
  [][me'.timers[2] > me.timers[2] => (me.timers[2] = 0 \/ (dead' /\ ~dead))]_vars

(* The news of a killed enemy that is put off during a line comes up, and  *)
(* not by being forgotten: when the script lets go of it, Act has just set *)
(* out to remark on it, unless the soldier hibernates or is dead           *)
(* (ConversationControl.cpp:130-134, 175-192).                             *)
DeferredServed ==
  /\ me.EnemyKilled ~> ~me.EnemyKilled
  /\ [][me.EnemyKilled /\ ~me'.EnemyKilled => me'.told \/ hibernating \/ dead]_vars

(* The script follows the soldier, in hibernation and after its death too: *)
(* a state that lasts is noticed (ConversationControl.cpp:152-154,         *)
(* 222-228).                                                               *)
StateNoticed == \A s \in States : <>[](aiState = s) => <>[](star \/ me.LastState = s)
=============================================================================
