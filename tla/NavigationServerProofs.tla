------------------------ MODULE NavigationServerProofs ------------------------
(***************************************************************************)
(* What holds of the navigation server for every set of waypoints, every   *)
(* list of recovery behaviors, every parameter and every environment.      *)
(***************************************************************************)
EXTENDS NavigationServer, TLAPS

\* What the places in the handlers are, for the steps that move between them.
USE DEF At, Idle, GoTo, Clients, Threads, Cycles

-----------------------------------------------------------------------------
(* The bounds of the counters, and what their updates need of them.        *)
LEMMA Bounds ==
  /\ MaxBehaviors \in Nat \ {0}
  /\ MaxReplanningTries \in Nat
  /\ 0 \in 0..MaxBehaviors
  /\ 0 \in 0..MaxBehaviors + 1
  /\ 1..MaxBehaviors \subseteq 0..MaxBehaviors
  /\ 0 \in -1..MaxReplanningTries + 2
  /\ -1 \in -1..MaxReplanningTries + 2
  /\ \A n \in 0..MaxReplanningTries + 1 : n + 1 \in -1..MaxReplanningTries + 2
BY ConstantsAssumption DEF ConstantsAssumption

-----------------------------------------------------------------------------
(* What a handler does to the goal an action client tracks.                *)

\* The clients of C track other goals from here on; the rest keep theirs.
ClientsType == client \in [Clients -> ClientGoal]

Untouched(C) == \A c \in Clients \ C : Live(c)' = Live(c)

(* Sending a goal makes it the one that its client tracks.                 *)
LEMMA SendGoalLemma ==
  ASSUME ClientsType, NEW c \in Clients, SendGoal(c, NoWaypoint)
             \/ (\E w \in Waypoints : SendGoal(c, w))
  PROVE  ClientsType' /\ Live(c)' /\ Untouched({c})
<1>1. PICK w \in Waypoints \union {NoWaypoint} :
        client' = [client EXCEPT ![c] = Sent(w)]
  BY DEF SendGoal
<1>2. Sent(w) \in ClientGoal /\ Sent(w).phase # "done"
  BY DEF Sent, ClientGoal
<1>. QED
  BY <1>1, <1>2 DEF ClientsType, Live, Untouched

(* A goal that has ended is no longer tracked.                             *)
LEMMA FinishLemma ==
  ASSUME ClientsType, NEW c \in Clients, Finish(c)
  PROVE  ClientsType' /\ ~Live(c)' /\ Untouched({c})
<1>1. NoGoal \in ClientGoal /\ NoGoal.phase = "done"
  BY DEF NoGoal, ClientGoal
<1>. QED
  BY <1>1 DEF Finish, ClientsType, Live, Untouched

(* A cancel request does not end a goal.                                   *)
LEMMA CancelledLemma ==
  ASSUME NEW g \in ClientGoal
  PROVE  Cancelled(g) \in ClientGoal /\ Cancelled(g).phase = g.phase
BY DEF Cancelled, ClientGoal

(* A report changes the status of one waypoint at most.                    *)
LEMMA ReportLemma ==
  ASSUME waypoint \in [Waypoints -> Status], NEW s \in Terminal
  PROVE  Report(s) \in [Waypoints -> Status]
BY DEF Report, Status

(* The status message that makes a goal active does not end it.            *)
LEMMA ActivateLemma ==
  ASSUME ClientsType, NEW c \in Clients, Activate(c)
  PROVE  ClientsType' /\ Live(c)' /\ Untouched({c})
<1>. DEFINE g == [client[c] EXCEPT !.phase = "active"]
<1>1. g \in ClientGoal /\ g.phase # "done"
  BY DEF ClientsType, ClientGoal
<1>. QED
  BY <1>1 DEF Activate, ClientsType, Live, Untouched

-----------------------------------------------------------------------------
(* Types.  The replanning counter stays in range because of what           *)
(* ReplanningTriesBounded says of it while the thread is replanning.       *)

(* A step of the main thread preserves the types.                          *)
LEMMA MainTypeOK == TypeOK /\ MainThread => TypeOK'
<1>. SUFFICES ASSUME TypeOK, MainThread PROVE TypeOK'
  OBVIOUS
<1>. USE DEF TypeOK, goalVars, NavigationState, AllPlaces, MainPlaces
<1>1. ASSUME NEW w \in Waypoints, Start(w) PROVE TypeOK'
  <2>1. waypoint' \in [Waypoints -> Status]
    BY <1>1 DEF Start, Status, Running
  <2>2. /\ recovery_behaviors_' \in 0..MaxBehaviors
        /\ current_recovery_behavior_' \in 0..MaxBehaviors + 1
    BY <1>1, Bounds DEF Start
  <2>. QED
    BY <1>1, <2>1, <2>2 DEF Start
<1>2. ASSUME NEW w \in Waypoints, Cancel(w) PROVE TypeOK'
  BY <1>2 DEF Cancel, Status, Running
<1>3. CASE Connected
  BY <1>3 DEF Connected
<1>4. CASE ConnectionTimeout
  BY <1>4, ReportLemma DEF ConnectionTimeout, Terminal
<1>5. CASE CancelGoals
  <2>1. client' \in [Clients -> ClientGoal]
    BY <1>5, CancelledLemma DEF CancelGoals
  <2>. QED
    BY <1>5, <2>1 DEF CancelGoals
<1>6. CASE SendPlan("main")
  BY <1>6, SendGoalLemma DEF SendPlan, ClientsType
<1>. QED
  BY <1>1, <1>2, <1>3, <1>4, <1>5, <1>6 DEF MainThread

(* A step of the get_path thread preserves the types.                      *)
LEMMA GetPathTypeOK ==
  TypeOK /\ ReplanningTriesBounded /\ GetPathThread => TypeOK'
<1>. SUFFICES ASSUME TypeOK, ReplanningTriesBounded, GetPathThread
              PROVE  TypeOK'
  OBVIOUS
<1>. USE DEF TypeOK, goalVars, NavigationState, AllPlaces, GetPathPlaces
<1>1. Finish("get_path") => ClientsType'
  BY FinishLemma DEF ClientsType
<1>2. client["get_path"].to \in Waypoints \union {NoWaypoint}
  BY DEF ClientGoal
<1>3. ASSUME NEW s \in Terminal, waypoint' = Report(s)
      PROVE  waypoint' \in [Waypoints -> Status]
  BY <1>3, ReportLemma
<1>4. CASE PlanSucceeded
  <2>1. /\ current_recovery_behavior_' \in 0..MaxBehaviors + 1
        /\ recovery_trigger_' \in {"NONE", "GET_PATH", "EXE_PATH", "OSCILLATING"}
    BY <1>4, Bounds DEF PlanSucceeded
  <2>. QED
    BY <1>1, <1>2, <1>4, <2>1 DEF PlanSucceeded, PlanDone, ClientsType
<1>5. CASE PlanAborted
  BY <1>1, <1>3, <1>5 DEF PlanAborted, AttemptRecovery, PlanDone, ClientsType,
                          Terminal
<1>6. ASSUME NEW s \in Terminal, NEW state \in {"CANCELED", "FAILED"},
             PlanGaveUp(s, state)
      PROVE  TypeOK'
  BY <1>1, <1>3, <1>6 DEF PlanGaveUp, PlanDone, ClientsType
<1>7. CASE PlanOther
  BY <1>1, <1>7 DEF PlanOther, PlanDone, ClientsType
<1>8. ASSUME NEW k \in Cycles, RunExePath(k) \/ RunExePathBlocked(k)
      PROVE  TypeOK'
  BY <1>8 DEF RunExePath, RunExePathBlocked
<1>9. ASSUME NEW k \in Cycles, SendPath(k) PROVE TypeOK'
  <2>1. ClientsType'
    BY <1>9, SendGoalLemma DEF SendPath, ClientsType
  <2>2. current_replanning_tries_' \in -1..MaxReplanningTries + 2
    BY <1>9, Bounds DEF SendPath, TriesAfterPath
  <2>. QED
    BY <1>9, <2>1, <2>2 DEF SendPath, ClientsType
<1>10. ASSUME NEW k \in Cycles, WakeUp(k) PROVE TypeOK'
  BY <1>10 DEF WakeUp
<1>11. CASE ReplanIgnored
  BY <1>1, <1>11 DEF ReplanIgnored, ReplanDone, ClientsType
<1>12. CASE ReplanSucceeded
  BY <1>1, <1>2, <1>12 DEF ReplanSucceeded, ReplanDone, ClientsType
<1>13. CASE ReplanAborted
  <2>1. current_replanning_tries_ \in 0..MaxReplanningTries + 1
    BY <1>13 DEF ReplanAborted, ReplanDone, Ended, ReplanningTriesBounded,
                 Replanning, Counted
  <2>2. current_replanning_tries_' \in -1..MaxReplanningTries + 2
    BY <1>13, <2>1, Bounds DEF ReplanAborted
  <2>3. /\ navigation_state_' \in NavigationState
        /\ waypoint' \in [Waypoints -> Status]
        /\ \E at \in GetPathPlaces : GoTo("get_path", at)
    BY <1>3, <1>13 DEF ReplanAborted, AttemptRecovery, Terminal
  <2>. QED
    BY <1>1, <1>13, <2>2, <2>3 DEF ReplanAborted, ReplanDone, ClientsType
<1>14. CASE ReplanOther
  BY <1>1, <1>14 DEF ReplanOther, ReplanDone, ClientsType
<1>15. CASE Replan
  BY <1>15, SendGoalLemma DEF Replan, ClientsType
<1>16. CASE SendRecovery("get_path", "GET_PATH")
  BY <1>16, SendGoalLemma DEF SendRecovery, ClientsType
<1>17. CASE SetTrigger("get_path", "GET_PATH")
  BY <1>17 DEF SetTrigger
<1>18. CASE EnterRecovery("get_path", "GET_PATH")
  BY <1>18 DEF EnterRecovery
<1>. QED
  BY <1>4, <1>5, <1>6, <1>7, <1>8, <1>9, <1>10, <1>11, <1>12, <1>13, <1>14,
     <1>15, <1>16, <1>17, <1>18 DEF GetPathThread, Terminal

(* A step of the exe_path thread preserves the types.                      *)
LEMMA ExePathTypeOK == TypeOK /\ ExePathThread => TypeOK'
<1>. SUFFICES ASSUME TypeOK, ExePathThread PROVE TypeOK'
  OBVIOUS
<1>. USE DEF TypeOK, goalVars, NavigationState, AllPlaces, ExePathPlaces
<1>1. Finish("exe_path") => ClientsType'
  BY FinishLemma DEF ClientsType
<1>2. \A s \in Terminal : Report(s) \in [Waypoints -> Status]
  BY ReportLemma
<1>3. CASE ExeSucceeded
  BY <1>1, <1>2, <1>3 DEF ExeSucceeded, ClientsType, Terminal
<1>4. CASE ExeUnrecoverable
  BY <1>1, <1>2, <1>4 DEF ExeUnrecoverable, ClientsType, Terminal
<1>5. CASE ExeAborted
  BY <1>1, <1>2, <1>5 DEF ExeAborted, AttemptRecovery, ClientsType, Terminal
<1>6. CASE ExePreempted
  BY <1>1, <1>6 DEF ExePreempted, ClientsType
<1>7. CASE ExeOther
  BY <1>1, <1>7 DEF ExeOther, ClientsType
<1>8. CASE Moved
  BY <1>8, Bounds DEF Moved
<1>9. CASE Stuck
  <2>1. client' \in [Clients -> ClientGoal]
    BY <1>9, CancelledLemma DEF Stuck
  <2>. QED
    BY <1>2, <1>9, <2>1 DEF Stuck, AttemptRecovery, Terminal
<1>10. ASSUME NEW cause \in {"EXE_PATH", "OSCILLATING"},
              SendRecovery("exe_path", cause)
       PROVE  TypeOK'
  BY <1>10, SendGoalLemma DEF SendRecovery, ClientsType
<1>11. ASSUME NEW cause \in {"EXE_PATH", "OSCILLATING"},
              SetTrigger("exe_path", cause)
       PROVE  TypeOK'
  BY <1>11 DEF SetTrigger
<1>12. ASSUME NEW cause \in {"EXE_PATH", "OSCILLATING"},
              EnterRecovery("exe_path", cause)
       PROVE  TypeOK'
  BY <1>12 DEF EnterRecovery
<1>. QED
  BY <1>3, <1>4, <1>5, <1>6, <1>7, <1>8, <1>9, <1>10, <1>11, <1>12
  DEF ExePathThread, Feedback

(* The iterator moves on, and stops once it is past the end.               *)
LEMMA NextBehaviorLemma ==
  ASSUME recovery_behaviors_ \in 0..MaxBehaviors,
         current_recovery_behavior_ \in 0..MaxBehaviors + 1
  PROVE  NextBehavior \in 0..MaxBehaviors + 1
BY Bounds DEF NextBehavior

(* A step of the recovery thread preserves the types.                      *)
LEMMA RecoveryTypeOK == TypeOK /\ RecoveryThread => TypeOK'
<1>. SUFFICES ASSUME TypeOK, RecoveryThread PROVE TypeOK'
  OBVIOUS
<1>. USE DEF TypeOK, goalVars, NavigationState, AllPlaces, RecoveryPlaces
<1>1. Finish("recovery") => ClientsType'
  BY FinishLemma DEF ClientsType
<1>2. SendGoal("recovery", NoWaypoint) => ClientsType'
  BY SendGoalLemma DEF ClientsType
<1>3. \A s \in Terminal : Report(s) \in [Waypoints -> Status]
  BY ReportLemma
<1>4. NextBehavior \in 0..MaxBehaviors + 1
  BY NextBehaviorLemma
<1>5. CASE RecoverySucceeded
  BY <1>1, <1>4, <1>5 DEF RecoverySucceeded, MainPlaces, ClientsType
<1>6. CASE RecoveryFailed
  BY <1>1, <1>2, <1>3, <1>4, <1>6
  DEF RecoveryFailed, RunNextRecoveryBehavior, ClientsType, Terminal
<1>7. CASE RecoveryRejected
  BY <1>1, <1>2, <1>3, <1>4, <1>7 DEF RecoveryRejected, ClientsType, Terminal
<1>8. CASE RecoveryRecalled
  BY <1>1, <1>8 DEF RecoveryRecalled, ClientsType
<1>9. CASE RecoveryLost
  BY <1>1, <1>3, <1>9 DEF RecoveryLost, ClientsType, Terminal
<1>10. CASE SendPlan("recovery")
  <2>1. SendGoal("get_path", NoWaypoint)
          \/ \E w \in Waypoints : SendGoal("get_path", w)
    BY <1>10 DEF SendPlan
  <2>2. ClientsType'
    BY <2>1, SendGoalLemma DEF ClientsType
  <2>. QED
    BY <1>10, <2>2 DEF SendPlan, MainPlaces, ClientsType
<1>. QED
  BY <1>5, <1>6, <1>7, <1>8, <1>9, <1>10 DEF RecoveryThread

(* A status message preserves the types.                                   *)
LEMMA ActivateTypeOK ==
  ASSUME TypeOK, NEW c \in Clients, Activate(c)
  PROVE  TypeOK'
<1>1. ClientsType'
  BY ActivateLemma DEF TypeOK, ClientsType
<1>. QED
  BY <1>1 DEF TypeOK, ClientsType, Activate, goalVars

-----------------------------------------------------------------------------
(* Replanning.                                                             *)

\* The get_path thread sends a behavior, and sets the trigger, only after it
\* left EXE_PATH.
RecoveringIsNotExecuting ==
  pc["get_path"] \in {At("sendRecovery", "GET_PATH"), At("trigger", "GET_PATH")}
  => navigation_state_ # "EXE_PATH"

PlannerInv ==
  ReplanningTriesBounded /\ ReplanningKeepsGoing /\ RecoveringIsNotExecuting

\* What the other threads may do to the state that replanning relies on.
LeavesPlannerAlone ==
  /\ pc'["get_path"] = pc["get_path"]
  /\ navigation_state_' # "EXE_PATH" \/ UNCHANGED navigation_state_
  /\ UNCHANGED current_replanning_tries_
  /\ Live("get_path") => Live("get_path")'
  /\ \/ done_cb' = "actionGetPathDone"
     \/ UNCHANGED done_cb /\ Live("get_path")' = Live("get_path")

(* The main thread may replace the plan that replanning waits for, never   *)
(* take it away.                                                           *)
LEMMA MainLeavesPlanner == TypeOK /\ MainThread => LeavesPlannerAlone
<1>. SUFFICES ASSUME TypeOK, MainThread PROVE LeavesPlannerAlone
  OBVIOUS
<1>. USE DEF LeavesPlannerAlone
<1>1. pc \in [Threads -> AllPlaces] /\ ClientsType
  BY DEF TypeOK, ClientsType
<1>2. ASSUME NEW w \in Waypoints, Start(w) \/ Cancel(w)
      PROVE  LeavesPlannerAlone
  BY <1>1, <1>2 DEF Start, Cancel, Live
<1>3. CASE Connected \/ ConnectionTimeout
  BY <1>1, <1>3 DEF Connected, ConnectionTimeout, Live
<1>4. CASE CancelGoals
  BY <1>1, <1>4, CancelledLemma DEF CancelGoals, Live, ClientsType
<1>5. CASE SendPlan("main")
  <2>1. SendGoal("get_path", NoWaypoint)
          \/ \E w \in Waypoints : SendGoal("get_path", w)
    BY <1>5 DEF SendPlan, TypeOK
  <2>. QED
    BY <1>1, <1>5, <2>1, SendGoalLemma DEF SendPlan
<1>. QED
  BY <1>2, <1>3, <1>4, <1>5 DEF MainThread

(* The exe_path thread leaves the plan alone.                              *)
LEMMA ExePathLeavesPlanner == TypeOK /\ ExePathThread => LeavesPlannerAlone
<1>. SUFFICES ASSUME TypeOK, ExePathThread PROVE LeavesPlannerAlone
  OBVIOUS
<1>. USE DEF LeavesPlannerAlone
<1>1. pc \in [Threads -> AllPlaces] /\ ClientsType
  BY DEF TypeOK, ClientsType
<1>2. Finish("exe_path") => Live("get_path")' = Live("get_path")
  BY <1>1, FinishLemma DEF Untouched
<1>3. CASE ExeSucceeded \/ ExeUnrecoverable \/ ExePreempted \/ ExeOther
  BY <1>2, <1>3 DEF ExeSucceeded, ExeUnrecoverable, ExePreempted, ExeOther
<1>4. CASE ExeAborted
  BY <1>1, <1>2, <1>4 DEF ExeAborted, AttemptRecovery
<1>5. CASE Moved
  BY <1>5 DEF Moved, Live
<1>6. CASE Stuck
  BY <1>1, <1>6 DEF Stuck, AttemptRecovery, ClientsType, Live
<1>7. ASSUME NEW cause \in {"EXE_PATH", "OSCILLATING"},
             SendRecovery("exe_path", cause)
      PROVE  LeavesPlannerAlone
  <2>1. Live("get_path")' = Live("get_path")
    BY <1>1, <1>7, SendGoalLemma DEF SendRecovery, Untouched
  <2>. QED
    BY <1>1, <1>7, <2>1 DEF SendRecovery
<1>8. ASSUME NEW cause \in {"EXE_PATH", "OSCILLATING"},
             SetTrigger("exe_path", cause)
      PROVE  LeavesPlannerAlone
  BY <1>1, <1>8 DEF SetTrigger, Live
<1>9. ASSUME NEW cause \in {"EXE_PATH", "OSCILLATING"},
             EnterRecovery("exe_path", cause)
      PROVE  LeavesPlannerAlone
  BY <1>1, <1>9 DEF EnterRecovery, Live
<1>. QED
  BY <1>3, <1>4, <1>5, <1>6, <1>7, <1>8, <1>9 DEF ExePathThread, Feedback

(* The recovery thread may replace the plan, too.                          *)
LEMMA RecoveryLeavesPlanner == TypeOK /\ RecoveryThread => LeavesPlannerAlone
<1>. SUFFICES ASSUME TypeOK, RecoveryThread PROVE LeavesPlannerAlone
  OBVIOUS
<1>. USE DEF LeavesPlannerAlone
<1>1. pc \in [Threads -> AllPlaces] /\ ClientsType
  BY DEF TypeOK, ClientsType
<1>2. Finish("recovery") \/ SendGoal("recovery", NoWaypoint)
      => Live("get_path")' = Live("get_path")
  BY <1>1, FinishLemma, SendGoalLemma DEF Untouched
<1>3. CASE RecoverySucceeded \/ RecoveryRecalled \/ RecoveryLost
  BY <1>1, <1>2, <1>3 DEF RecoverySucceeded, RecoveryRecalled, RecoveryLost
<1>4. CASE RecoveryFailed \/ RecoveryRejected
  BY <1>1, <1>2, <1>4
  DEF RecoveryFailed, RunNextRecoveryBehavior, RecoveryRejected
<1>5. CASE SendPlan("recovery")
  <2>1. SendGoal("get_path", NoWaypoint)
          \/ \E w \in Waypoints : SendGoal("get_path", w)
    BY <1>5 DEF SendPlan, TypeOK
  <2>. QED
    BY <1>1, <1>5, <2>1, SendGoalLemma DEF SendPlan
<1>. QED
  BY <1>3, <1>4, <1>5 DEF RecoveryThread

(* What leaves the planner alone keeps what holds of it.                   *)
LEMMA LeavesPlannerInv == PlannerInv /\ LeavesPlannerAlone => PlannerInv'
<1>1. UNCHANGED current_replanning_tries_ => Counted' = Counted
  BY DEF Counted
<1>. QED
  BY <1>1 DEF PlannerInv, LeavesPlannerAlone, ReplanningTriesBounded, Replanning,
              ReplanningKeepsGoing, PlannerBusy, RecoveringIsNotExecuting

(* A status message ends no goal.                                          *)
LEMMA ActivateLeavesPlanner ==
  ASSUME TypeOK, NEW c \in Clients, Activate(c)
  PROVE  LeavesPlannerAlone
<1>1. \A d \in Clients : Live(d)' = Live(d)
  BY ActivateLemma DEF TypeOK, ClientsType, Untouched, Activate, Live
<1>. QED
  BY <1>1 DEF LeavesPlannerAlone, Activate

(* A counter that starts at zero and fails once more is still in range,    *)
(* unless the handler gave up.                                             *)
LEMMA CountedLemma ==
  /\ current_replanning_tries_' = 0 => Counted'
  /\ Counted /\ UNCHANGED current_replanning_tries_ => Counted'
  /\ Counted /\ current_replanning_tries_' = current_replanning_tries_ + 1
     /\ ~TriesExceeded => Counted'
BY Bounds DEF Counted, TriesExceeded

(* The get_path thread never stops replanning in state EXE_PATH, and       *)
(* counts from zero.                                                       *)
LEMMA GetPathPlannerInv == TypeOK /\ PlannerInv /\ GetPathThread => PlannerInv'
<1>. SUFFICES ASSUME TypeOK, PlannerInv, GetPathThread PROVE PlannerInv'
  OBVIOUS
<1>. USE DEF PlannerInv, ReplanningKeepsGoing, PlannerBusy,
             RecoveringIsNotExecuting, ReplanningTriesBounded, Replanning
<1>1. pc \in [Threads -> AllPlaces] /\ ClientsType
  BY DEF TypeOK, ClientsType
<1>2. Finish("get_path") => ~Live("get_path")'
  BY <1>1, FinishLemma
<1>3. CASE PlanSucceeded
  BY <1>1, <1>2, <1>3 DEF PlanSucceeded, PlanDone
<1>4. CASE PlanAborted
  <2>1. \/ pc'["get_path"] = At("attempt", "GET_PATH")
        \/ pc'["get_path"] = Idle /\ navigation_state_' = "FAILED"
    BY <1>1, <1>4 DEF PlanAborted, AttemptRecovery
  <2>. QED
    BY <1>2, <1>4, <2>1 DEF PlanAborted, PlanDone
<1>5. ASSUME NEW s \in Terminal, NEW state \in {"CANCELED", "FAILED"},
             Ended("get_path"), PlanGaveUp(s, state)
      PROVE  PlannerInv'
  BY <1>1, <1>2, <1>5 DEF PlanGaveUp, PlanDone, Ended
<1>6. CASE PlanOther
  BY <1>2, <1>6 DEF PlanOther, PlanDone, Rejected, Recalled, Ended
<1>7. ASSUME NEW k \in Cycles, RunExePath(k) \/ RunExePathBlocked(k)
      PROVE  PlannerInv'
  <2>1. /\ Live("get_path")' = Live("get_path")
        /\ pc["get_path"] = At("runExePath", k)
        /\ \/ pc'["get_path"] = At("sendPath", k)
           \/ pc'["get_path"] = At("sleep", "next") /\ k = "next"
           \/ pc'["get_path"] = Idle /\ navigation_state_' = "RECOVERY"
    BY <1>1, <1>7 DEF RunExePath, RunExePathBlocked, Live
  <2>2. Counted => Counted'
    BY <1>7, CountedLemma DEF RunExePath, RunExePathBlocked
  <2>. QED
    BY <1>7, <2>1, <2>2 DEF RunExePath, RunExePathBlocked
<1>8. ASSUME NEW k \in Cycles, SendPath(k) PROVE PlannerInv'
  <2>1. Counted \/ k = "first" => Counted'
    BY <1>8, CountedLemma DEF SendPath, TriesAfterPath
  <2>2. /\ pc["get_path"] = At("sendPath", k)
        /\ pc'["get_path"] = At("sleep", k)
    BY <1>1, <1>8 DEF SendPath
  <2>. QED
    BY <1>8, <2>1, <2>2 DEF SendPath
<1>9. ASSUME NEW k \in Cycles, WakeUp(k) PROVE PlannerInv'
  BY CountedLemma, <1>1, <1>9 DEF WakeUp, StillExecuting, Live
<1>10. CASE ReplanIgnored
  BY <1>2, <1>10 DEF ReplanIgnored, ReplanDone, Ended
<1>11. CASE ReplanSucceeded \/ ReplanOther
  <2>1. /\ ~Live("get_path")'
        /\ pc'["get_path"] \in {At("runExePath", "next"), At("sleep", "next")}
    BY <1>1, <1>2, <1>11 DEF ReplanSucceeded, ReplanOther, ReplanDone
  <2>2. Counted'
    BY <1>11, CountedLemma DEF ReplanSucceeded, ReplanOther, ReplanDone, Ended
  <2>. QED
    BY <2>1, <2>2
<1>12. CASE ReplanAborted
  <2>1. Counted
    BY <1>12 DEF ReplanAborted, ReplanDone, Ended
  <2>2. ~TriesExceeded => Counted'
    BY <1>12, <2>1, CountedLemma DEF ReplanAborted
  <2>3. \/ pc'["get_path"] = At("attempt", "GET_PATH")
        \/ pc'["get_path"] = Idle /\ navigation_state_' = "FAILED"
        \/ pc'["get_path"] = At("sleep", "next") /\ ~TriesExceeded
    BY <1>1, <1>12 DEF ReplanAborted, AttemptRecovery
  <2>4. ~Live("get_path")'
    BY <1>2, <1>12 DEF ReplanAborted, ReplanDone
  <2>. QED
    BY <2>2, <2>3, <2>4
<1>13. CASE Replan
  <2>1. SendGoal("get_path", NoWaypoint)
          \/ \E w \in Waypoints : SendGoal("get_path", w)
    BY <1>13 DEF Replan, TypeOK
  <2>2. Live("get_path")'
    BY <1>1, <2>1, SendGoalLemma
  <2>. QED
    BY CountedLemma, <1>1, <1>13, <2>2 DEF Replan
<1>14. CASE SendRecovery("get_path", "GET_PATH")
  <2>1. Live("get_path")' = Live("get_path")
    BY <1>1, <1>14, SendGoalLemma DEF SendRecovery, Untouched
  <2>. QED
    BY CountedLemma, <1>1, <1>14, <2>1 DEF SendRecovery
<1>15. CASE SetTrigger("get_path", "GET_PATH")
  BY CountedLemma, <1>1, <1>15 DEF SetTrigger, Live
<1>16. CASE EnterRecovery("get_path", "GET_PATH")
  BY CountedLemma, <1>1, <1>16 DEF EnterRecovery, Live
<1>. QED
  BY <1>3, <1>4, <1>5, <1>6, <1>7, <1>8, <1>9, <1>10, <1>11, <1>12, <1>13,
     <1>14, <1>15, <1>16 DEF GetPathThread, Preempted, Lost, Terminal

-----------------------------------------------------------------------------
(* The inductive invariant: the types and what replanning relies on.  The  *)
(* counter has no initial value, so its type alone is not inductive.       *)
IInv == TypeOK /\ PlannerInv

(* It holds when the server has started.                                   *)
LEMMA InitIInv == Init => IInv
<1>. SUFFICES ASSUME Init PROVE IInv
  OBVIOUS
<1>1. ~Live("get_path") /\ ClientsType
  BY DEF Init, Live, NoGoal, ClientsType, ClientGoal
<1>2. /\ recovery_behaviors_ \in 0..MaxBehaviors
      /\ current_recovery_behavior_ \in 0..MaxBehaviors + 1
      /\ current_replanning_tries_ \in -1..MaxReplanningTries + 2
  BY Bounds DEF Init
<1>3. TypeOK
  BY <1>1, <1>2
  DEF Init, TypeOK, ClientsType, NavigationState, Status, AllPlaces,
      MainPlaces, GetPathPlaces, ExePathPlaces, RecoveryPlaces
<1>4. PlannerInv
  BY <1>1 DEF Init, PlannerInv, ReplanningTriesBounded, Replanning,
              ReplanningKeepsGoing, RecoveringIsNotExecuting
<1>. QED
  BY <1>3, <1>4 DEF IInv

(* Every step of every thread preserves it.                                *)
LEMMA NextIInv == IInv /\ [Next]_vars => IInv'
<1>. SUFFICES ASSUME IInv, [Next]_vars PROVE IInv'
  OBVIOUS
<1>. USE DEF IInv
<1>1. CASE MainThread
  BY <1>1, MainTypeOK, MainLeavesPlanner, LeavesPlannerInv
<1>2. CASE GetPathThread
  BY <1>2, GetPathTypeOK, GetPathPlannerInv DEF PlannerInv
<1>3. CASE ExePathThread
  BY <1>3, ExePathTypeOK, ExePathLeavesPlanner, LeavesPlannerInv
<1>4. CASE RecoveryThread
  BY <1>4, RecoveryTypeOK, RecoveryLeavesPlanner, LeavesPlannerInv
<1>5. ASSUME NEW c \in Clients, Activate(c) PROVE IInv'
  BY <1>5, ActivateTypeOK, ActivateLeavesPlanner, LeavesPlannerInv
<1>6. CASE UNCHANGED vars
  <2>1. TypeOK'
    BY <1>6 DEF vars, members, TypeOK
  <2>2. LeavesPlannerAlone
    BY <1>6 DEF vars, members, LeavesPlannerAlone, Live
  <2>. QED
    BY <2>1, <2>2, LeavesPlannerInv
<1>. QED
  BY <1>1, <1>2, <1>3, <1>4, <1>5, <1>6 DEF Next

(* The types of the server's state, its types among them.                  *)
THEOREM TypeCorrect == Spec => []TypeOK
<1>1. IInv => TypeOK
  BY DEF IInv
<1>. QED
  BY InitIInv, NextIInv, <1>1, PTL DEF Spec

(* The replanning counter is set before it is read and stays bounded,      *)
(* whichever threads interleave with the two replanning handlers.          *)
THEOREM ReplanningTriesStayBounded == Spec => []ReplanningTriesBounded
<1>1. IInv => ReplanningTriesBounded
  BY DEF IInv, PlannerInv
<1>. QED
  BY InitIInv, NextIInv, <1>1, PTL DEF Spec

(* Replanning never dies out while a path is executed.                     *)
THEOREM ReplanningNeverDiesOut == Spec => []ReplanningKeepsGoing
<1>1. IInv => ReplanningKeepsGoing
  BY DEF IInv, PlannerInv
<1>. QED
  BY InitIInv, NextIInv, <1>1, PTL DEF Spec

-----------------------------------------------------------------------------
(* As long as no thread has overtaken another, what a thread has tested or *)
(* set still holds when it goes on.                                        *)

\* No thread is overtaken at the moment.
NoneOvertaken == \A t \in Threads : ~Overtaken(t)

(* A history of overtaking does not end, and starts with the step that     *)
(* overtakes.                                                              *)
LEMMA OvertakenStays ==
  ASSUME Next, ~overtaken'
  PROVE  ~overtaken /\ NoneOvertaken'
<1>1. overtaken' = (overtaken \/ \E t \in Threads : Overtaken(t)')
  BY DEF Next
<1>2. ~(overtaken \/ \E t \in Threads : Overtaken(t)')
  BY <1>1, Zenon
<1>. QED
  BY <1>2, Zenon DEF NoneOvertaken

-----------------------------------------------------------------------------
(* The iterator over the recovery behaviors.                               *)

\* Thread t is about to send a recovery behavior.
AtSend(t) == pc[t][1] \in {"attempt", "sendRecovery"}

\* Whoever is about to send a behavior still has one to send.
SendersHaveOne == \A t \in Threads : AtSend(t) => RecoveryLeft

IteratorInv ==
  /\ current_recovery_behavior_ <= recovery_behaviors_
  /\ Live("recovery") => current_recovery_behavior_ < recovery_behaviors_
  /\ SendersHaveOne

(* A thread that is not overtaken has a behavior to send.                  *)
LEMMA NoneOvertakenSends == NoneOvertaken' => SendersHaveOne'
BY DEF NoneOvertaken, SendersHaveOne, Overtaken, AtSend

\* What the steps do that do not advance the iterator.
KeepsIterator ==
  /\ UNCHANGED recovery_behaviors_
  /\ current_recovery_behavior_' \in {0, current_recovery_behavior_}
  /\ Live("recovery")' => Live("recovery") \/ \E t \in Threads : AtSend(t)

(* A step that does not advance the iterator leaves it valid.              *)
LEMMA KeepsIteratorInv ==
  TypeOK /\ IteratorInv /\ KeepsIterator /\ SendersHaveOne' => IteratorInv'
<1>. SUFFICES ASSUME TypeOK, IteratorInv, KeepsIterator, SendersHaveOne'
              PROVE  IteratorInv'
  OBVIOUS
<1>1. /\ recovery_behaviors_ \in Int
      /\ current_recovery_behavior_ \in Int
      /\ 0 <= current_recovery_behavior_
  BY Bounds DEF TypeOK
<1>2. (\E t \in Threads : AtSend(t))
        => current_recovery_behavior_ # recovery_behaviors_
  BY DEF IteratorInv, SendersHaveOne, RecoveryLeft
<1>3. Live("recovery")' => current_recovery_behavior_ < recovery_behaviors_
  BY <1>1, <1>2 DEF IteratorInv, KeepsIterator
<1>. QED
  BY <1>1, <1>3 DEF IteratorInv, KeepsIterator

(* A step of the main thread starts with a new list or keeps the iterator. *)
LEMMA MainIterator ==
  TypeOK /\ IteratorInv /\ MainThread /\ SendersHaveOne' => IteratorInv'
<1>. SUFFICES ASSUME TypeOK, IteratorInv, MainThread, SendersHaveOne'
              PROVE  IteratorInv'
  OBVIOUS
<1>1. pc \in [Threads -> AllPlaces] /\ ClientsType
  BY DEF TypeOK, ClientsType
<1>2. ASSUME NEW w \in Waypoints, Start(w) PROVE IteratorInv'
  <2>1. recovery_behaviors_' \in 1..MaxBehaviors /\ current_recovery_behavior_' = 0
    BY <1>2 DEF Start
  <2>. QED
    BY <2>1, Bounds DEF IteratorInv
<1>3. ASSUME NEW w \in Waypoints, Cancel(w) PROVE KeepsIterator
  BY <1>3 DEF Cancel, KeepsIterator, goalVars, Live
<1>4. CASE Connected \/ ConnectionTimeout
  BY <1>4, KeepsIteratorInv
  DEF Connected, ConnectionTimeout, KeepsIterator, goalVars, Live
<1>5. CASE CancelGoals
  <2>1. Live("recovery")' = Live("recovery")
    BY <1>1, <1>5, CancelledLemma DEF CancelGoals, Live, ClientsType
  <2>. QED
    BY <1>5, <2>1, KeepsIteratorInv DEF CancelGoals, KeepsIterator, goalVars
<1>6. CASE SendPlan("main")
  <2>1. SendGoal("get_path", NoWaypoint)
          \/ \E w \in Waypoints : SendGoal("get_path", w)
    BY <1>6 DEF SendPlan, TypeOK
  <2>2. Live("recovery")' = Live("recovery")
    BY <1>1, <2>1, SendGoalLemma DEF Untouched
  <2>. QED
    BY <1>6, <2>2, KeepsIteratorInv DEF SendPlan, KeepsIterator, goalVars
<1>. QED
  BY <1>2, <1>3, <1>4, <1>5, <1>6, KeepsIteratorInv DEF MainThread

(* The get_path thread sends the behavior at the iterator, or moves the    *)
(* iterator back to the first one.                                         *)
LEMMA GetPathKeepsIterator == TypeOK /\ GetPathThread => KeepsIterator
<1>. SUFFICES ASSUME TypeOK, GetPathThread PROVE KeepsIterator
  OBVIOUS
<1>. USE DEF KeepsIterator, AtSend, goalVars
<1>1. pc \in [Threads -> AllPlaces] /\ ClientsType
  BY DEF TypeOK, ClientsType
<1>2. Finish("get_path") => Live("recovery")' = Live("recovery")
  BY <1>1, FinishLemma DEF Untouched
<1>3. CASE PlanSucceeded
  BY <1>1, <1>2, <1>3 DEF PlanSucceeded, PlanDone
<1>4. CASE PlanAborted
  BY <1>1, <1>2, <1>4 DEF PlanAborted, PlanDone, AttemptRecovery
<1>5. ASSUME NEW s \in Terminal, NEW state \in {"CANCELED", "FAILED"},
             PlanGaveUp(s, state)
      PROVE  KeepsIterator
  BY <1>2, <1>5 DEF PlanGaveUp, PlanDone
<1>6. CASE PlanOther
  BY <1>2, <1>6 DEF PlanOther, PlanDone
<1>7. ASSUME NEW k \in Cycles, RunExePath(k) \/ RunExePathBlocked(k)
      PROVE  KeepsIterator
  BY <1>1, <1>7 DEF RunExePath, RunExePathBlocked, Live
<1>8. ASSUME NEW k \in Cycles, SendPath(k) PROVE KeepsIterator
  <2>1. SendGoal("exe_path", NoWaypoint)
          \/ \E w \in Waypoints : SendGoal("exe_path", w)
    BY <1>8 DEF SendPath, TypeOK
  <2>2. Live("recovery")' = Live("recovery")
    BY <1>1, <2>1, SendGoalLemma DEF Untouched
  <2>. QED
    BY <1>1, <1>8, <2>2 DEF SendPath
<1>9. ASSUME NEW k \in Cycles, WakeUp(k) PROVE KeepsIterator
  BY <1>1, <1>9 DEF WakeUp, Live
<1>10. CASE ReplanIgnored \/ ReplanSucceeded \/ ReplanOther
  BY <1>1, <1>2, <1>10
  DEF ReplanIgnored, ReplanSucceeded, ReplanOther, ReplanDone
<1>11. CASE ReplanAborted
  BY <1>1, <1>2, <1>11 DEF ReplanAborted, ReplanDone, AttemptRecovery
<1>12. CASE Replan
  <2>1. SendGoal("get_path", NoWaypoint)
          \/ \E w \in Waypoints : SendGoal("get_path", w)
    BY <1>12 DEF Replan, TypeOK
  <2>2. Live("recovery")' = Live("recovery")
    BY <1>1, <2>1, SendGoalLemma DEF Untouched
  <2>. QED
    BY <1>1, <1>12, <2>2 DEF Replan
<1>13. CASE SendRecovery("get_path", "GET_PATH")
  BY <1>1, <1>13 DEF SendRecovery
<1>14. CASE SetTrigger("get_path", "GET_PATH")
  BY <1>1, <1>14 DEF SetTrigger, Live
<1>15. CASE EnterRecovery("get_path", "GET_PATH")
  BY <1>1, <1>15 DEF EnterRecovery, Live
<1>. QED
  BY <1>3, <1>4, <1>5, <1>6, <1>7, <1>8, <1>9, <1>10, <1>11, <1>12, <1>13,
     <1>14, <1>15 DEF GetPathThread, Terminal

(* So does the exe_path thread.                                            *)
LEMMA ExePathKeepsIterator == TypeOK /\ ExePathThread => KeepsIterator
<1>. SUFFICES ASSUME TypeOK, ExePathThread PROVE KeepsIterator
  OBVIOUS
<1>. USE DEF KeepsIterator, AtSend, goalVars
<1>1. pc \in [Threads -> AllPlaces] /\ ClientsType
  BY DEF TypeOK, ClientsType
<1>2. Finish("exe_path") => Live("recovery")' = Live("recovery")
  BY <1>1, FinishLemma DEF Untouched
<1>3. CASE ExeSucceeded \/ ExeUnrecoverable \/ ExePreempted \/ ExeOther
  BY <1>2, <1>3 DEF ExeSucceeded, ExeUnrecoverable, ExePreempted, ExeOther
<1>4. CASE ExeAborted
  BY <1>1, <1>2, <1>4 DEF ExeAborted, AttemptRecovery
<1>5. CASE Moved
  BY <1>5 DEF Moved, Live
<1>6. CASE Stuck
  BY <1>1, <1>6 DEF Stuck, AttemptRecovery, ClientsType, Live
<1>7. ASSUME NEW cause \in {"EXE_PATH", "OSCILLATING"},
             SendRecovery("exe_path", cause)
      PROVE  KeepsIterator
  BY <1>1, <1>7 DEF SendRecovery
<1>8. ASSUME NEW cause \in {"EXE_PATH", "OSCILLATING"},
             SetTrigger("exe_path", cause)
      PROVE  KeepsIterator
  BY <1>1, <1>8 DEF SetTrigger, Live
<1>9. ASSUME NEW cause \in {"EXE_PATH", "OSCILLATING"},
             EnterRecovery("exe_path", cause)
      PROVE  KeepsIterator
  BY <1>1, <1>9 DEF EnterRecovery, Live
<1>. QED
  BY <1>3, <1>4, <1>5, <1>6, <1>7, <1>8, <1>9 DEF ExePathThread, Feedback

(* A status message keeps it too.                                          *)
LEMMA ActivateKeepsIterator ==
  ASSUME TypeOK, NEW c \in Clients, Activate(c)
  PROVE  KeepsIterator
<1>1. Live("recovery")' = Live("recovery")
  BY ActivateLemma DEF TypeOK, ClientsType, Untouched, Activate, Live
<1>. QED
  BY <1>1 DEF KeepsIterator, AtSend, goalVars, Activate

(* The recovery thread advances the iterator when the behavior it refers   *)
(* to is over.                                                             *)
LEMMA RecoveryIterator ==
  TypeOK /\ IteratorInv /\ RecoveryThread /\ SendersHaveOne' => IteratorInv'
<1>. SUFFICES ASSUME TypeOK, IteratorInv, RecoveryThread, SendersHaveOne'
              PROVE  IteratorInv'
  OBVIOUS
<1>1. /\ pc \in [Threads -> AllPlaces] /\ ClientsType
      /\ recovery_behaviors_ \in Int /\ current_recovery_behavior_ \in Int
  BY Bounds DEF TypeOK, ClientsType
<1>2. Finish("recovery") => ~Live("recovery")'
  BY <1>1, FinishLemma
<1>3. Ended("recovery")
      => NextBehavior = current_recovery_behavior_ + 1
         /\ NextBehavior <= recovery_behaviors_
  BY <1>1 DEF NextBehavior, Ended, IteratorInv
<1>4. CASE RecoverySucceeded
  BY <1>2, <1>3, <1>4 DEF RecoverySucceeded, IteratorInv, goalVars
<1>5. CASE RecoveryFailed \/ RecoveryRejected
  BY <1>1, <1>2, <1>3, <1>5
  DEF RecoveryFailed, RunNextRecoveryBehavior, RecoveryRejected, Rejected,
      IteratorInv, goalVars
<1>6. CASE RecoveryRecalled \/ RecoveryLost
  BY <1>2, <1>6 DEF RecoveryRecalled, RecoveryLost, IteratorInv, goalVars
<1>7. CASE SendPlan("recovery")
  <2>1. SendGoal("get_path", NoWaypoint)
          \/ \E w \in Waypoints : SendGoal("get_path", w)
    BY <1>7 DEF SendPlan, TypeOK
  <2>2. Live("recovery")' = Live("recovery")
    BY <1>1, <2>1, SendGoalLemma DEF Untouched
  <2>. QED
    BY <1>7, <2>2, KeepsIteratorInv DEF SendPlan, KeepsIterator, goalVars
<1>. QED
  BY <1>4, <1>5, <1>6, <1>7 DEF RecoveryThread

(* The iterator is valid until a thread has overtaken another.             *)
IteratorKept == ~overtaken => IteratorInv

(* Every step of every thread keeps it so.                                 *)
LEMMA NextIterator == TypeOK /\ IteratorKept /\ [Next]_vars => IteratorKept'
<1>. SUFFICES ASSUME TypeOK, IteratorKept, [Next]_vars, ~overtaken'
              PROVE  IteratorInv'
  BY DEF IteratorKept
<1>1. CASE UNCHANGED vars
  BY <1>1 DEF IteratorKept, IteratorInv, SendersHaveOne, AtSend, RecoveryLeft,
              vars, members, Live
<1>2. CASE Next
  <2>1. IteratorInv /\ SendersHaveOne'
    BY <1>2, OvertakenStays, NoneOvertakenSends DEF IteratorKept
  <2>2. CASE MainThread
    BY <2>1, <2>2, MainIterator
  <2>3. CASE GetPathThread
    BY <2>1, <2>3, GetPathKeepsIterator, KeepsIteratorInv
  <2>4. CASE ExePathThread
    BY <2>1, <2>4, ExePathKeepsIterator, KeepsIteratorInv
  <2>5. CASE RecoveryThread
    BY <2>1, <2>5, RecoveryIterator
  <2>6. ASSUME NEW c \in Clients, Activate(c) PROVE IteratorInv'
    BY <2>1, <2>6, ActivateKeepsIterator, KeepsIteratorInv
  <2>. QED
    BY <1>2, <2>2, <2>3, <2>4, <2>5, <2>6 DEF Next
<1>. QED
  BY <1>1, <1>2

(* No recovery behavior is read past the end of the list, whichever        *)
(* threads interleave, until one of them has overtaken another.            *)
THEOREM IteratorStaysValid == Spec => []RecoveryIteratorValid
<1>1. Init => IteratorKept
  BY DEF Init, IteratorKept, IteratorInv, SendersHaveOne, AtSend, Live, NoGoal
<1>2. TypeOK /\ IteratorKept => RecoveryIteratorValid
  <2>. SUFFICES ASSUME TypeOK, IteratorInv, Live("recovery") \/ Attempting
                PROVE  current_recovery_behavior_ < recovery_behaviors_
    BY DEF IteratorKept, RecoveryIteratorValid
  <2>1. /\ recovery_behaviors_ \in Int
        /\ current_recovery_behavior_ \in Int
    BY Bounds DEF TypeOK
  <2>2. Attempting => current_recovery_behavior_ # recovery_behaviors_
    BY DEF Attempting, IteratorInv, SendersHaveOne, AtSend, RecoveryLeft
  <2>. QED
    BY <2>1, <2>2 DEF IteratorInv
<1>. QED
  BY <1>1, <1>2, NextIterator, TypeCorrect, PTL DEF Spec

-----------------------------------------------------------------------------
(* What the server waits for will come.                                    *)

\* A recovery behavior runs that nobody has asked to cancel, or it might end as
\* recalled, which is ignored; or a thread is about to send one.
RecoveryRuns ==
  \/ Live("recovery") /\ ~client["recovery"].cancel
  \/ \E t \in Threads : pc[t][1] = "sendRecovery"

\* A plan is awaited in GET_PATH, a recovery behavior runs in RECOVERY.
StatesWait ==
  /\ navigation_state_ = "GET_PATH" => PlanAwaited
  /\ navigation_state_ = "RECOVERY" => RecoveryRuns

\* Nobody changes the state while a thread is about to replan or to cancel.
StateHeld ==
  /\ pc["get_path"] = At("replan", "-") => navigation_state_ = "EXE_PATH"
  /\ pc["main"] = At("cancelling", "-") => navigation_state_ = "CANCELED"

(* A thread that is not overtaken finds the state as it was.               *)
LEMMA NoneOvertakenHolds == NoneOvertaken' => StateHeld'
BY DEF NoneOvertaken, StateHeld, Overtaken

\* The waypoint that a timeout reports on has been sent.
HandleSent ==
  /\ pc["main"] = At("connecting", "-") => goal_handle_ \in Waypoints
  /\ goal_handle_ \in Waypoints => waypoint[goal_handle_] # "unsent"

WaitInv == StatesWait /\ StateHeld /\ HandleSent

-----------------------------------------------------------------------------
(* A report leaves the status of a waypoint that is over, and ends that of *)
(* the goal handle.                                                        *)
LEMMA ReportEnds ==
  ASSUME waypoint \in [Waypoints -> Status], NEW s \in Terminal, HandleSent
  PROVE  /\ goal_handle_ \in Waypoints => Report(s)[goal_handle_] \in Terminal
         /\ goal_handle_ \notin Waypoints => Report(s) = waypoint
BY DEF Report, Status, Running, Terminal, HandleSent

\* What the steps have in common that leave the plan and the handle alone.
LeavesPlan ==
  /\ UNCHANGED <<goal_handle_, done_cb>>
  /\ pc'["get_path"] = pc["get_path"]
  /\ Live("get_path")' = Live("get_path")
  /\ \/ UNCHANGED waypoint
     \/ \E s \in Terminal : waypoint' = Report(s)

(* They leave a plan awaited that was, unless another thread stops being   *)
(* on its way to ask for one.                                              *)
LEMMA LeavesPlanAwaited ==
  ASSUME TypeOK, HandleSent, LeavesPlan
  PROVE  /\ PlanAwaited /\ (PlanOnItsWay => PlanOnItsWay') => PlanAwaited'
         /\ goal_handle_' \in Waypoints => waypoint'[goal_handle_'] # "unsent"
<1>1. /\ waypoint[goal_handle_] \in Terminal => waypoint'[goal_handle_] \in Terminal
      /\ goal_handle_ \in Waypoints => waypoint'[goal_handle_] # "unsent"
  <2>1. CASE UNCHANGED waypoint  BY <2>1 DEF HandleSent
  <2>2. CASE \E s \in Terminal : waypoint' = Report(s)
    BY <2>2, ReportEnds DEF TypeOK, Terminal
  <2>. QED  BY <2>1, <2>2 DEF LeavesPlan
<1>. QED
  BY <1>1 DEF LeavesPlan, PlanAwaited

-----------------------------------------------------------------------------
(* The main thread.                                                        *)

(* start and cancel leave no wait without its goal.                        *)
LEMMA MainWaits ==
  ASSUME TypeOK, WaitInv, MainThread, StateHeld'
  PROVE  WaitInv'
<1>1. pc \in [Threads -> AllPlaces] /\ ClientsType
  BY DEF TypeOK, ClientsType
<1>2. ASSUME \A t \in Threads \ {"main"} : pc'[t] = pc[t],
             pc["main"][1] # "sendRecovery",
             client'["recovery"] = client["recovery"]
      PROVE  RecoveryRuns => RecoveryRuns'
  BY <1>2 DEF RecoveryRuns, Live
<1>3. ASSUME NEW w \in Waypoints, Start(w) PROVE WaitInv'
  <2>1. /\ pc' = [pc EXCEPT !["main"] = At("connecting", "-")]
        /\ navigation_state_' = "GET_PATH" /\ goal_handle_' = w
        /\ waypoint' = [waypoint EXCEPT ![w] = "ACTIVE"]
    BY <1>3 DEF Start
  <2>2. StatesWait'
    BY <1>1, <2>1 DEF StatesWait, PlanAwaited, PlanOnItsWay
  <2>3. HandleSent'
    BY <2>1 DEF HandleSent, TypeOK
  <2>. QED  BY <2>2, <2>3 DEF WaitInv
<1>4. ASSUME NEW w \in Waypoints, Cancel(w) PROVE WaitInv'
  <2>1. /\ pc' = [pc EXCEPT !["main"] = At("cancelling", "-")]
        /\ navigation_state_' = "CANCELED" /\ UNCHANGED goal_handle_
        /\ waypoint' = [waypoint EXCEPT ![w] = "PREEMPTING"]
    BY <1>4 DEF Cancel, goalVars
  <2>2. StatesWait'
    BY <2>1 DEF StatesWait
  <2>3. HandleSent'
    BY <1>1, <2>1 DEF WaitInv, HandleSent, TypeOK
  <2>. QED  BY <2>2, <2>3 DEF WaitInv
<1>5. CASE Connected
  <2>1. /\ pc' = [pc EXCEPT !["main"] = At("sendPlan", "-")]
        /\ navigation_state_' = "GET_PATH"
        /\ UNCHANGED <<goal_handle_, waypoint>>
    BY <1>5 DEF Connected, goalVars
  <2>2. StatesWait'
    BY <1>1, <2>1 DEF StatesWait, PlanAwaited, PlanOnItsWay
  <2>3. HandleSent'
    BY <1>1, <2>1 DEF WaitInv, HandleSent
  <2>. QED  BY <2>2, <2>3 DEF WaitInv
<1>6. CASE ConnectionTimeout
  <2>1. /\ pc["main"] = At("connecting", "-")
        /\ pc' = [pc EXCEPT !["main"] = Idle]
        /\ waypoint' = Report("ABORTED")
        /\ UNCHANGED <<navigation_state_, goal_handle_, client, done_cb>>
    BY <1>6 DEF ConnectionTimeout, goalVars
  <2>2. goal_handle_ \in Waypoints /\ waypoint'[goal_handle_] \in Terminal
    BY <2>1, ReportEnds DEF WaitInv, HandleSent, TypeOK, Terminal
  <2>3. RecoveryRuns => RecoveryRuns'
    BY <1>1, <1>2, <2>1
  <2>4. StatesWait'
    BY <2>1, <2>2, <2>3 DEF WaitInv, StatesWait, PlanAwaited
  <2>5. HandleSent'
    BY <1>1, <2>1, <2>2 DEF HandleSent, Terminal
  <2>. QED  BY <2>4, <2>5 DEF WaitInv
<1>7. CASE CancelGoals
  <2>1. /\ navigation_state_ = "CANCELED"
        /\ pc' = [pc EXCEPT !["main"] = Idle]
        /\ UNCHANGED <<navigation_state_, goal_handle_, waypoint>>
    BY <1>7 DEF CancelGoals, goalVars, WaitInv, StateHeld
  <2>. QED
    BY <1>1, <2>1 DEF WaitInv, StatesWait, HandleSent
<1>8. CASE SendPlan("main")
  <2>1. SendGoal("get_path", NoWaypoint) \/ \E w \in Waypoints : SendGoal("get_path", w)
    BY <1>8 DEF SendPlan, TypeOK
  <2>2. /\ Live("get_path")' /\ done_cb' = "actionGetPathDone"
        /\ client'["recovery"] = client["recovery"]
        /\ pc' = [pc EXCEPT !["main"] = Idle]
        /\ UNCHANGED <<navigation_state_, goal_handle_, waypoint>>
    BY <1>1, <1>8, <2>1, SendGoalLemma DEF SendPlan, goalVars, SendGoal, ClientsType
  <2>3. pc["main"] = At("sendPlan", "-")
    BY <1>8 DEF SendPlan
  <2>4. RecoveryRuns => RecoveryRuns'
    BY <1>1, <1>2, <2>2, <2>3
  <2>5. StatesWait'
    BY <2>2, <2>4 DEF WaitInv, StatesWait, PlanAwaited
  <2>6. HandleSent'
    BY <1>1, <2>2 DEF WaitInv, HandleSent
  <2>. QED  BY <2>5, <2>6 DEF WaitInv
<1>. QED
  BY <1>3, <1>4, <1>5, <1>6, <1>7, <1>8 DEF MainThread

-----------------------------------------------------------------------------
(* The get_path thread: its handlers take the plan that was awaited, and   *)
(* leave GET_PATH or go on to leave it.                                    *)

(* Nor do the handlers of get_path results.                                *)
LEMMA GetPathWaits ==
  ASSUME TypeOK, WaitInv, GetPathThread, StateHeld'
  PROVE  WaitInv'
<1>1. pc \in [Threads -> AllPlaces] /\ ClientsType
  BY DEF TypeOK, ClientsType
<1>2. ASSUME pc["get_path"][1] # "sendRecovery",
             client'["recovery"] = client["recovery"],
             \A t \in Threads \ {"get_path"} : pc'[t] = pc[t]
      PROVE  RecoveryRuns => RecoveryRuns'
  BY <1>2 DEF RecoveryRuns, Live
<1>3. UNCHANGED goal_handle_ /\ \A t \in Threads \ {"get_path"} : pc'[t] = pc[t]
  BY <1>1 DEF GetPathThread, PlanSucceeded, PlanAborted, PlanGaveUp, PlanOther, RunExePath,
     RunExePathBlocked, SendPath, WakeUp, ReplanIgnored, ReplanSucceeded, ReplanAborted,
     ReplanOther, Replan, EnterRecovery, SendRecovery, SetTrigger, AttemptRecovery, goalVars
<1>4. \/ UNCHANGED waypoint
      \/ \E s \in Terminal : waypoint' = Report(s)
  BY DEF GetPathThread, PlanSucceeded, PlanAborted, PlanGaveUp, PlanOther, RunExePath,
     RunExePathBlocked, SendPath, WakeUp, ReplanIgnored, ReplanSucceeded, ReplanAborted,
     ReplanOther, Replan, EnterRecovery, SendRecovery, SetTrigger, AttemptRecovery, Terminal
<1>5. /\ waypoint[goal_handle_] \in Terminal => waypoint'[goal_handle_] \in Terminal
      /\ goal_handle_ \in Waypoints => waypoint'[goal_handle_] # "unsent"
  <2>1. CASE UNCHANGED waypoint  BY <2>1 DEF WaitInv, HandleSent
  <2>2. CASE \E s \in Terminal : waypoint' = Report(s)
    BY <2>2, ReportEnds DEF WaitInv, TypeOK, Terminal
  <2>. QED  BY <1>4, <2>1, <2>2
<1>6. HandleSent'
  BY <1>3, <1>5 DEF WaitInv, HandleSent
<1>7. Finish("get_path") => client'["recovery"] = client["recovery"]
  BY <1>1 DEF Finish, ClientsType
<1>8. ASSUME navigation_state_' \notin {"GET_PATH", "RECOVERY"} PROVE WaitInv'
  BY <1>6, <1>8 DEF WaitInv, StatesWait
\* A step that stays in its state, of a thread that holds a plan afterwards.
<1>9. ASSUME UNCHANGED navigation_state_, client'["recovery"] = client["recovery"],
             pc["get_path"][1] # "sendRecovery",
             pc'["get_path"][1] \in {"runExePath", "sendPath", "attempt"}
      PROVE  WaitInv'
  BY <1>2, <1>3, <1>6, <1>9 DEF WaitInv, StatesWait, PlanAwaited
\* One that stays in a state other than GET_PATH.
<1>10. ASSUME UNCHANGED navigation_state_, navigation_state_ # "GET_PATH",
              client'["recovery"] = client["recovery"],
              pc["get_path"][1] # "sendRecovery"
       PROVE  WaitInv'
  BY <1>2, <1>3, <1>6, <1>10 DEF WaitInv, StatesWait
\* One that takes neither the first plan nor a place where a plan is held.
<1>11. ASSUME UNCHANGED navigation_state_,
              RecoveryRuns => RecoveryRuns',
              Live("get_path") /\ done_cb = "actionGetPathDone"
                => Live("get_path")' /\ done_cb' = "actionGetPathDone",
              pc["get_path"][1] \notin {"runExePath", "sendPath", "attempt"}
       PROVE  WaitInv'
  BY <1>3, <1>5, <1>6, <1>11
  DEF WaitInv, StatesWait, PlanAwaited, PlanOnItsWay
<1>12. CASE PlanSucceeded
  <2>1. UNCHANGED navigation_state_ /\ pc'["get_path"] = At("runExePath", "first")
    BY <1>1, <1>12 DEF PlanSucceeded
  <2>. QED  BY <1>7, <1>9, <1>12, <2>1 DEF PlanSucceeded, PlanDone, Ended
<1>13. CASE PlanAborted
  <2>1. \/ UNCHANGED navigation_state_ /\ pc'["get_path"] = At("attempt", "GET_PATH")
        \/ navigation_state_' = "FAILED" /\ pc'["get_path"] = Idle
    BY <1>1, <1>13 DEF PlanAborted, AttemptRecovery
  <2>2. client'["recovery"] = client["recovery"] /\ pc["get_path"] = Idle
    BY <1>7, <1>13 DEF PlanAborted, PlanDone, Ended
  <2>. QED  BY <1>8, <1>9, <2>1, <2>2
<1>14. ASSUME NEW s \in Terminal, NEW state \in {"CANCELED", "FAILED"}, PlanGaveUp(s, state),
              Ended("get_path")
       PROVE  WaitInv'
  BY <1>8, <1>14 DEF PlanGaveUp, Ended
<1>15. CASE PlanOther
  BY <1>8, <1>15 DEF PlanOther, Rejected, Recalled, Ended
<1>16. ASSUME NEW k \in Cycles, RunExePath(k) PROVE WaitInv'
  <2>1. /\ UNCHANGED <<navigation_state_, client>>
        /\ pc["get_path"] = At("runExePath", k) /\ pc'["get_path"] = At("sendPath", k)
    BY <1>1, <1>16 DEF RunExePath
  <2>. QED  BY <1>9, <2>1
<1>17. ASSUME NEW k \in Cycles, RunExePathBlocked(k) PROVE WaitInv'
  <2>1. UNCHANGED <<navigation_state_, client>> /\ navigation_state_ = "RECOVERY"
        /\ pc["get_path"] = At("runExePath", k)
    BY <1>1, <1>17 DEF RunExePathBlocked
  <2>. QED  BY <1>10, <2>1
<1>18. ASSUME NEW k \in Cycles, SendPath(k) PROVE WaitInv'
  BY <1>8, <1>18 DEF SendPath
<1>19. ASSUME NEW k \in Cycles, WakeUp(k) PROVE WaitInv'
  <2>1. /\ UNCHANGED <<navigation_state_, client, done_cb>>
        /\ pc["get_path"] = At("sleep", k)
    BY <1>19 DEF WakeUp
  <2>2. RecoveryRuns => RecoveryRuns'
    BY <1>2, <1>3, <2>1
  <2>. QED  BY <1>11, <2>1, <2>2 DEF Live
<1>20. CASE ReplanIgnored
  <2>1. /\ UNCHANGED <<navigation_state_, pc, done_cb>>
        /\ done_cb = "actionGetPathReplanningDone" /\ pc["get_path"] = Idle
    BY <1>20 DEF ReplanIgnored, ReplanDone, Ended
  <2>2. RecoveryRuns => RecoveryRuns'
    BY <1>2, <1>3, <1>7, <1>20, <2>1 DEF ReplanIgnored, ReplanDone
  <2>. QED  BY <1>11, <2>1, <2>2
<1>21. CASE ReplanSucceeded \/ ReplanOther
  <2>1. /\ UNCHANGED navigation_state_ /\ navigation_state_ = "EXE_PATH"
        /\ client'["recovery"] = client["recovery"] /\ pc["get_path"] = Idle
    BY <1>7, <1>21 DEF ReplanSucceeded, ReplanOther, ReplanDone, Ended
  <2>. QED  BY <1>10, <2>1
<1>22. CASE ReplanAborted
  <2>1. navigation_state_' \in {"EXE_PATH", "FAILED"}
    BY <1>22 DEF ReplanAborted, AttemptRecovery
  <2>. QED  BY <1>8, <2>1
<1>23. CASE Replan
  <2>1. navigation_state_' = "EXE_PATH"
    BY <1>23 DEF Replan, WaitInv, StateHeld
  <2>. QED  BY <1>8, <2>1
<1>24. CASE EnterRecovery("get_path", "GET_PATH")
  <2>1. navigation_state_' = "RECOVERY" /\ pc'["get_path"][1] = "sendRecovery"
    BY <1>1, <1>24 DEF EnterRecovery
  <2>. QED
    BY <1>6, <2>1 DEF WaitInv, StatesWait, RecoveryRuns
<1>25. CASE SendRecovery("get_path", "GET_PATH")
  <2>1. /\ UNCHANGED <<navigation_state_, done_cb>>
        /\ pc["get_path"] = At("sendRecovery", "GET_PATH")
        /\ client'["recovery"] = Sent(NoWaypoint)
        /\ client'["get_path"] = client["get_path"]
    BY <1>1, <1>25 DEF SendRecovery, SendGoal, ClientsType
  <2>2. RecoveryRuns'
    BY <2>1 DEF RecoveryRuns, Live, Sent
  <2>. QED
    BY <1>11, <2>1, <2>2 DEF Live
<1>26. CASE SetTrigger("get_path", "GET_PATH")
  <2>1. /\ UNCHANGED <<navigation_state_, client, done_cb>>
        /\ pc["get_path"] = At("trigger", "GET_PATH")
    BY <1>26 DEF SetTrigger
  <2>2. RecoveryRuns => RecoveryRuns'
    BY <1>2, <1>3, <2>1
  <2>. QED  BY <1>11, <2>1, <2>2 DEF Live
<1>. QED
  BY <1>12, <1>13, <1>14, <1>15, <1>16, <1>17, <1>18, <1>19, <1>20, <1>21, <1>22, <1>23,
     <1>24, <1>25, <1>26 DEF GetPathThread, Preempted, Lost, Terminal

-----------------------------------------------------------------------------
(* The exe_path thread leaves the plan alone, and RECOVERY too, unless it  *)
(* sends another recovery behavior itself.                                 *)

(* Nor does the handler of exe_path results.                               *)
LEMMA ExePathWaits ==
  ASSUME TypeOK, WaitInv, ExePathThread, StateHeld'
  PROVE  WaitInv'
<1>1. pc \in [Threads -> AllPlaces] /\ ClientsType
  BY DEF TypeOK, ClientsType
<1>2. Ended("exe_path") => pc["exe_path"][1] # "sendRecovery"
  BY DEF Ended
<1>3. Finish("exe_path") => /\ client'["get_path"] = client["get_path"]
                            /\ client'["recovery"] = client["recovery"]
  BY <1>1 DEF Finish, ClientsType
\* Every step of this thread:
<1>4. ASSUME LeavesPlan, \A t \in Threads \ {"exe_path"} : pc'[t] = pc[t],
             \/ navigation_state_' \notin {"GET_PATH", "RECOVERY"}
             \/ /\ UNCHANGED navigation_state_
                /\ client'["recovery"] = client["recovery"]
                /\ pc["exe_path"][1] # "sendRecovery"
             \/ UNCHANGED navigation_state_ /\ client'["recovery"] = Sent(NoWaypoint)
             \/ navigation_state_' = "RECOVERY" /\ pc'["exe_path"][1] = "sendRecovery"
      PROVE  WaitInv'
  <2>1. PlanOnItsWay' = PlanOnItsWay
    BY <1>4 DEF PlanOnItsWay
  <2>2. HandleSent'
    BY <1>4, LeavesPlanAwaited DEF WaitInv, HandleSent, LeavesPlan
  <2>3. PlanAwaited => PlanAwaited'
    BY <1>4, <2>1, LeavesPlanAwaited DEF WaitInv
  <2>4. \/ navigation_state_' # "RECOVERY"
        \/ UNCHANGED navigation_state_ /\ (RecoveryRuns => RecoveryRuns')
        \/ RecoveryRuns'
    BY <1>4 DEF RecoveryRuns, Live, Sent
  <2>5. navigation_state_' = "GET_PATH" => UNCHANGED navigation_state_
    BY <1>4
  <2>6. StatesWait'
    BY <2>3, <2>4, <2>5 DEF WaitInv, StatesWait
  <2>. QED  BY <2>2, <2>6 DEF WaitInv
<1>5. CASE ExeSucceeded
  BY <1>2, <1>3, <1>4, <1>5 DEF ExeSucceeded, LeavesPlan, Live, goalVars, Terminal
<1>6. CASE ExeUnrecoverable
  BY <1>2, <1>3, <1>4, <1>6 DEF ExeUnrecoverable, LeavesPlan, Live, goalVars, Terminal
<1>7. CASE ExeAborted
  <2>1. /\ LeavesPlan /\ client'["recovery"] = client["recovery"]
        /\ \A t \in Threads \ {"exe_path"} : pc'[t] = pc[t]
        /\ navigation_state_' = "FAILED" \/ UNCHANGED navigation_state_
        /\ pc["exe_path"][1] # "sendRecovery"
    BY <1>1, <1>2, <1>3, <1>7 DEF ExeAborted, AttemptRecovery, LeavesPlan, Live, goalVars, Terminal
  <2>. QED  BY <1>4, <2>1
<1>8. CASE ExePreempted
  BY <1>2, <1>3, <1>4, <1>8 DEF ExePreempted, Preempted, LeavesPlan, Live, goalVars
<1>9. CASE ExeOther
  BY <1>3, <1>4, <1>9 DEF ExeOther, LeavesPlan, Live, goalVars
<1>10. CASE Moved
  BY <1>4, <1>10 DEF Moved, LeavesPlan, Live, goalVars
<1>11. CASE Stuck
  <2>1. /\ LeavesPlan /\ client'["recovery"] = client["recovery"]
        /\ \A t \in Threads \ {"exe_path"} : pc'[t] = pc[t]
        /\ navigation_state_' = "FAILED" \/ UNCHANGED navigation_state_
        /\ pc["exe_path"][1] # "sendRecovery"
    BY <1>1, <1>11 DEF Stuck, AttemptRecovery, LeavesPlan, Live, ClientsType, goalVars, Terminal
  <2>. QED  BY <1>4, <2>1
<1>12. ASSUME NEW cause \in {"EXE_PATH", "OSCILLATING"}, EnterRecovery("exe_path", cause)
       PROVE  WaitInv'
  <2>1. /\ LeavesPlan /\ navigation_state_' = "RECOVERY"
        /\ \A t \in Threads \ {"exe_path"} : pc'[t] = pc[t]
        /\ pc'["exe_path"][1] = "sendRecovery"
    BY <1>1, <1>12 DEF EnterRecovery, LeavesPlan, Live, goalVars
  <2>. QED  BY <1>4, <2>1
<1>13. ASSUME NEW cause \in {"EXE_PATH", "OSCILLATING"}, SendRecovery("exe_path", cause)
       PROVE  WaitInv'
  <2>1. /\ LeavesPlan /\ client'["recovery"] = Sent(NoWaypoint)
        /\ \A t \in Threads \ {"exe_path"} : pc'[t] = pc[t]
        /\ UNCHANGED navigation_state_
    BY <1>1, <1>13 DEF SendRecovery, SendGoal, LeavesPlan, Live, ClientsType, goalVars
  <2>. QED  BY <1>4, <2>1
<1>14. ASSUME NEW cause \in {"EXE_PATH", "OSCILLATING"}, SetTrigger("exe_path", cause)
       PROVE  WaitInv'
  BY <1>1, <1>4, <1>14 DEF SetTrigger, LeavesPlan, Live, goalVars
<1>. QED
  BY <1>5, <1>6, <1>7, <1>8, <1>9, <1>10, <1>11, <1>12, <1>13, <1>14
  DEF ExePathThread, Feedback

-----------------------------------------------------------------------------
(* The recovery thread: a behavior that ends is followed by another one,   *)
(* or by another state.                                                    *)

(* Nor does the handler of recovery results.                               *)
LEMMA RecoveryWaits ==
  ASSUME TypeOK, WaitInv, RecoveryThread, StateHeld'
  PROVE  WaitInv'
<1>1. pc \in [Threads -> AllPlaces] /\ ClientsType
  BY DEF TypeOK, ClientsType
<1>2. (\E t \in Threads : pc[t][1] = "sendRecovery") /\ UNCHANGED pc => RecoveryRuns'
  BY DEF RecoveryRuns
<1>3. Finish("recovery") => client'["get_path"] = client["get_path"]
  BY <1>1 DEF Finish, ClientsType
<1>4. SendGoal("recovery", NoWaypoint) => /\ client'["get_path"] = client["get_path"]
                                         /\ client'["recovery"] = Sent(NoWaypoint)
  BY <1>1 DEF SendGoal, ClientsType
\* The callbacks of a behavior that failed, in all but one case:
<1>5. ASSUME LeavesPlan, UNCHANGED pc,
             \/ navigation_state_' \notin {"GET_PATH", "RECOVERY"}
             \/ UNCHANGED navigation_state_ /\ navigation_state_ # "RECOVERY"
             \/ UNCHANGED navigation_state_ /\ RecoveryRuns'
      PROVE  WaitInv'
  <2>1. PlanOnItsWay' = PlanOnItsWay
    BY <1>5 DEF PlanOnItsWay
  <2>2. HandleSent'
    BY <1>5, LeavesPlanAwaited DEF WaitInv, HandleSent, LeavesPlan
  <2>3. PlanAwaited => PlanAwaited'
    BY <1>5, <2>1, LeavesPlanAwaited DEF WaitInv
  <2>4. StatesWait'
    BY <1>5, <2>3 DEF WaitInv, StatesWait
  <2>. QED  BY <2>2, <2>4 DEF WaitInv
<1>6. CASE RecoverySucceeded
  <2>1. /\ LeavesPlan /\ navigation_state_' = "GET_PATH" /\ pc'["main"] = pc["main"]
        /\ pc'["recovery"] = At("sendPlan", "-")
    BY <1>1, <1>3, <1>6 DEF RecoverySucceeded, LeavesPlan, Live, goalVars
  <2>2. HandleSent'
    BY <2>1, LeavesPlanAwaited DEF WaitInv, HandleSent, LeavesPlan
  <2>3. StatesWait'
    BY <2>1 DEF StatesWait, PlanAwaited, PlanOnItsWay
  <2>. QED  BY <2>2, <2>3 DEF WaitInv
<1>7. CASE RecoveryFailed
  <2>1. /\ LeavesPlan /\ UNCHANGED pc
        /\ \/ navigation_state_' = "FAILED"
           \/ UNCHANGED navigation_state_ /\ client'["recovery"] = Sent(NoWaypoint)
    BY <1>3, <1>4, <1>7
    DEF RecoveryFailed, RunNextRecoveryBehavior, LeavesPlan, Live, goalVars, Terminal
  <2>2. client'["recovery"] = Sent(NoWaypoint) => RecoveryRuns'
    BY DEF RecoveryRuns, Live, Sent
  <2>. QED  BY <1>5, <2>1, <2>2
<1>8. CASE RecoveryRejected
  <2>1. LeavesPlan /\ UNCHANGED pc /\ navigation_state_' = "FAILED"
    BY <1>3, <1>4, <1>8 DEF RecoveryRejected, LeavesPlan, Live, goalVars, Terminal
  <2>. QED  BY <1>5, <2>1
<1>9. CASE RecoveryRecalled
  <2>1. LeavesPlan /\ UNCHANGED <<pc, navigation_state_>>
    BY <1>3, <1>9 DEF RecoveryRecalled, LeavesPlan, Live, goalVars
  <2>2. navigation_state_ # "RECOVERY" \/ RecoveryRuns'
    BY <1>2, <1>9, <2>1 DEF RecoveryRecalled, Recalled, WaitInv, StatesWait, RecoveryRuns
  <2>. QED  BY <1>5, <2>1, <2>2
<1>10. CASE RecoveryLost
  <2>1. LeavesPlan /\ UNCHANGED pc /\ navigation_state_' = "FAILED"
    BY <1>3, <1>10 DEF RecoveryLost, LeavesPlan, Live, goalVars, Terminal
  <2>. QED  BY <1>5, <2>1
<1>11. CASE SendPlan("recovery")
  <2>1. SendGoal("get_path", NoWaypoint) \/ \E w \in Waypoints : SendGoal("get_path", w)
    BY <1>11 DEF SendPlan, TypeOK
  <2>2. /\ Live("get_path")' /\ done_cb' = "actionGetPathDone"
        /\ client'["recovery"] = client["recovery"]
        /\ pc' = [pc EXCEPT !["recovery"] = Idle]
        /\ UNCHANGED <<navigation_state_, goal_handle_, waypoint>>
    BY <1>1, <1>11, <2>1, SendGoalLemma DEF SendPlan, goalVars, SendGoal, ClientsType
  <2>3. pc["recovery"] = At("sendPlan", "-")
    BY <1>11 DEF SendPlan
  <2>4. RecoveryRuns => RecoveryRuns'
    BY <1>1, <2>2, <2>3 DEF RecoveryRuns, Live
  <2>5. StatesWait'
    BY <2>2, <2>4 DEF WaitInv, StatesWait, PlanAwaited
  <2>6. HandleSent'
    BY <1>1, <2>2 DEF WaitInv, HandleSent
  <2>. QED  BY <2>5, <2>6 DEF WaitInv
<1>. QED
  BY <1>6, <1>7, <1>8, <1>9, <1>10, <1>11 DEF RecoveryThread

(* A status message ends no goal and cancels none.                         *)
LEMMA ActivateWaits ==
  ASSUME TypeOK, WaitInv, NEW c \in Clients, Activate(c)
  PROVE  WaitInv'
<1>1. /\ \A d \in Clients : Live(d)' = Live(d) /\ client'[d].cancel = client[d].cancel
      /\ UNCHANGED <<navigation_state_, goal_handle_, done_cb, waypoint, pc>>
  <2>1. ClientsType  BY DEF TypeOK, ClientsType
  <2>2. \A d \in Clients : Live(d)' = Live(d)
    BY <2>1, ActivateLemma DEF Untouched, Activate, Live
  <2>3. client[c] \in ClientGoal  BY <2>1 DEF ClientsType
  <2>4. \A d \in Clients : client'[d].cancel = client[d].cancel
    BY <2>1, <2>3 DEF Activate, ClientsType, ClientGoal
  <2>. QED  BY <2>2, <2>4 DEF Activate, goalVars
<1>. QED
  BY <1>1 DEF WaitInv, StatesWait, StateHeld, HandleSent, PlanAwaited, PlanOnItsWay,
              RecoveryRuns

(* Every wait has its goal until a thread has overtaken another.           *)
WaitKept == ~overtaken => WaitInv

(* Every step of every thread keeps it so.                                 *)
LEMMA NextWait == TypeOK /\ WaitKept /\ [Next]_vars => WaitKept'
<1>. SUFFICES ASSUME TypeOK, WaitKept, [Next]_vars, ~overtaken'
              PROVE  WaitInv'
  BY DEF WaitKept
<1>1. CASE UNCHANGED vars
  BY <1>1 DEF WaitKept, vars, members, WaitInv, StatesWait, StateHeld, HandleSent,
              PlanAwaited, PlanOnItsWay, RecoveryRuns, Live
<1>2. CASE Next
  <2>1. WaitInv /\ StateHeld'
    BY <1>2, OvertakenStays, NoneOvertakenHolds DEF WaitKept
  <2>2. CASE MainThread  BY <2>1, <2>2, MainWaits
  <2>3. CASE GetPathThread  BY <2>1, <2>3, GetPathWaits
  <2>4. CASE ExePathThread  BY <2>1, <2>4, ExePathWaits
  <2>5. CASE RecoveryThread  BY <2>1, <2>5, RecoveryWaits
  <2>6. ASSUME NEW c \in Clients, Activate(c) PROVE WaitInv'
    BY <2>1, <2>6, ActivateWaits
  <2>. QED
    BY <1>2, <2>2, <2>3, <2>4, <2>5, <2>6 DEF Next
<1>. QED
  BY <1>1, <1>2

(* Until a thread has overtaken another, the server is never in a state    *)
(* that waits for a result which nobody will report, whichever threads     *)
(* interleave.                                                             *)
THEOREM WaitIsForSomething == Spec => []WaitsForSomething
<1>1. Init => WaitKept
  <2>. SUFFICES ASSUME Init PROVE WaitInv
    BY DEF WaitKept
  <2>1. goal_handle_ \notin Waypoints
    BY ConstantsAssumption DEF Init
  <2>. QED
    BY <2>1 DEF Init, WaitInv, StatesWait, StateHeld, HandleSent
<1>2. WaitKept => WaitsForSomething
  BY DEF WaitKept, WaitInv, StatesWait, RecoveryRuns, WaitsForSomething, RecoveryAwaited
<1>. QED
  BY <1>1, <1>2, NextWait, TypeCorrect, PTL DEF Spec
=============================================================================
