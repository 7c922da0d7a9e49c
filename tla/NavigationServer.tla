--------------------------- MODULE NavigationServer ---------------------------
(***************************************************************************)
(* The navigation_server node (navigation_server.cpp): it takes waypoints  *)
(* from the /move_to_waypoint action and drives the robot to them through  *)
(* the get_path, exe_path and recovery actions of move_base_flex.          *)
(*                                                                         *)
(* Four threads run its handlers: "main" spins the action server (start,   *)
(* cancel), and each action client spins a thread of its own, named here   *)
(* after the client, which runs the callbacks of that client's goals.  No  *)
(* lock protects the members they share.  A handler is split into steps    *)
(* where it blocks (waitForServer, the replanning sleeps) and where it has *)
(* read or written shared state that the rest of it relies on; between its *)
(* steps any other thread may run.                                         *)
(*                                                                         *)
(* External and modelled from how the handlers use it: the action server's *)
(* goal status machine, and move_base_flex, which runs one goal of a kind  *)
(* at a time: a new goal replaces the one before it.                       *)
(***************************************************************************)
EXTENDS Integers

CONSTANTS
  Waypoints,           \* the goals that clients may send to /move_to_waypoint
  NoWaypoint,          \* a goal handle that refers to no goal
  MaxBehaviors,        \* the longest list of recovery behaviors in a goal
  MaxReplanningTries,  \* the parameter max_replanning_tries
  RecoveryEnabled,     \* the parameter recovery_enabled
  Events               \* what the environment may do, see AllEvents

\* What the environment may do beyond letting plans, paths and recovery
\* behaviors succeed or fail: the client cancels a waypoint or sends one
\* before the last is done, the robot stops moving, the move_base_flex servers
\* are missing, refuse a goal, lose it, or report an unrecoverable error.
AllEvents == {"cancel", "supersede", "stuck", "disconnected", "REJECTED",
              "LOST", "unrecoverable"}

ASSUME ConstantsAssumption ==
  /\ NoWaypoint \notin Waypoints
  /\ MaxBehaviors \in Nat \ {0}
  /\ MaxReplanningTries \in Nat
  /\ RecoveryEnabled \in BOOLEAN
  /\ Events \subseteq AllEvents

VARIABLES
  navigation_state_,
  recovery_trigger_,
  goal_handle_,
  recovery_behaviors_,         \* how many behaviors the list holds
  current_recovery_behavior_,  \* the iterator: 0 is begin(), the length end()
  current_replanning_tries_,
  client,      \* the goal each action client tracks
  done_cb,     \* the callback of the get_path goal
  path,        \* where the path leads that the get_path thread has in hand
  waypoint,    \* the status of each waypoint goal at the action server
  pc,          \* where each thread is: a place in a handler and its case
  overtaken    \* history: a thread has undone what another one had just tested
               \* or set, see Overtaken

members == <<navigation_state_, recovery_trigger_, goal_handle_,
             recovery_behaviors_, current_recovery_behavior_,
             current_replanning_tries_, client, done_cb, path, waypoint, pc>>

vars == <<members, overtaken>>

\* Only start() assigns these.
goalVars == <<goal_handle_, recovery_behaviors_>>

Clients == {"get_path", "exe_path", "recovery"}
Threads == Clients \union {"main"}

NavigationState == {"NONE", "GET_PATH", "EXE_PATH", "OSCILLATING", "RECOVERY",
                    "SUCCEEDED", "CANCELED", "FAILED"}

Running  == {"ACTIVE", "PREEMPTING"}
Terminal == {"SUCCEEDED", "ABORTED", "PREEMPTED"}
Status   == {"unsent"} \union Running \union Terminal

\* A goal an action client tracks: what it last heard of it, whether it asked
\* to cancel it, and the waypoint a plan or path is for.
ClientGoal == [phase : {"pending", "active", "done"}, cancel : BOOLEAN,
               to : Waypoints \union {NoWaypoint}]

At(place, case) == <<place, case>>
Idle == At("idle", "-")

-----------------------------------------------------------------------------
(* The action clients, and the statuses a handler reports.                 *)

Live(c) == client[c].phase # "done"

NoGoal  == [phase |-> "done", cancel |-> FALSE, to |-> NoWaypoint]
Sent(w) == [phase |-> "pending", cancel |-> FALSE, to |-> w]

Cancelled(g) == [g EXCEPT !.cancel = TRUE]

SendGoal(c, w) == client' = [client EXCEPT ![c] = Sent(w)]

\* The spin thread of client c finds its goal ended; it runs a callback only
\* when it is not still inside the last one.
Ended(c) ==
  /\ pc[c] = Idle
  /\ Live(c)

\* A goal ends as preempted or recalled only after a cancel request.
Preempted(c) == Ended(c) /\ client[c].cancel
Recalled(c)  == Ended(c) /\ client[c].cancel /\ client[c].phase = "pending"
Rejected(c)  == Ended(c) /\ client[c].phase = "pending" /\ "REJECTED" \in Events
Lost(c)      == Ended(c) /\ "LOST" \in Events

Finish(c) == client' = [client EXCEPT ![c] = NoGoal]

\* setSucceeded, setAborted, setCanceled: no effect once the goal is over.
Report(s) ==
  IF goal_handle_ \in Waypoints /\ waypoint[goal_handle_] \in Running
  THEN [waypoint EXCEPT ![goal_handle_] = s]
  ELSE waypoint

GoTo(t, at) == pc' = [pc EXCEPT ![t] = at]

\* The status message that moves a goal from pending to active; the callback,
\* actionExePathActive, only logs.
Activate(c) ==
  /\ pc[c] = Idle
  /\ client[c].phase = "pending"
  /\ client' = [client EXCEPT ![c].phase = "active"]
  /\ UNCHANGED <<navigation_state_, recovery_trigger_, goalVars,
                 current_recovery_behavior_, current_replanning_tries_,
                 done_cb, path, waypoint, pc>>

-----------------------------------------------------------------------------
Init ==
  /\ navigation_state_ = "NONE"
  /\ recovery_trigger_ = "NONE"
  /\ goal_handle_ = NoWaypoint
  /\ recovery_behaviors_ = 0
  /\ current_recovery_behavior_ = 0
  /\ current_replanning_tries_ = -1   \* no initializer: no count yet
  /\ client = [c \in Clients |-> NoGoal]
  /\ done_cb = "actionGetPathDone"
  /\ path = NoWaypoint
  /\ waypoint = [w \in Waypoints |-> "unsent"]
  /\ pc = [t \in Threads |-> Idle]
  /\ overtaken = FALSE

(* attemptRecovery: the test for the end of the list, then the state, then *)
(* the goal, then the assignment its callers make when it returns true.    *)

\* Variant: the end of the list is not looked for.
RecoveryLeft_NoEndTest == RecoveryEnabled

RecoveryLeft ==
  /\ RecoveryEnabled
  /\ current_recovery_behavior_ # recovery_behaviors_

\* The caller's two branches: go on to send the behavior, or abort the goal.
AttemptRecovery(t, cause) ==
  \/ /\ RecoveryLeft
     /\ GoTo(t, At("attempt", cause))
     /\ UNCHANGED <<waypoint, navigation_state_>>
  \/ /\ ~RecoveryLeft
     /\ waypoint' = Report("ABORTED")
     /\ navigation_state_' = "FAILED"
     /\ GoTo(t, Idle)

EnterRecovery(t, cause) ==
  /\ pc[t] = At("attempt", cause)
  /\ navigation_state_' = "RECOVERY"
  /\ GoTo(t, At("sendRecovery", cause))
  /\ UNCHANGED <<recovery_trigger_, goalVars, current_recovery_behavior_,
                 current_replanning_tries_, client, done_cb, path, waypoint>>

SendRecovery(t, cause) ==
  /\ pc[t] = At("sendRecovery", cause)
  /\ SendGoal("recovery", NoWaypoint)
  /\ GoTo(t, At("trigger", cause))
  /\ UNCHANGED <<navigation_state_, recovery_trigger_, goalVars,
                 current_recovery_behavior_, current_replanning_tries_, done_cb,
                 path, waypoint>>

\* The handler then returns: the state is not EXE_PATH on the get_path thread,
\* whose own runExePath is the only code that makes it so.
SetTrigger(t, cause) ==
  /\ pc[t] = At("trigger", cause)
  /\ recovery_trigger_' = cause
  /\ GoTo(t, Idle)
  /\ UNCHANGED <<navigation_state_, goalVars, current_recovery_behavior_,
                 current_replanning_tries_, client, done_cb, path, waypoint>>

\* runGetPath has set the state; the goal goes out.
SendPlan(t) ==
  /\ pc[t] = At("sendPlan", "-")
  /\ SendGoal("get_path", goal_handle_)
  /\ done_cb' = "actionGetPathDone"
  /\ GoTo(t, Idle)
  /\ UNCHANGED <<navigation_state_, recovery_trigger_, goalVars,
                 current_recovery_behavior_, current_replanning_tries_,
                 path, waypoint>>

-----------------------------------------------------------------------------
(* The main thread.                                                        *)

\* start(): recovery_trigger_ and the goals of the last waypoint stay.
Start(w) ==
  /\ pc["main"] = Idle
  /\ waypoint[w] = "unsent"
  /\ "supersede" \in Events \/ \A v \in Waypoints : waypoint[v] \notin Running
  /\ goal_handle_' = w
  /\ navigation_state_' = "GET_PATH"
  /\ waypoint' = [waypoint EXCEPT ![w] = "ACTIVE"]
  /\ recovery_behaviors_' \in 1..MaxBehaviors
  /\ current_recovery_behavior_' = 0
  /\ GoTo("main", At("connecting", "-"))
  /\ UNCHANGED <<recovery_trigger_, current_replanning_tries_, client, done_cb,
                 path>>

\* start() after waitForServer, into runGetPath.
Connected ==
  /\ pc["main"] = At("connecting", "-")
  /\ navigation_state_' = "GET_PATH"
  /\ GoTo("main", At("sendPlan", "-"))
  /\ UNCHANGED <<recovery_trigger_, goalVars, current_recovery_behavior_,
                 current_replanning_tries_, client, done_cb, path, waypoint>>

ConnectionTimeout ==
  /\ "disconnected" \in Events
  /\ pc["main"] = At("connecting", "-")
  /\ waypoint' = Report("ABORTED")
  /\ GoTo("main", Idle)
  /\ UNCHANGED <<navigation_state_, recovery_trigger_, goalVars,
                 current_recovery_behavior_, current_replanning_tries_, client,
                 done_cb, path>>

\* cancel() is bound without the goal handle: a cancel request for any running
\* waypoint cancels whatever the server is doing.
Cancel(w) ==
  /\ "cancel" \in Events
  /\ pc["main"] = Idle
  /\ waypoint[w] = "ACTIVE"
  /\ waypoint' = [waypoint EXCEPT ![w] = "PREEMPTING"]
  /\ navigation_state_' = "CANCELED"
  /\ GoTo("main", At("cancelling", "-"))
  /\ UNCHANGED <<recovery_trigger_, goalVars, current_recovery_behavior_,
                 current_replanning_tries_, client, done_cb, path>>

CancelGoals ==
  /\ pc["main"] = At("cancelling", "-")
  /\ client' = [c \in Clients |->
                  IF Live(c) THEN Cancelled(client[c]) ELSE client[c]]
  /\ GoTo("main", Idle)
  /\ UNCHANGED <<navigation_state_, recovery_trigger_, goalVars,
                 current_recovery_behavior_, current_replanning_tries_,
                 done_cb, path, waypoint>>

MainThread ==
  \/ \E w \in Waypoints : Start(w) \/ Cancel(w)
  \/ Connected
  \/ ConnectionTimeout
  \/ CancelGoals
  \/ SendPlan("main")

-----------------------------------------------------------------------------
(* The get_path thread: actionGetPathDone, then one replanning after the   *)
(* other.  "first" and "next" tell the two handlers' steps apart.          *)

Cycles == {"first", "next"}

PlanDone == done_cb = "actionGetPathDone" /\ Finish("get_path")

\* A plan after a failure of planning or control counts as recovered.
PlanSucceeded ==
  /\ Ended("get_path")
  /\ PlanDone
  /\ path' = client["get_path"].to
  /\ IF recovery_trigger_ \in {"GET_PATH", "EXE_PATH"}
     THEN current_recovery_behavior_' = 0 /\ recovery_trigger_' = "NONE"
     ELSE UNCHANGED <<current_recovery_behavior_, recovery_trigger_>>
  /\ GoTo("get_path", At("runExePath", "first"))
  /\ UNCHANGED <<navigation_state_, goalVars, current_replanning_tries_,
                 done_cb, waypoint>>

PlanAborted ==
  /\ Ended("get_path")
  /\ PlanDone
  /\ AttemptRecovery("get_path", "GET_PATH")
  /\ UNCHANGED <<recovery_trigger_, goalVars, current_recovery_behavior_,
                 current_replanning_tries_, done_cb, path>>

\* A plan that was preempted or lost ends the waypoint with status s.
PlanGaveUp(s, state) ==
  /\ PlanDone
  /\ waypoint' = Report(s)
  /\ navigation_state_' = state
  /\ UNCHANGED <<recovery_trigger_, goalVars, current_recovery_behavior_,
                 current_replanning_tries_, done_cb, path, pc>>

\* The default case reports nothing.
PlanOther ==
  /\ Rejected("get_path") \/ Recalled("get_path")
  /\ PlanDone
  /\ navigation_state_' = "FAILED"
  /\ UNCHANGED <<recovery_trigger_, goalVars, current_recovery_behavior_,
                 current_replanning_tries_, done_cb, path, waypoint, pc>>

ReplanDone ==
  /\ done_cb = "actionGetPathReplanningDone"
  /\ Ended("get_path")
  /\ Finish("get_path")

\* The first cycle goes on to replan only if the path was started.
RunExePathBlocked(k) ==
  /\ pc["get_path"] = At("runExePath", k)
  /\ navigation_state_ = "RECOVERY"
  /\ path' = NoWaypoint
  /\ GoTo("get_path", IF k = "first" THEN Idle ELSE At("sleep", "next"))
  /\ UNCHANGED <<navigation_state_, recovery_trigger_, goalVars,
                 current_recovery_behavior_, current_replanning_tries_, client,
                 done_cb, waypoint>>

RunExePath(k) ==
  /\ pc["get_path"] = At("runExePath", k)
  /\ navigation_state_ # "RECOVERY"
  /\ GoTo("get_path", At("sendPath", k))
  /\ UNCHANGED <<navigation_state_, recovery_trigger_, goalVars,
                 current_recovery_behavior_, current_replanning_tries_, client,
                 done_cb, path, waypoint>>

\* Variant: the count is never reset.
TriesAfterPath_NoReset(k) == current_replanning_tries_

\* actionGetPathDone resets the count of failed attempts.
TriesAfterPath(k) == IF k = "first" THEN 0 ELSE current_replanning_tries_

\* The path goes to exe_path; the thread goes on into its replanning sleep.
SendPath(k) ==
  /\ pc["get_path"] = At("sendPath", k)
  /\ navigation_state_' = "EXE_PATH"
  /\ SendGoal("exe_path", path)
  /\ path' = NoWaypoint
  /\ current_replanning_tries_' = TriesAfterPath(k)
  /\ GoTo("get_path", At("sleep", k))
  /\ UNCHANGED <<recovery_trigger_, goalVars, current_recovery_behavior_,
                 done_cb, waypoint>>

ReplanIgnored ==
  /\ navigation_state_ # "EXE_PATH"
  /\ ReplanDone
  /\ UNCHANGED <<navigation_state_, recovery_trigger_, goalVars,
                 current_recovery_behavior_, current_replanning_tries_,
                 done_cb, path, waypoint, pc>>

ReplanSucceeded ==
  /\ navigation_state_ = "EXE_PATH"
  /\ ReplanDone
  /\ path' = client["get_path"].to
  /\ GoTo("get_path", At("runExePath", "next"))
  /\ UNCHANGED <<navigation_state_, recovery_trigger_, goalVars,
                 current_recovery_behavior_, current_replanning_tries_,
                 done_cb, waypoint>>

\* Variant: one attempt too many.
TriesExceeded_OneMore == current_replanning_tries_ > MaxReplanningTries + 1

TriesExceeded == current_replanning_tries_ > MaxReplanningTries

\* The exe_path goal of the last path is left running.
ReplanAborted ==
  /\ navigation_state_ = "EXE_PATH"
  /\ ReplanDone
  /\ current_replanning_tries_' = current_replanning_tries_ + 1
  /\ \/ /\ TriesExceeded
        /\ AttemptRecovery("get_path", "GET_PATH")
     \/ /\ ~TriesExceeded
        /\ GoTo("get_path", At("sleep", "next"))
        /\ UNCHANGED <<navigation_state_, waypoint>>
  /\ UNCHANGED <<recovery_trigger_, goalVars, current_recovery_behavior_,
                 done_cb, path>>

ReplanOther ==
  /\ \/ Preempted("get_path")
     \/ Recalled("get_path")
     \/ Rejected("get_path")
     \/ Lost("get_path")
  /\ navigation_state_ = "EXE_PATH"
  /\ ReplanDone
  /\ GoTo("get_path", At("sleep", "next"))
  /\ UNCHANGED <<navigation_state_, recovery_trigger_, goalVars,
                 current_recovery_behavior_, current_replanning_tries_,
                 done_cb, path, waypoint>>

\* Variant: replanning goes on in the state of the first plan.
StillExecuting_WrongState(k) == navigation_state_ = "GET_PATH"

\* replanning_mtx_ is held while asleep, on this thread only, so it never
\* blocks.  Only the first handler also asks whether get_path is done.
StillExecuting(k) ==
  /\ navigation_state_ = "EXE_PATH"
  /\ k = "first" => ~Live("get_path")

WakeUp(k) ==
  /\ pc["get_path"] = At("sleep", k)
  /\ GoTo("get_path", IF StillExecuting(k) THEN At("replan", "-") ELSE Idle)
  /\ UNCHANGED <<navigation_state_, recovery_trigger_, goalVars,
                 current_recovery_behavior_, current_replanning_tries_, client,
                 done_cb, path, waypoint>>

Replan ==
  /\ pc["get_path"] = At("replan", "-")
  /\ SendGoal("get_path", goal_handle_)
  /\ done_cb' = "actionGetPathReplanningDone"
  /\ GoTo("get_path", Idle)
  /\ UNCHANGED <<navigation_state_, recovery_trigger_, goalVars,
                 current_recovery_behavior_, current_replanning_tries_, path,
                 waypoint>>

GetPathThread ==
  \/ PlanSucceeded
  \/ PlanAborted
  \/ Preempted("get_path") /\ PlanGaveUp("PREEMPTED", "CANCELED")
  \/ Lost("get_path") /\ PlanGaveUp("ABORTED", "FAILED")
  \/ PlanOther
  \/ \E k \in Cycles :
       RunExePath(k) \/ RunExePathBlocked(k) \/ SendPath(k) \/ WakeUp(k)
  \/ ReplanIgnored
  \/ ReplanSucceeded
  \/ ReplanAborted
  \/ ReplanOther
  \/ Replan
  \/ EnterRecovery("get_path", "GET_PATH")
  \/ SendRecovery("get_path", "GET_PATH")
  \/ SetTrigger("get_path", "GET_PATH")

-----------------------------------------------------------------------------
(* The exe_path thread: actionExePathDone and the oscillation check.       *)

\* Whatever waypoint goal_handle_ refers to by now succeeds.
ExeSucceeded ==
  /\ Ended("exe_path")
  /\ Finish("exe_path")
  /\ waypoint' = Report("SUCCEEDED")
  /\ navigation_state_' = "SUCCEEDED"
  /\ UNCHANGED <<recovery_trigger_, goalVars, current_recovery_behavior_,
                 current_replanning_tries_, done_cb, path, pc>>

\* The goal is aborted, the state is not changed.
ExeUnrecoverable ==
  /\ "unrecoverable" \in Events
  /\ Ended("exe_path")
  /\ Finish("exe_path")
  /\ waypoint' = Report("ABORTED")
  /\ UNCHANGED <<navigation_state_, recovery_trigger_, goalVars,
                 current_recovery_behavior_, current_replanning_tries_,
                 done_cb, path, pc>>

ExeAborted ==
  /\ Ended("exe_path")
  /\ Finish("exe_path")
  /\ AttemptRecovery("exe_path", "EXE_PATH")
  /\ UNCHANGED <<recovery_trigger_, goalVars, current_recovery_behavior_,
                 current_replanning_tries_, done_cb, path>>

ExePreempted ==
  /\ Preempted("exe_path")
  /\ Finish("exe_path")
  /\ UNCHANGED <<navigation_state_, recovery_trigger_, goalVars,
                 current_recovery_behavior_, current_replanning_tries_,
                 done_cb, path, waypoint, pc>>

ExeOther ==
  /\ Rejected("exe_path") \/ Recalled("exe_path") \/ Lost("exe_path")
  /\ Finish("exe_path")
  /\ navigation_state_' = "FAILED"
  /\ UNCHANGED <<recovery_trigger_, goalVars, current_recovery_behavior_,
                 current_replanning_tries_, done_cb, path, waypoint, pc>>

\* checkForOscillation on feedback from far enough away.
Moved ==
  /\ pc["exe_path"] = Idle
  /\ Live("exe_path")
  /\ recovery_trigger_ = "OSCILLATING"
  /\ current_recovery_behavior_' = 0
  /\ recovery_trigger_' = "NONE"
  /\ UNCHANGED <<navigation_state_, goalVars, current_replanning_tries_,
                 client, done_cb, path, waypoint, pc>>

\* checkForOscillation when the robot stayed put for oscillation_timeout_.
\* last_oscillation_reset_ stays, so the next feedback may do this again.
Stuck ==
  /\ "stuck" \in Events
  /\ pc["exe_path"] = Idle
  /\ Live("exe_path")
  /\ client' = [client EXCEPT !["exe_path"] = Cancelled(@)]
  /\ AttemptRecovery("exe_path", "OSCILLATING")
  /\ UNCHANGED <<recovery_trigger_, goalVars, current_recovery_behavior_,
                 current_replanning_tries_, done_cb, path>>

Feedback == Moved \/ Stuck

ExePathThread ==
  \/ ExeSucceeded
  \/ ExeUnrecoverable
  \/ ExeAborted
  \/ ExePreempted
  \/ ExeOther
  \/ Feedback
  \/ \E cause \in {"EXE_PATH", "OSCILLATING"} :
       \/ EnterRecovery("exe_path", cause)
       \/ SendRecovery("exe_path", cause)
       \/ SetTrigger("exe_path", cause)

-----------------------------------------------------------------------------
(* The recovery thread: actionRecoveryDone and runNextRecoveryBehavior.    *)

\* Variant: the iterator stays where it is.
NextBehavior_NotAdvanced == current_recovery_behavior_

\* current_recovery_behavior_++: one value stands for all those past end().
NextBehavior ==
  IF current_recovery_behavior_ > recovery_behaviors_
  THEN current_recovery_behavior_
  ELSE current_recovery_behavior_ + 1

RecoverySucceeded ==
  /\ Ended("recovery")
  /\ Finish("recovery")
  /\ current_recovery_behavior_' = NextBehavior
  /\ navigation_state_' = "GET_PATH"
  /\ GoTo("recovery", At("sendPlan", "-"))
  /\ UNCHANGED <<recovery_trigger_, goalVars, current_replanning_tries_,
                 done_cb, path, waypoint>>

\* Variant: the last failure reports but does not change the state.
RunNextRecoveryBehavior_KeepsState ==
  /\ current_recovery_behavior_' = NextBehavior
  /\ IF NextBehavior = recovery_behaviors_
     THEN Finish("recovery") /\ waypoint' = Report("ABORTED")
     ELSE SendGoal("recovery", NoWaypoint) /\ UNCHANGED waypoint
  /\ UNCHANGED <<navigation_state_, recovery_trigger_, goalVars,
                 current_replanning_tries_, done_cb, path, pc>>

\* The next behavior leaves the state as it is: RECOVERY, unless cancelled.
RunNextRecoveryBehavior ==
  /\ current_recovery_behavior_' = NextBehavior
  /\ \/ /\ NextBehavior = recovery_behaviors_
        /\ Finish("recovery")
        /\ waypoint' = Report("ABORTED")
        /\ navigation_state_' = "FAILED"
     \/ /\ NextBehavior # recovery_behaviors_
        /\ SendGoal("recovery", NoWaypoint)
        /\ UNCHANGED <<navigation_state_, waypoint>>
  /\ UNCHANGED <<recovery_trigger_, goalVars, current_replanning_tries_,
                 done_cb, path, pc>>

\* Aborted or preempted: on a cancel, too, the next behavior runs.
RecoveryFailed ==
  /\ Ended("recovery")
  /\ RunNextRecoveryBehavior

\* A rejected behavior is followed by the next one, in state FAILED.
RecoveryRejected ==
  /\ Rejected("recovery")
  /\ current_recovery_behavior_' = NextBehavior
  /\ \/ /\ NextBehavior = recovery_behaviors_
        /\ Finish("recovery")
        /\ waypoint' = Report("ABORTED")
     \/ /\ NextBehavior # recovery_behaviors_
        /\ SendGoal("recovery", NoWaypoint)
        /\ UNCHANGED waypoint
  /\ navigation_state_' = "FAILED"
  /\ UNCHANGED <<recovery_trigger_, goalVars, current_replanning_tries_,
                 done_cb, path, pc>>

RecoveryRecalled ==
  /\ Recalled("recovery")
  /\ Finish("recovery")
  /\ UNCHANGED <<navigation_state_, recovery_trigger_, goalVars,
                 current_recovery_behavior_, current_replanning_tries_,
                 done_cb, path, waypoint, pc>>

RecoveryLost ==
  /\ Lost("recovery")
  /\ Finish("recovery")
  /\ waypoint' = Report("ABORTED")
  /\ navigation_state_' = "FAILED"
  /\ UNCHANGED <<recovery_trigger_, goalVars, current_recovery_behavior_,
                 current_replanning_tries_, done_cb, path, pc>>

RecoveryThread ==
  \/ RecoverySucceeded
  \/ RecoveryFailed
  \/ RecoveryRejected
  \/ RecoveryRecalled
  \/ RecoveryLost
  \/ SendPlan("recovery")

-----------------------------------------------------------------------------
\* What a thread has just tested or set no longer holds, and it goes on as if it
\* did: it sends a recovery behavior although the list has come to its end,
\* replans although no path is executed (the comment at navigation_server.cpp:248
\* says that it does not), or cancels goals in another state.
Overtaken(t) ==
  \/ pc[t][1] \in {"attempt", "sendRecovery"} /\ ~RecoveryLeft
  \/ pc[t][1] = "replan" /\ navigation_state_ # "EXE_PATH"
  \/ pc[t][1] = "cancelling" /\ navigation_state_ # "CANCELED"

Next ==
  /\ \/ MainThread
     \/ GetPathThread
     \/ ExePathThread
     \/ RecoveryThread
     \/ \E c \in Clients : Activate(c)
  /\ overtaken' = (overtaken \/ \E t \in Threads : Overtaken(t)')

Spec == Init /\ [][Next]_vars

\* The threads run and move_base_flex ends every goal it was given.
Fairness ==
  /\ WF_members(Connected \/ SendPlan("main") \/ CancelGoals)
  /\ WF_members(GetPathThread)
  /\ WF_members(ExePathThread /\ ~Feedback)
  /\ WF_members(RecoveryThread)

\* A waypoint that the controller keeps trying for is reached in the end.
Reachable == SF_members(ExeSucceeded)

FairSpec == Spec /\ Fairness /\ Reachable

-----------------------------------------------------------------------------
MainPlaces     == {Idle, At("connecting", "-"), At("sendPlan", "-"),
                   At("cancelling", "-")}
GetPathPlaces  == {Idle, At("replan", "-"), At("attempt", "GET_PATH"),
                   At("sendRecovery", "GET_PATH"), At("trigger", "GET_PATH"),
                   At("runExePath", "first"), At("runExePath", "next"),
                   At("sendPath", "first"), At("sendPath", "next"),
                   At("sleep", "first"), At("sleep", "next")}
ExePathPlaces  == {Idle, At("attempt", "EXE_PATH"),
                   At("sendRecovery", "EXE_PATH"), At("trigger", "EXE_PATH"),
                   At("attempt", "OSCILLATING"),
                   At("sendRecovery", "OSCILLATING"),
                   At("trigger", "OSCILLATING")}
RecoveryPlaces == {Idle, At("sendPlan", "-")}
AllPlaces == MainPlaces \union GetPathPlaces \union ExePathPlaces

(* Every member keeps its type: the iterator stays within the list, its    *)
(* end or just past it, and a thread is at a place of its own handlers.    *)
TypeOK ==
  /\ navigation_state_ \in NavigationState
  /\ recovery_trigger_ \in {"NONE", "GET_PATH", "EXE_PATH", "OSCILLATING"}
  /\ goal_handle_ \in Waypoints \union {NoWaypoint}
  /\ recovery_behaviors_ \in 0..MaxBehaviors
  /\ current_recovery_behavior_ \in 0..MaxBehaviors + 1
  /\ current_replanning_tries_ \in -1..MaxReplanningTries + 2
  /\ client \in [Clients -> ClientGoal]
  /\ done_cb \in {"actionGetPathDone", "actionGetPathReplanningDone"}
  /\ path \in Waypoints \union {NoWaypoint}
  /\ waypoint \in [Waypoints -> Status]
  /\ pc \in [Threads -> AllPlaces]
  /\ pc["main"] \in MainPlaces
  /\ pc["get_path"] \in GetPathPlaces
  /\ pc["exe_path"] \in ExePathPlaces
  /\ pc["recovery"] \in RecoveryPlaces

-----------------------------------------------------------------------------
(* Properties.                                                             *)

\* The get_path thread will look at the state again before it goes idle.
PlannerBusy == Live("get_path") \/ pc["get_path"] # Idle

(* While a path is executed replanning never dies out: a get_path goal is  *)
(* under way or the get_path thread is on its way to send one, whichever   *)
(* threads interleave with the two replanning handlers.                    *)
ReplanningKeepsGoing == navigation_state_ = "EXE_PATH" => PlannerBusy

\* The get_path thread is replanning, or will be when its goal ends.
Replanning ==
  \/ Live("get_path") /\ done_cb = "actionGetPathReplanningDone"
  \/ pc["get_path"] \in {At("sleep", "first"), At("replan", "-"),
                         At("runExePath", "next"), At("sendPath", "next"),
                         At("sleep", "next")}

\* One failed attempt more than MaxReplanningTries is the last in EXE_PATH.
Counted == current_replanning_tries_ \in 0..MaxReplanningTries + 1

(* The member current_replanning_tries_ has no initializer and is reset by *)
(* one handler and read by the other: it is never read before it is set,   *)
(* and no more than MaxReplanningTries + 2 attempts in a row fail.         *)
ReplanningTriesBounded == Replanning => Counted

\* A thread is between attemptRecovery's end-of-list test and the goal it sends.
Attempting ==
  \/ pc["get_path"] = At("attempt", "GET_PATH")
  \/ pc["exe_path"] \in {At("attempt", "EXE_PATH"), At("attempt", "OSCILLATING")}

(* The iterator can be dereferenced wherever the code does: while a        *)
(* recovery goal is under way, whose callback logs and advances it, and    *)
(* when attemptRecovery is about to send one; whichever threads            *)
(* interleave, until one of them has overtaken another.                    *)
RecoveryIteratorValid ==
  ~overtaken /\ (Live("recovery") \/ Attempting)
  => current_recovery_behavior_ < recovery_behaviors_

\* A thread holds a waypoint that it will plan for.
PlanOnItsWay ==
  \/ pc["main"] = At("connecting", "-")
  \/ \E t \in {"main", "recovery"} : pc[t] = At("sendPlan", "-")

\* What the state GET_PATH waits for: a plan is awaited by the handler that uses
\* it, or the waypoint is over.
PlanAwaited ==
  \/ Live("get_path") /\ done_cb = "actionGetPathDone"
  \/ PlanOnItsWay
  \/ pc["get_path"][1] \in {"runExePath", "sendPath", "attempt"}
  \/ waypoint[goal_handle_] \in Terminal

RecoveryAwaited ==
  Live("recovery") \/ \E t \in Threads : pc[t][1] = "sendRecovery"

(* A state of the machine that waits for a result is one where a result    *)
(* will come, whichever threads interleave, until one of them has          *)
(* overtaken another.                                                      *)
WaitsForSomething ==
  ~overtaken =>
    /\ navigation_state_ = "GET_PATH" => PlanAwaited
    /\ navigation_state_ = "RECOVERY" => RecoveryAwaited

(* Every waypoint the server accepts is finished: it succeeds, is aborted  *)
(* or is canceled, and the client that waits for it goes on; unless one    *)
(* thread has overtaken another.                                           *)
EveryWaypointFinishes ==
  \A w \in Waypoints :
    waypoint[w] \in Running ~> waypoint[w] \in Terminal \/ overtaken

(* Doc: a get_path result other than success, abort or preemption aborts   *)
(* the goal.  So a waypoint is never left running in state FAILED.         *)
FailedMeansReported ==
  navigation_state_ = "FAILED" => waypoint[goal_handle_] \notin Running

(* Comment: an unrecoverable error of exe_path ends the waypoint.  So no   *)
(* path goes to exe_path for a waypoint that has been aborted.             *)
NoPathForAbortedWaypoint ==
  pc["get_path"][1] = "sendPath" => waypoint[path] # "ABORTED"

(* Doc: success is reported when exe_path succeeds.  So a waypoint only    *)
(* succeeds when exe_path was following a path to that waypoint.           *)
SucceedsWhereItDrove ==
  [][\A w \in Waypoints :
       waypoint[w] # "SUCCEEDED" /\ waypoint'[w] = "SUCCEEDED"
       => client["exe_path"].to = w]_vars

=============================================================================
