-------------------------- MODULE MCNavigationServer --------------------------
(***************************************************************************)
(* Instances of NavigationServer for TLC.                                  *)
(***************************************************************************)
EXTENDS NavigationServer, TLC

\* The waypoints are interchangeable to the server.
WaypointSymmetry == Permutations(Waypoints)

\* A waypoint file driven without outside interference: one goal at a time,
\* servers that may be missing at first, but take every goal and end it, and a
\* robot that may get stuck.
FileEvents == {"stuck", "disconnected", "unrecoverable"}

\* What disturbs the handlers of a waypoint from outside: the client, which
\* cancels it or sends another, and servers that give no plan, path or behavior.
ThreadEvents == {"cancel", "supersede", "REJECTED", "LOST", "unrecoverable"}

\* What the actions and the invariants of a run can tell apart.  Where a plan
\* or a path leads, and how a waypoint ended, is recorded for the action property
\* SucceedsWhereItDrove and for NoPathForAbortedWaypoint only: no action reads
\* it but to pass it on.
ControlState ==
  <<navigation_state_, recovery_trigger_, goalVars, current_recovery_behavior_,
    current_replanning_tries_, done_cb, pc, overtaken,
    [c \in Clients |-> <<client[c].phase, client[c].cancel>>],
    [w \in Waypoints |-> IF waypoint[w] \in Terminal THEN "over" ELSE waypoint[w]]>>

=============================================================================
