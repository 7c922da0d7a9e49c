-------------------------- MODULE NavigationClient --------------------------
(***************************************************************************)
(* The navigation client (igvc_navigation/src/navigation_client): it sends *)
(* the waypoints of a file to the navigation server one after the other,   *)
(* or those that a user sets in RViz.  The node has one thread, which      *)
(* handles no callback before its constructor has sent the whole file.     *)
(*                                                                         *)
(* A line of the file is a comment or a sequence of tokens.  A token is in *)
(* decimal degrees, or in degrees, minutes and seconds with a direction:   *)
(* all are numbers of seconds here.                                        *)
(***************************************************************************)
EXTENDS Integers, Sequences, FiniteSets

CONSTANTS
  WaypointFiles,               \* what the file may be: a sequence of lines, or
  Unreadable,                  \* not to be opened
  RvizPoses,                   \* what a user may set
  Transforms,                  \* bound: the transforms from utm to odom over time
  MaxRviz                      \* bound: poses set in RViz

Tokens == [dms : BOOLEAN, numbers : Seq(Int), apostrophe : BOOLEAN, direction : STRING]
Lines == [comment : BOOLEAN, tokens : Seq(Tokens)]

ASSUME ClientAssumption ==
  /\ \A f \in WaypointFiles : f \in Seq(Lines)
  /\ Unreadable \notin WaypointFiles
  /\ Transforms \subseteq Nat

VARIABLES
  reading_from_file_,
  file,                        \* its lines, or Unreadable
  client,                      \* what the node's thread does
  read,                        \* lines it has read
  coordinates,                 \* those of the lines it has read
  waypoints,                   \* those it has converted
  sent,                        \* those it has sent, or tried to
  rviz,                        \* the subscriber's queue, of one message
  ok,                          \* no shutdown yet
  transform,                   \* from utm to odom, as tf has it now
  delivered,                   \* the goals that reached the server
  active,                      \* it has not ended the last one
  overtaken,                   \* goals that were active when the next came
  poses                        \* set in RViz so far

loaderVars == <<read, coordinates, waypoints>>
goalVars == <<delivered, active, overtaken>>
aroundVars == <<reading_from_file_, file, rviz, transform, poses>>
clientVars == <<client, ok, sent, loaderVars, goalVars, aroundVars>>

-----------------------------------------------------------------------------
(* The parser. *)

\* stod throws where it finds no number.  Without an apostrophe find returns npos,
\* and the seconds are read from the beginning of the token: the degrees.
HasNumbers(t) == Len(t.numbers) = IF ~t.dms THEN 1 ELSE IF t.apostrophe THEN 3 ELSE 2

convertDmsToDec(t) ==
  LET degrees == t.numbers[1] * 3600 + t.numbers[2] * 60
                   + (IF t.apostrophe THEN t.numbers[3] ELSE t.numbers[1])
  IN  IF t.direction \in {"W", "S"} THEN -degrees ELSE degrees

Coordinate(t) == IF t.dms THEN convertDmsToDec(t) ELSE t.numbers[1]

IsPoint(line) == ~line.comment /\ line.tokens # <<>>
TwoTokens(line) == Len(line.tokens) = 2
CanBeRead(line) == \A i \in 1..2 : HasNumbers(line.tokens[i])
PointOf(line) == <<Coordinate(line.tokens[1]), Coordinate(line.tokens[2])>>

\* The point that the listener's transform of this moment makes in odom.
convertLatLongToOdom(lat_long) == [at |-> lat_long, by |-> transform]

-----------------------------------------------------------------------------
(* The constructor. *)

waitForTransform ==
  /\ client = "transform"
  /\ client' = "server"
  /\ UNCHANGED <<ok, sent, loaderVars, goalVars, aroundVars>>

waitForServer ==
  /\ client = "server"
  /\ client' = IF reading_from_file_ THEN "loading" ELSE "spinning"
  /\ UNCHANGED <<ok, sent, loaderVars, goalVars, aroundVars>>

\* The file is opened, or there is nothing to load.
loadWaypointsFromFile ==
  /\ client = "loading"
  /\ IF file = Unreadable THEN client' = "converting" /\ ok' = FALSE
     ELSE client' = "parsing" /\ UNCHANGED ok
  /\ UNCHANGED <<sent, loaderVars, goalVars, aroundVars>>

\* A line of too few or too many tokens: the node shuts down with no points.
BadLine ==
  /\ coordinates' = <<>> /\ client' = "converting" /\ ok' = FALSE

\* One iteration of the loop over the lines.  An exception of stod is caught by
\* nobody and ends the node.
parseWaypointFile ==
  /\ client = "parsing" /\ read < Len(file)
  /\ read' = read + 1
  /\ LET line == file[read + 1]
     IN  \/ /\ ~IsPoint(line)
            /\ UNCHANGED <<client, coordinates, ok>>
         \/ IsPoint(line) /\ ~TwoTokens(line) /\ BadLine
         \/ /\ IsPoint(line) /\ TwoTokens(line) /\ ~CanBeRead(line)
            /\ client' = "ended"
            /\ UNCHANGED <<coordinates, ok>>
         \/ /\ IsPoint(line) /\ TwoTokens(line) /\ CanBeRead(line)
            /\ coordinates' = Append(coordinates, PointOf(line))
            /\ UNCHANGED <<client, ok>>
  /\ UNCHANGED <<sent, waypoints, goalVars, aroundVars>>

EndOfFile ==
  /\ client = "parsing" /\ read = Len(file)
  /\ client' = "converting"
  /\ UNCHANGED <<ok, sent, loaderVars, goalVars, aroundVars>>

\* All points are converted before the first is sent; the listener has a thread
\* of its own, so the transform may change between two of them.
ConvertWaypoint ==
  /\ client = "converting" /\ Len(waypoints) < Len(coordinates)
  /\ waypoints' = Append(waypoints, convertLatLongToOdom(coordinates[Len(waypoints) + 1]))
  /\ UNCHANGED <<client, ok, sent, read, coordinates, goalVars, aroundVars>>

Loaded ==
  /\ client = "converting" /\ Len(waypoints) = Len(coordinates)
  /\ client' = "sending"
  /\ UNCHANGED <<ok, sent, loaderVars, goalVars, aroundVars>>

\* A goal that is sent after a shutdown reaches nobody.  A goal that is sent while
\* another is active takes its place.
sendGoal(goal) ==
  /\ delivered' = IF ok THEN Append(delivered, goal) ELSE delivered
  /\ active' = (active \/ ok)
  /\ overtaken' = IF ok /\ active THEN overtaken + 1 ELSE overtaken

\* Variant: the loop does not wait.
sendWaypoints_NoWait ==
  /\ client = "sending" /\ sent < Len(waypoints)
  /\ sendGoal([pose |-> waypoints[sent + 1], fix_goal_orientation |-> TRUE])
  /\ sent' = sent + 1
  /\ UNCHANGED <<client, ok, loaderVars, aroundVars>>
sendWaypoints ==
  /\ client = "sending" /\ sent < Len(waypoints)
  /\ sendGoal([pose |-> waypoints[sent + 1], fix_goal_orientation |-> TRUE])
  /\ sent' = sent + 1
  /\ client' = "waiting"
  /\ UNCHANGED <<ok, loaderVars, aroundVars>>

\* sendGoalAndWait returns when the goal has ended, however it did, or at a shutdown.
GoalEnded ==
  /\ client = "waiting" /\ (~active \/ ~ok)
  /\ client' = "sending"
  /\ UNCHANGED <<ok, sent, loaderVars, goalVars, aroundVars>>

Constructed ==
  /\ client = "sending" /\ sent = Len(waypoints)
  /\ client' = "spinning"
  /\ UNCHANGED <<ok, sent, loaderVars, goalVars, aroundVars>>

-----------------------------------------------------------------------------
(* The callback, and what happens around the node. *)

rvizWaypointCallback ==
  /\ client = "spinning" /\ ok /\ rviz # <<>>
  /\ rviz' = <<>>
  /\ IF reading_from_file_ THEN UNCHANGED goalVars
     ELSE sendGoal([pose |-> rviz[1], fix_goal_orientation |-> FALSE])
  /\ UNCHANGED <<client, ok, sent, loaderVars, reading_from_file_, file, transform, poses>>

SpinEnds ==
  /\ client = "spinning" /\ ~ok
  /\ client' = "ended"
  /\ UNCHANGED <<ok, sent, loaderVars, goalVars, aroundVars>>

RvizPose ==
  /\ poses < MaxRviz /\ poses' = poses + 1
  /\ \E pose \in RvizPoses : rviz' = <<pose>>
  /\ UNCHANGED <<client, ok, sent, loaderVars, goalVars, reading_from_file_, file, transform>>

ServerEndsGoal ==
  /\ active /\ active' = FALSE
  /\ UNCHANGED <<client, ok, sent, loaderVars, delivered, overtaken, aroundVars>>

Localized ==
  /\ \E t \in Transforms : t > transform /\ transform' = t
  /\ UNCHANGED <<client, ok, sent, loaderVars, goalVars, reading_from_file_, file, rviz, poses>>

Shutdown ==
  /\ ok /\ ok' = FALSE
  /\ UNCHANGED <<client, sent, loaderVars, goalVars, aroundVars>>

ClientInit ==
  /\ reading_from_file_ \in BOOLEAN
  /\ file \in IF reading_from_file_ THEN WaypointFiles \cup {Unreadable} ELSE {<<>>}
  /\ client = "transform" /\ ok = TRUE /\ sent = 0
  /\ read = 0 /\ coordinates = <<>> /\ waypoints = <<>>
  /\ delivered = <<>> /\ active = FALSE /\ overtaken = 0
  /\ rviz = <<>> /\ poses = 0
  /\ transform \in Transforms /\ \A t \in Transforms : transform <= t

ClientNext ==
  \/ waitForTransform \/ waitForServer \/ loadWaypointsFromFile \/ parseWaypointFile
  \/ EndOfFile \/ ConvertWaypoint \/ Loaded \/ sendWaypoints \/ GoalEnded \/ Constructed
  \/ rvizWaypointCallback \/ SpinEnds
  \/ RvizPose \/ ServerEndsGoal \/ Localized \/ Shutdown

ClientSpec == ClientInit /\ [][ClientNext]_clientVars

-----------------------------------------------------------------------------
\* The angle that a token of degrees, minutes and seconds stands for.
Angle(t) ==
  LET size == t.numbers[1] * 3600 + t.numbers[2] * 60 + t.numbers[3]
  IN  CASE ~t.dms -> t.numbers[1]
        [] t.dms /\ t.direction \in {"N", "E"} -> size
        [] OTHER -> -size
WellFormed(t) == t.dms => t.apostrophe /\ t.direction \in {"N", "S", "E", "W"}

\* The lines up to the n-th that hold points.
Points(lines, n) == {k \in 1..n : IsPoint(lines[k])}

\* From a file, the server gets the points of its lines, in their order, each
\* after the one before has ended and none by an older transform than the one
\* before; it gets nothing at all if a line is malformed, even if good ones come
\* before it, and nothing that was set in RViz; and unless the node is shut down it
\* has got all of them when the constructor returns.
GoalsFollowFile ==
  reading_from_file_ =>
    IF file = Unreadable THEN delivered = <<>>
    ELSE /\ overtaken = 0
         /\ delivered # <<>> => \A n \in Points(file, Len(file)) : TwoTokens(file[n]) /\ CanBeRead(file[n])
         /\ \A i \in DOMAIN delivered : \E n \in Points(file, Len(file)) :
              /\ Cardinality(Points(file, n)) = i
              /\ \A j \in 1..2 : WellFormed(file[n].tokens[j]) =>
                   delivered[i].pose.at[j] = Angle(file[n].tokens[j])
         /\ \A i, j \in DOMAIN delivered : i < j => delivered[i].pose.by <= delivered[j].pose.by
         /\ client = "spinning" /\ ok => Len(delivered) = Cardinality(Points(file, Len(file)))
=============================================================================
