# Formal models of the IGVC robot software

This directory holds TLA+ models of the robot's ROS nodes, the TLC
configurations that model-check them on small instances, and theorems about
them that TLAPS checks for every value of the constants. `PROJECT.json` lists
components, runs, properties, hazards and theorems, and maps every definition
to the source lines it stands for. Paths below are relative to the repository.

## The system

The software is a set of ROS nodes that exchange messages over topics and
actions. A node runs its callbacks on one thread (`ros::spin`) unless it
creates more; an action client that is asked to spin creates one of its own.

| Part | State | Operations | Talks to | What is hard |
| --- | --- | --- | --- | --- |
| Navigation server (`igvc_navigation/src/navigation_server`) | state machine, goal handle, recovery list and iterator, replanning counter | `start`, `cancel`, the done callbacks of three action clients, the oscillation check | waypoint client, move_base_flex (`get_path`, `exe_path`, `recovery`) | four threads share the members without a lock; handlers sleep and wait |
| Simple action client (`simple_action_client.h`) | goal handle, simple state, callbacks, condition variable | `sendGoal`, `cancelGoal`, `waitForResult`, `handleTransition` | navigation server and client, action library | caller and spin thread |
| Navigation client (`navigation_client`) | waypoint list | read the file, send the waypoints in order, RViz goals | navigation server | blocking calls, results ignored, parsing that fails in the middle |
| Back-up recovery (`back_up_recovery`) | position, result of the last obstacle check | back up until far enough or blocked, stop | `/cmd_vel`, costmap | must stop, through queues that drop messages |
| Costmap layers (`mapper`) | grid maps, dirty window | sensor callbacks, `updateBounds`, `updateCosts` | costmap of move_base_flex | callbacks and update thread share the dirty window; index arithmetic |
| Graph search (`GraphSearch`) | graph, priority queue | neighbours, costs, queue operations | no program of the repository links it | boundary cells, distances turned into cells, the order of the queue |
| State estimator (`state_estimator`) | two queues, factor keys, last optimised state, window of IMU messages | `imuCallback`, `gpsCallback`, `optimizationLoop` | IMU, GPS | two threads, blocking queue, message times |
| Wheel odometer (`wheel_odometer`) | pose | dead reckoning per encoder message | motor controller | real arithmetic |
| Differential drive, joystick driver | limits, one of them a parameter that changes | convert a command to wheel speeds, limit them | motor controller via `/motors` | two publishers on one topic |
| Message codec (vendored nanopb) | none between calls | encode and decode requests and responses | motor controller, board | bytes that are cut, reordered or unknown; widths of integers |
| Motor controller (`igvc_platform/src/motor_controller`) and Ethernet socket | last command, battery average, socket | PID handshake, request, response | the mbed board over TCP | blocking reads, partial reads, closed connection, no watchdog |
| IMU driver (`igvc_platform/src/imu`) | serial port | configure, stream, parse | state estimator | incomplete messages |
| Perception, simulation, RViz, statistics | little or none | one message in, one out | each other | numerical code |

For each part, what makes it correct:

* navigation server: replanning goes on for as long as a path is executed and
  stops when it is not; a wait in the state machine is for a result that will
  come; the recovery iterator is only dereferenced inside the list; every
  waypoint is finished and reported once, as what happened to it;
* action client: one done callback for a goal, with that goal's state; a wait
  ends when the goal does;
* waypoint client: waypoints in the order of the file, one at a time;
* costmap layers: a touched cell reaches the master costmap; no index outside
  either map;
* graph search: neighbours are on the grid and connected, the queue returns
  the smallest key and one entry for a node;
* state estimator: every measurement is integrated once between two keys, the
  optimiser never blocks on a message that will not come, every usable fix is
  used;
* motor controller: no speed before the gains are confirmed, one request
  outstanding, the last command reaches the board, and it stops without one;
* back-up recovery and wheels: the robot stands when the recovery has ended;
  wheel speeds stay within their limits and keep the curve;
* message codec: what is decoded is what was encoded, or an error;
* IMU driver: only values of one message are published together, and the driver
  finds back into step.

## Modules

| Module | What it holds |
| --- | --- |
| `NavigationServer` | the navigation server at thread granularity, its environment, properties |
| `MCNavigationServer` | event sets and symmetry for TLC |
| `NavigationServerProofs` | theorems and proofs |
| `MotorController` | the motor controller, its socket, the board and the command topic, properties |
| `MCMotorController` | values for TLC |
| `MotorControllerProofs` | theorems and proofs |
| `StateEstimator` | both threads of the state estimator, the sensors, properties |
| `MCStateEstimator` | the instance for TLC |
| `StateEstimatorProofs` | theorems and proofs |
| `SimpleActionClient` | the client's members, its two threads, the library's goal handles, properties |
| `ActionGoals` | what such a client promises: the abstract specification |
| `MCSimpleActionClient` | the instance for TLC |
| `SimpleActionClientProofs` | theorems and proofs |
| `Costmaps` | the traversability and line layers of the global costmap and the thread that updates it |
| `LocalCostmap` | the rolling layer, and the index arithmetic of the unrolling layer |
| `CostmapsProofs` | theorems and proofs about both |
| `CostValues` | the cost values of costmap_2d, and the smaller and larger of two numbers |
| `NavigationClient` | the waypoint file, its parser, and the node that sends the waypoints |
| `Driving` | the back-up recovery, the differential drive and the joystick driver |
| `YostLabDriver` | the IMU's settings and its stream |
| `DevicesProofs` | theorems and proofs about `Driving`, `NavigationClient` and `YostLabDriver` |
| `GraphSearch` | the grid, its costs, and the priority queue |
| `GraphSearchProofs` | theorems and proofs |
| `Nanopb` | the encoder and decoder of the messages to and from the board, as operators |
| `Codec` | a message, its bytes and what may become of them on the way, properties |
| `CodecProofs` | theorems and proofs about `Codec` and `Nanopb` |
| `MCComponents` | the instance for TLC of seven modules: `Costmaps`, `LocalCostmap`, `NavigationClient`, `Driving`, `YostLabDriver`, `GraphSearch` and `Codec` |

### NavigationServer

The variables carry the names of the class's members. `client[c]` is the goal
that action client `c` tracks: its phase as `getState()` reports it, whether it
was asked to cancel, and the waypoint that a plan or path leads to.
`done_cb` is the callback that the current `get_path` goal was sent with.
`recovery_behaviors_` is the length of the list (its elements are only names
to this node) and `current_recovery_behavior_` the iterator as an index, with
the length for `end()` and one more value for everything past it.
`current_replanning_tries_` starts at -1, which stands for the value of an
uninitialised member. `waypoint` is the status of the goals at the action
server, whose `setSucceeded`, `setAborted` and `setCanceled` have no effect
once a goal is terminal. `pc[t]` says where thread `t` is inside a handler.

A handler is one action up to the point where it blocks or where another
thread can come between what it read and what it does with it:

| Code | Actions |
| --- | --- |
| `start` | `Start`, `Connected` or `ConnectionTimeout`, `SendPlan("main")` |
| `cancel` | `Cancel`, `CancelGoals` |
| `actionGetPathDone` | `PlanSucceeded` with `RunExePath`, `SendPath`, `WakeUp`, `Replan`; `PlanAborted`, `PlanGaveUp`, `PlanOther` |
| `actionGetPathReplanningDone` | `ReplanIgnored`, `ReplanSucceeded`, `ReplanAborted`, `ReplanOther`, `WakeUp`, `Replan` |
| `runExePath` | `RunExePath` or `RunExePathBlocked`, `SendPath` |
| `actionExePathDone` | `ExeSucceeded`, `ExeUnrecoverable`, `ExeAborted`, `ExePreempted`, `ExeOther` |
| `checkForOscillation` | `Moved`, `Stuck` |
| `attemptRecovery` | `AttemptRecovery`, `EnterRecovery`, `SendRecovery`, `SetTrigger` |
| `actionRecoveryDone`, `runNextRecoveryBehavior` | `RecoverySucceeded` with `SendPlan("recovery")`, `RecoveryFailed`, `RecoveryRejected`, `RecoveryRecalled`, `RecoveryLost` |

Any thread may take a step while another is anywhere in a handler. Where a
thread has tested the state and another changes it before the first goes on, the
code does what no property survives: it sends a recovery behavior although the
list has come to its end, replans although no path is executed, or cancels goals in
a state other than CANCELED. `Overtaken(t)` names these three, and the history
`overtaken` is TRUE from the first of them on. The second is what the comment at
navigation_server.cpp:248 says does not happen. `RecoveryIteratorValid`, `WaitsForSomething` and `EveryWaypointFinishes`
are checked and proved until it happens, with every other interleaving in the model.

`Events` chooses what the environment does beyond letting plans, paths and
recovery behaviors succeed or abort: cancel requests, a second goal while the
first runs, a robot that is stuck, servers that are missing, that reject or
lose goals, and unrecoverable controller errors.

The assignment of the state and the sending of the goal in `runExePath` are one
action, as is the test of the state that follows it in `actionGetPathDone`.
The library's action client and server, and move_base_flex, are external.
Locks that the action library may hold while it runs a callback are not in
this repository: the model allows every interleaving that this repository's
code does not exclude, so invariants hold with such locks too, but a deadlock
on them cannot show.

### MotorController

The constructor is the whole program of this node: a handshake loop that sends
the gains until the board confirms them, then a loop of one request,
one response and one `ros::spinOnce`. `pc` says where that thread is;
`current_motor_command_` and `motors`, the queue of length one behind the
topic, carry the commands. A response travels as pieces, since TCP may deliver
it torn: `readMessage` reads whatever has arrived, once.

| Code | Actions |
| --- | --- |
| `setPID` | `SendGains`, `ReadGains` |
| `cmdCallback`, `ros::spinOnce` | `SpinOnce` |
| `sendRequest` | `SendRequest` |
| `recieveResponse`, `publishResponse` | `RecieveResponse` |
| end of file and read errors | `ReadClosed`, `ReadThrows`, within the reads |
| end of the constructor | `Return` |

The board (`Mbed`) answers each request it gets, and takes over gains or not;
`Disconnect` and `Interrupt` end the connection and shut ROS down at any time.
Refused gains and commands are unbounded; `MaxTorn` bounds the torn responses,
and the age of a command is counted up to one more than `WatchdogDelay`.

### StateEstimator

A message is its time stamp. The callbacks run on the `ros` thread, one at a time;
`imuCallback` is two actions, since the optimizer may publish a state between the
message being queued and the lock being taken (`ImuCallback`, `Pose`). The
optimizer takes one message per action:

| Code (`optimizationLoop`) | Actions |
| --- | --- |
| first fix, first IMU message | `FirstFix`, `FirstImu` |
| old messages removed | `RemoveOld` |
| loop over IMU messages | `BeginKey`, `IntegrateMeasurement`, `AddKey` |
| loop over fixes | `TakeFix` |
| smoother, state published | `Update` |

`integrator` and `imuIntegrator_` are the stamps integrated since the last
reset: what GTSAM makes of them is not modelled. A turn of the loop that finds
no key due changes nothing and is no action. `sentImu` and `sentFix` record
what the sensors sent; only the properties read them, and the sensors' guards.

### SimpleActionClient

The class is the repository's own copy of the one in `actionlib`. `gh_`,
`cur_simple_state_` and `done_cb_` are its members; goals are numbered in the
order in which they are sent, and `done_cb_` is the number of the goal whose
callback is stored. `main` is a thread that calls the client, `spin` the
client's own, which runs transitions and the done callback; the callback may
itself send the next goal.

| Code | Actions |
| --- | --- |
| `sendGoal` | `Reset`, `StoreCallbacks`, `Send`, `AssignHandle`, on either thread |
| `sendGoalAndWait`, `waitForResult` | `MainSends`, the four above, `Finished`, `TimedOut` |
| `cancelGoal`, `stopTrackingGoal` | `CancelGoal`, `StopTrackingGoal` |
| `handleTransition` | `HandleDone`, `CallDoneCallback`, `Return`; `HandleOther` |
| `getState` | the operator `State` |

The goal handles and their communication states are the library's, and
external: `Transition` is a message of the server that changes one, or its
loss. What the class relies on is what its comment says of the call that
starts `sendGoal`: "Reset the old GoalHandle, so that our callbacks won't get
called anymore" (`simple_action_client.h:316`). The library keeps that with a
lock that it holds while it runs a callback, so that `reset` and `cancel` wait
for one that is running (`MayTouchGoal`).

The class has no lock of its own around `sendGoal`, and nothing in the model keeps
the two threads from being in it at the same time: `mine` is the goal that each has
sent and not yet stored, and the history `overlapped` is TRUE once they have met
there. Which clients can get there is a matter of who calls: the navigation
server sends get_path goals from the action server's thread and the recovery
client's (`navigation_server.cpp:103`, by way of 437) and from the get_path client's own
(192, 252), and recovery goals from the threads of the get_path and exe_path
clients (418) and from its own (488), so both may; exe_path goals are sent by the
get_path thread alone (266), and the waypoint client has one thread that sends. For
the first two the run `simple_action_client_overlap` shows what becomes of it: both
goals stay tracked, and a transition of one finds the simple state of the other,
which the class reports as a bug. The other properties hold as long as no two
threads have met in `sendGoal`.

`ActionGoals` has three actions: a goal is sent, ends, is reported. `OneReport`
says that the client implements it, with `sent` for the current goal and
`terminal` for the outcomes. It allows a report to say LOST, and the code needs that:
when the result comes before `sendGoal` has stored the handle, `getState` finds none.

### Costmaps

`move_base_flex` updates the global costmap on a thread of its own, while sensor
callbacks mark cells in the grid map of their layer. `dirty[l]` is the window
`dirty_min_idx_`, `dirty_max_idx_` of layer `l`, with the limits of `int` when
nothing has been touched. Nothing locks it.

| Code | Actions |
| --- | --- |
| `TraversabilityLayer::slopeMapCallback`, `LineLayer::imageSyncedCallback` | the message becomes cells with a hit, a miss or a touch (`slopeMapCallback`, `imageSyncedCallback`), and each iteration of the loop over them is `TouchCell`, then `MarkCell` |
| `LayeredCostmap::updateMap` (external) | `StartUpdate`, `ResetWindow` |
| `GridmapLayer::updateBounds` | `updateBounds` |
| `updateCosts` of a layer | `TransferToCostmap`, then `UpdateCosts`: a cell may be touched in between |

Log odds are counted in marks, between the two limits of the configuration. The
projection of the line layer is modelled on cells: buffer around the camera,
morphological closing, lines taken out of the free space, a distance beyond
which a cell is touched but not marked. The camera's geometry is an input. The
three operators `getIndex`, `CharIndex` and `MasterIndex` keep the opposite
directions of grid maps and costmaps. `bounded`, `late`, `lost` and
`callback.undone` are history: the cells that were dirty when a layer's bounds were
read, the master cells touched after that, the cells at which the layer's costmap
may lag, and whether the window was reset since the callback touched the cell it is
about to write.

Two windows of the race are real, and the properties name them instead of
assuming them away. A cell that is written between the copy of the dirty cells and
the reset of the window stays out of date until it is touched again, and so does
one whose window is reset between its touch and its write (`lost`). A
cell touched after its layer's bounds were read is copied into the layer, but
the master costmap gets it only when a later window covers it (`late`).
The four comparisons of `touch` and the copy of all dirty cells are one step each.
`ImagesAssumption` is a precondition that the code does not test: the
projection's buffer lies inside of the map (`line_layer.cpp:456`).

### LocalCostmap

The rolling layer copies the published global costmap into a window that follows
the robot. `costmapCallback` reads the origin of the window and `CopyMap` fills
it; the update thread's `RollingBounds`, which moves the window, may come between,
and the map is then misplaced until the next one (`misplaced`). `RollingCosts`
fills the local costmap. The index of the code is a truncated quotient plus
one: it is right because the resolution that the message carries is a float,
slightly larger than the double (`Excess`), and it is not at the map's lower
border, which `RollingAssumption` leaves out.

For the unrolling layer the module has the arithmetic of `calculateMapMetadata`
and `updateMap`: offsets are signed, indices are of `size_t` and the number of
cells is an `unsigned int`, so that differences wrap at two widths. The widths
are scaled down to 2^10 and 2^8.

### NavigationClient

| Code | Actions |
| --- | --- |
| constructor | `waitForTransform`, `waitForServer`, `Constructed` |
| `loadWaypointsFromFile` | `loadWaypointsFromFile`, `ConvertWaypoint`, `Loaded` |
| `parseWaypointFile` | `parseWaypointFile` (one line), `EndOfFile` |
| `convertDmsToDec`, `convertLatLongToOdom` | operators of the same names |
| `sendWaypoints`, with `sendGoalAndWait` | `sendWaypoints`, `GoalEnded` |
| `rvizWaypointCallback`, `ros::spin` | `rvizWaypointCallback`, `SpinEnds` |

`RvizPose`, `ServerEndsGoal`, `Localized` (the transform from utm to odom
changes) and `Shutdown` are the environment's. A token is its numbers and its
direction; a file may have comments, empty lines, lines of one token, a token
without enough numbers (`stod` throws), and a token without an apostrophe,
whose seconds are read from its degrees. The points are converted one by one,
each by the transform that the listener's own thread has put there by then.
Whether a goal reaches the server is what `ok` decides: after `ros::shutdown`
nothing does.

### Driving

| Code | Actions |
| --- | --- |
| `BackUpRecovery::runBehavior` | `runBehavior`, `BackUp`, `Sleep`, `StopRobot` |
| the controller (external), the robot | `ControllerCommand`, `Move` |
| `DifferentialDrive::twistToVelocity` | `twistToVelocity` |
| `joyCallback` | `joyCallback` |
| queues of `/cmd_vel` | `Published`, `TwistArrives` |

The recovery and the controller of move_base_flex publish on `/cmd_vel`, and
nothing excludes that they do so at the same time, since a recovery that replanning
starts does not cancel `exe_path` (see `nav_server_stale_success`):
`ControllerCommand` may come before, during and after the recovery, and
`joyCallback` as well. The robot moves along a line, forward or backward as the wheels
were told last, in `Move`: up to `StepLength` in a period of the recovery, and up to
`MaxCoast` after its stop was published, while that is on its way. `travelled` counts how
far since the recovery's last command. A pair of wheel speeds is a pair of
numerators and one divisor, so that limiting is exact.

The command of an iteration is published whatever its check says, so the robot
comes nearer to an obstacle than `obstacle_distance`, which
back_up_recovery.cpp:35 calls the closest it will get. `RecoveryEndsStopped` says
what holds: nearer by not more than two periods, and the way until the stop arrives. It says that the wheels stand in the end unless the
controller or the joystick has commanded them since (`commanded`). `LimitOf` is
the limit of the node that spoke last. Speeds in reverse have none in the code, since
it compares the larger of the two signed speeds; `WheelLimits` says of them only
that they are not larger than asked for.

### YostLabDriver

`GetSetting` asks one of five questions, whose answer may come in time or late;
`StartStreaming` may find an IMU that streams already and begin anywhere in a
message; `ReadLine` takes a whole line or what was there when the read timed
out; `ReadLateAnswer` takes an answer to a question instead. `TakeLine` is the body
of the inner loop. Every value carries the message and the place it came from.
A message with a torn line may be published with values missing, since `run`
counts pieces and not values, and `createAndPublishIMUMessage` reads all its 14
fields from the vector without looking at its length: what is behind the end is
`OldMemory`. The comment at YostLabDriver.cpp:208 says that the message is complete;
`PublishedFromOneMessage` says what is true of it, and `WholeMessagesArePublished`
that the next ones are.

### GraphSearch

The library's operators are translated one by one: validity, the eight
neighbours and their order around a node, the slices of the configuration
space, the costs of edges and diagonals, the continuous positions, the cells
that a new map changes and the nodes around them, and the `std::set` behind
the priority queue, whose comparison of keys with `<=` makes `Insert` put an entry
before those of the same key. Costs are squared and in 255ths, which keeps the
diagonal exact. A list of neighbours in order is a function on those of the eight
directions that stay in the grid, where the code's vector closes the gaps; the changed
cells are a set, and the open and closed lists of the search around one are the rounds it has
made. `initializeGraph` and `updateGraph` change the map, `PushNode`,
`RemoveNode` and `PopNode` the queue.

### Nanopb and Codec

The motor controller exchanges two protobuf messages with its board, through a
vendored codec. A word is the set of the positions of its one bits, so that
masks, shifts and sign extensions are set operations of the right width. The
encoder and the decoder are operators with the names of the C functions, over
streams that carry the bytes and whether an error has occurred; every error path
of the C code ends in such a stream. The loops over the bytes of a varint are sets of
places, and the loop of `pb_decode_noinit` is a recursive function of the number of rounds: each
round, `DecodeField`, takes a byte at least, so no more are needed than there are bytes.

A message inside of a message is encoded and decoded by the same functions one level
down. `Nanopb` has these as constants (`encode_nested`, `is_default_nested`,
`defaults_nested`, `decode_nested`), so that it needs no RECURSIVE operator and can be
reasoned about. `MCComponents` gives them the module's own operators, whose level
below fails: the messages of its instance nest once, and the robot's not at all.

`Codec` is the state around these operators: a descriptor and a message of it, the bytes
under way, a sequence per field, and what may happen to them: `Encode`; `SwapFields` and
`AddForeignField`, since another version of the encoder may order the fields
differently or know more of them; `LoseEnd`, since TCP keeps no message boundaries.
`RobotMessages` are requests and responses, `OtherMessages` are of any other descriptor,
`UnknownFields` are fields of tags that the robot does not use, `MaxSwaps` and `MaxForeign`
bound the two steps that could go on for ever, and `WordBits` are the sets of bits that the
word of `VarintsAgree` is made of.

### MCComponents

The seven modules share no state. In a behaviour of this instance one of ten
parts moves, and the others stay as they began: `codec`, `varint`, `graph`,
`queue`, `imu`, `costmaps`, `rolling`, `unrolling` (states without steps), `client`,
`driving`. A part can be checked alone by giving `Parts` only its name.

## Runs

Two waypoints are enough for one that is stale and one that is new; the run with
one sends it once, and what it shows of that one depends on no other. One
behavior distinguishes `begin()` from `end()` and two add a proper next one. The two
passing runs of the server have each event of `AllEvents` between them: the first
what the client and refusing servers do to two waypoints, the second what goes
wrong while one is driven. The first compares states by a VIEW, `ControlState`: it
leaves out where a plan or a path leads and how a waypoint ended, which no action
reads but to pass it on and none of that run's invariants mentions. One
replanning retry distinguishes the first failure, a retry, and the failure
that exceeds the limit. Deadlock is not checked, since the server is done when
all its waypoints are.

| Run | Bounds | Shows |
| --- | --- | --- |
| `nav_server_threads` | 2 waypoints, 1 behavior, 1 retry; cancel, supersede, rejected, lost and unrecoverable; states compared by `ControlState` | `ReplanningKeepsGoing`: in EXE_PATH a get_path goal is out or the get_path thread will look again. `ReplanningTriesBounded`: the counter is set before it is read and stays bounded. `WaitsForSomething`: in GET_PATH and RECOVERY the awaited goal is out, until a thread has overtaken another |
| `nav_server_live` | 1 waypoint, 2 behaviors, 1 retry; stuck, disconnected and unrecoverable, fair | `RecoveryIteratorValid`: wherever the code dereferences the iterator it is inside the list, until a thread has overtaken another. `EveryWaypointFinishes`, unless a thread overtakes another |
| `nav_server_unrecoverable` | 1 event | finding: paths go on being sent for a waypoint that was aborted with an unrecoverable error |
| `nav_server_rejected` | 1 event | finding: a rejected plan leaves the waypoint running in state FAILED |
| `nav_server_stale_success` | no events | finding: a path left running by a recovery makes the next waypoint succeed |
| `motor_controller` | stop and 2 speeds, 2 torn responses, refused gains, close, break and shutdown anywhere, fair | `InStep`: one request or response is under way at most, plus what torn responses left. `GainsBeforeSpeed`: no speed before the gains, if responses come in one piece. `LastCommandArrives` |
| `motor_controller_watchdog` | same | finding: without a new command the last speed is repeated for ever |
| `state_estimator` | stamps 0 to 6, 2 between keys, gaps of the IMU up to 2, any fixes, any delay, fair optimizer | `FactorHoldsItsPeriod`, `NoEmptyFactor`: what a factor holds. `PoseSinceItsState`: what a published pose holds. `NeverStuckInKey`, `KeepsUp`: keys are completed |
| `state_estimator_gps` | same | finding: after one key without a fix, all later fixes are dropped |
| `simple_action_client` | 3 goals, fair threads and server | `DoneMeansDone`, `NoBug`: the simple state is never that of another goal. `WaitReturnsOutcome`, `WaitEnds`: what a caller that waits gets. `OneReport`: the client implements `ActionGoals`. All as long as no two threads have met in `sendGoal` |
| `simple_action_client_overlap` | 3 goals | finding: after two threads have met there, the client reports a bug |
| `components` | below | the properties of the next table |

The run `components` checks, with these bounds:

| Part | Bounds | Properties |
| --- | --- | --- |
| codec | 22 messages, of the robot's two descriptors and of one that has every kind of field; fields swapped or foreign fields of each wire type added; every place to cut | `RoundTrip`: the decoder returns what was encoded, delimited or not, and the stated buffer sizes are enough. `TruncationNoticed`: bytes without their end are refused, or are a message of their own |
| varint | words of bits next to the borders of 7, 32 and 64 bits | `VarintsAgree`: what the decoders for 64 and 32 bits and for signed values accept, and return |
| graph | 2 by 4 cells of size 2, radii 0, 3, 5, values 0, 100, 255, two cells not free | `KeepsClearance`: a step of finite cost keeps the radius clear. `CostsAreConsistent`: the same both ways, and never below the bounds a search uses. `NeighboursAgree`: three ways of finding neighbours. `NearNodesFound`: all nodes nearer to the lower corner of a changed cell than the radius, its four corners if the radius is larger than a cell |
| queue | 3 nodes, keys of 2 by 2 | `QueueInOrder`: nothing is lost or kept by a comparison that is not strict, and the first has the least key |
| imu | 3 messages, 2 torn reads | `PublishedFromOneMessage`, `WholeMessagesArePublished` |
| costmaps | 4 by 3 cells, both layers, log odds -1 to 1, 2 messages, buffer of 3 by 3 | `LagsOnlyWhereDirty`: a layer's costmap follows its grid map. `MasterShowsMaps`: the master shows an obstacle where a layer has one, and nowhere else |
| rolling | window of 3 by 2 in 6 by 5, 2 maps | `LocalShowsGlobal`: the local costmap shows the global one at the robot's place |
| unrolling | offsets -4 to 7, lengths 1 and 3 | `UnrollsInPlace`: every overlapping update is cut and copied right |
| client | 4 files and one that cannot be opened, 2 poses of RViz, 2 transforms | `GoalsFollowFile`: the server gets the points of the file, in order, one at a time, none by an older transform than the one before, and nothing if a line is bad; it has got all when the constructor returns, unless the node is shut down |
| driving | threshold 2, obstacle distance 2, steps of 1, 1 more until the stop arrives, queue of 2, limits 5 and 8 | `RecoveryEndsStopped`: with the controller and the joystick sending at any time, the robot stands in the end, and how far it went. `WheelLimits`: each node keeps its own limit |

These bounds reach the cases the properties are about. A map that is not square
tells rows from columns, and a narrow one has clipped slices on both sides; radii of
3 and 5 at resolution 2 are not multiples of it, so that truncating and rounding
up differ. Two sensor messages are enough for one to be under way when the other
has been copied, in every phase of an update of two layers; one mark in either
direction saturates. Three messages of the IMU and two torn reads put a torn message
before a whole one, with a stream that begins anywhere. Offsets run from no overlap
on the left to none on the right, with updates smaller and larger than what is
left of the map. The files have a bad line before, between and behind good ones.
Deadlock is not checked: the parts stop at their bounds, when the stream is read
or the node has ended.

Three goals for the action client are one whose callback sends another, with one
before whose state could linger. It stops when all are sent and done, so deadlock
is not checked there. Timeouts are not timed: `TimedOut` may happen at any moment
of a wait, and is never relied on.

For the state estimator, seven stamps with two between keys give three keys, so
that a period has one before and one after it, with messages at, before and
after its boundaries; every pair of streams within the bound is explored, the
late start of the IMU and a smoother that throws included.

After a thread has overtaken another, `RecoveryIteratorValid`, `WaitsForSomething` and
`EveryWaypointFinishes` fail. For instance the get_path thread is preempted between
its last look at the state and `sendGoal` while the exe_path thread starts a
recovery; the recovery succeeds and asks for a plan, and the replanning goal then
replaces that plan together with its callback. The plan is taken for one of
replanning, which the state GET_PATH ignores, and the waypoint never finishes. Such
a behaviour counts as overtaken from the moment the state changes under the
thread, whether or not it comes to harm.

For the wheels, the controller asks for turns forward and in reverse at which the
wheels would turn at 10 and 2, or at -4 and -12: the faster forward wheel is above the
differential drive's limit of 5 and above the joystick's 8, so that a pair limited
by the wrong node's limit is noticed; a queue of two is full with the messages
before the loop and of one iteration. An obstacle appears just too near or just not.

### Fairness

`EveryWaypointFinishes` is checked under weak fairness of each thread's own
steps: threads are scheduled, and move_base_flex ends every goal it is given.
Oscillation feedback is excluded from that (nothing forces a robot to be
stuck). `Reachable` adds strong fairness of `ExeSucceeded`: a waypoint that the
controller is given again and again is reached in the end; without it
recovery followed by a successful plan, which resets the list, can repeat for
ever, and the code means it to. The environment of this run is the waypoint
client's: a goal that is never cancelled, and no other before it is done.

`LastCommandArrives` assumes that the node's thread runs and that a connected
board answers. `KeepsUp` assumes that the optimizer's thread runs; the sensors
owe nothing, so it speaks of keys that two IMU messages have passed. `WaitEnds`
assumes that both threads run and that the server ends every goal it is sent.

## Proofs

`NavigationServerProofs` proves, for every set of waypoints, list length, retry limit
and set of events:

* `TypeCorrect`: `Spec => []TypeOK`;
* `ReplanningTriesStayBounded`: `Spec => []ReplanningTriesBounded`;
* `ReplanningNeverDiesOut`: `Spec => []ReplanningKeepsGoing`;
* `IteratorStaysValid`: `Spec => []RecoveryIteratorValid`.

All use `ConstantsAssumption` only. The inductive invariant of the first three is `IInv`: `TypeOK`, the two properties, and
`RecoveringIsNotExecuting`. Neither property is inductive alone: what makes
replanning go on is that the handlers of the get_path thread are the only ones
that set EXE_PATH, that they stay busy until they have looked at the state
again, and that a get_path thread on its way to start a recovery has left
EXE_PATH; the counter's range needs `TypeOK`'s upper end, which is reached when
the last failed attempt is counted. None of the three needs that no thread has
overtaken another. The fourth holds until one has (`IteratorKept`, which is
`~overtaken => IteratorInv`): the iterator is at most the length of the list, it is
inside of the list while a behavior runs, and whoever is about to send a
behavior has one left to send (`SendersHaveOne`). The last part is what a step of
another thread may break, and the step that breaks it is one that overtakes. The proofs split `Next` into its actions, with one lemma per
action group and the range of the counter stated in lemmas of its own.

The second part of the module builds on it and proves `WaitIsForSomething`:
`Spec => []WaitsForSomething`. What is inductive is `WaitKept`, `~overtaken => WaitInv`. In GET_PATH a
plan is awaited or the waypoint is over. In RECOVERY a behavior runs that nobody has
asked to cancel: a cancelled one that is still pending could end as recalled, a
result the handler ignores. Until a thread is overtaken, the state is still what it
was when the thread that is about to replan or to cancel looked at it or set
it (`StateHeld`), and the waypoint that a connection
timeout reports on has been sent (`HandleSent`).

`MotorControllerProofs` proves, for every set of commands and every bound:

* `TypeCorrect`: `Spec => []TypeOK`, its own `TypeOK`;
* `StaysInStep`: `Spec => []InStep`, from an invariant that counts what is in
  each direction of the connection by where the thread is;
* `GainsComeFirst`: without torn responses, `Spec => []GainsBeforeSpeed`, which
  needs `StaysInStep`: a confirmation is only worth something because it is
  the answer to the gains last sent.

`StateEstimatorProofs` proves, for every period, tolerance, gap of the IMU, stream of fixes
and interleaving of the two threads, from `ConstantsAssumption`:

* `TypeCorrect`: `Spec => []TypeOK`, its own `TypeOK`;
* `NotStuck`: `Spec => []NeverStuckInKey`;
* `FactorsHoldTheirPeriods`: `Spec => []FactorHoldsItsPeriod`;
* `FactorsAreNotEmpty`: `Spec => []NoEmptyFactor`;
* `PosesSinceTheirState`: `Spec => []PoseSinceItsState`.

They share the invariant `IInv`, whose parts are about different things. `StreamInv`
relates the queue to what was sent: the queue is the end of that stream, and the
optimizer has taken the rest in order. With it a factor can be described by two
places in the stream, and `KeyInv` says which: between two keys the message taken
last is the first that is not before the last key (`IsFirstFrom`), and while a key is
built the factor is what was taken from there on. The test that lets a key begin is
made on the back of the queue, while the loop pops from its front: either the message
that ends the key is still at the back or it has just come out (`EndOfKeyKnown`), so the
loop ends. `SteadyInv` is about an IMU that is never silent for a period: then the
message that is carried over into a key is before its end, so the factor gets it.
`PoseInv` is the other thread's: the time that the optimizer publishes is one that the
IMU has passed (`StateInThePast`), so that the messages the callback drops are older
and the ones it integrates are those from it on (`MeasuredSincePose`). `NotOlder`
and `FirstFrom`, which model the loops that drop messages, are searches for a least
index; their lemmas rest on the well-foundedness of the natural numbers.

`SimpleActionClientProofs` proves, for any number of goals:

* `TypeCorrect`: `Spec => []TypeOK`, its own `TypeOK`;
* `DoneIsDone`: `Spec => []DoneMeansDone`, and `NoBugLogged`: `Spec => []NoBug`;
* `Implements`: `Spec => OneReport`, the refinement of `ActionGoals`.

All but the first speak of behaviours in which no two threads have met in `sendGoal`
yet (`overlapped` is FALSE): after that the client breaks them, as
`simple_action_client_overlap` shows. They rest on the inductive invariant `IInv`, which is
`FreeInv /\ (~overlapped => Alone)`. `FreeInv` holds whoever sends: the types, and that there is a goal for each thread
that is to send one, and a goal that was sent has states (`GoalsInv`).
`Alone` holds until two threads meet (`OverlapStays`: from then on they have met), and
has a part for each question: only one thread sends (`SenderInv`); the goal sent last is the only one the library tracks, and
none is while `gh_` is empty (`HandleInv`); a transition is handled for
that goal, and the other thread cannot take the handle meanwhile
(`CallbackInv`); the simple state follows its communication state (`StateInv`);
and the stored callback is its own, uncalled before it ends (`ReportInv`). The
refinement maps `Send`, `Transition` to DONE and `CallDoneCallback` to the
abstract steps; every other step stutters.

`WaiterGetsOutcome` proves `Spec => []WaitReturnsOutcome` on top of it (`WaitInv`): a
caller that waits has stored no callback, so no callback sends another goal
while it waits, and the state it reads is that of its own goal.

`CostmapsProofs` proves `CostmapsLag`: `CostmapSpec => []LagsOnlyWhereDirty`, for maps
of any size, any layers, any sensor messages and any interleaving of the two
threads. It uses `CostmapsAssumption` and `ImagesAssumption`. The property is not
inductive: between the two halves of `updateCosts` the window is still dirty
but about to be reset, and what must hold then is that the layer's costmap is right
everywhere but at `lost` cells (`Transferred`). A cell that an update takes out of
the window between its touch and its write (`TouchCell`, `MarkCell`) joins `lost`
with the write. The copy puts a cell where its
linear index says, and that no two cells share one (`CharIndexInjective`) is
the lemma the step rests on. `touch` never shrinks the window (`TouchExtends`), so
a callback changes nothing outside of it.

The second part of the module builds on it and proves `MasterIsCurrent`:
`CostmapSpec => []MasterShowsMaps`. While the layers are combined the property is
false inside the window that was reset, so the invariant has a part for each
side of it. Outside (`OutsideShown`), a cell that no thread has under way is shown
all the time: one that was dirty when the bounds were read is not outside
(`Covered`, since positions grow where indices shrink, `CornersCover`), and one that
became dirty later is late from then on. Inside (`InsideCombined`), the master has
the obstacles of exactly the layers that have had their turn, and after the last
one `CostmapsLag` says that those are the obstacles of their grid maps. It needs
that no layer is configured twice.

The third part is about the layers of the local costmap:

* `LocalIsGlobal`: `RollingSpec => []LocalShowsGlobal`, for windows and maps of any size,
  from `RollingAssumption`: sizes are positive, the window stays inside of the map and
  away from its lower border, and what the float resolution is too large by adds up
  to less than a cell. Under it the truncated quotient plus one is the cell
  (`StartIndex`, from `Division`), and a cell that stays in a moving window
  stays at its place on the ground (`CellShown`).
* `UnrollsAnywhere`: `UnrollingInit => UnrollsInPlace`, for maps and updates of any size
  and place whose cells, those of the update and of the map together, number
  less than the narrower of the two widths (`UnrollingAssumption`). Indices wrap around at
  both widths on the way, and the lemmas say that the result is exact
  (`ExactIndex`) and that what is copied is what the two maps have in common
  (`CellsOfUpdate`).

`DevicesProofs` proves, for every threshold, velocity, limit, length of the
queue and distance per period, from `DrivingAssumption`:

* `WheelsKeepLimits`: `DrivingSpec => []WheelLimits`. Every pair that is published is
  one of `Limited` or of the joystick, and each obeys its own node's limit (`LimitedObeys`,
  `JoystickObeys`), the second because its parameter never exceeds
  `absoluteMaxVel` once a message has come;
* `RecoveryStops`: `DrivingSpec => []RecoveryEndsStopped`, from an invariant that the
  stop is the last message in whichever of the two queues it is (`StopIsLast`), that
  the robot is at most one period ahead of the position the recovery has read
  (`OnePeriodAhead`), and that a failed check ends the loop, so that it is two periods
  nearer to an obstacle at most (`TwoPeriodsNearer`). After another node has commanded
  the wheels, the first says nothing.

Its second part proves `ServerGetsTheFile`: `ClientSpec => []GoalsFollowFile`, for any files,
transforms and poses, from `ClientAssumption`. The property relates the first and the
last of four stages, so the invariant `ClientInv` relates each to the next: the
coordinates are the points of the lines read so far, all of them well formed
(`ParseInv`); the waypoints are the first of the coordinates, by transforms that are not
newer than the present one (`ConvertInv`); and what reached the server is the first
of the waypoints, and all that were sent as long as ROS is up (`SendInv`). A file that was
given up leaves no coordinates and no ROS, which is why nothing of it is delivered. The
`i`-th point is on the line up to which the file has `i` points, which says what the
loop computes without recursion (`PointsGrow`); what a token stands for is
`CoordinatesAre`.

Its last part proves, for streams of any length, wherever they are joined and
however many reads are torn (`StreamAssumption`):

* `OneMessageAtATime`: `ImuSpec => []PublishedFromOneMessage`. The values that are kept
  belong to the message the stream is in, and none is behind the place of the stream
  (`OrderInv`); the buffer is empty wherever a message begins, since every end of a
  message clears it. When fewer than 14 values have come, the fields at the end are
  `OldMemory` and the ones before are those values (`FieldsInOrder`).
* `BackInStep`: `ImuSpec => []WholeMessagesArePublished`. Once the last line of a message has
  been read whole, the counter of pieces is zero and the buffer is empty; from there on
  both are determined by the line the stream has reached (`StepInv`, `ValuesBefore`),
  until a read is torn again.

`GraphSearchProofs` proves, from `GridAssumption`:

* `QueueStaysInOrder`: `QueueSpec => []QueueInOrder`, for any nodes and keys. The queue is
  sorted, has one entry for a node, and holds what was inserted and not taken
  out (`QueueOK`). The comparison is total and transitive but not strict, and what makes
  the queue work is that the entries that are not behind a new key are a
  prefix of a sorted queue (`PlaceOfKey`).
* `CostsStayConsistent`: `GraphSpec => []CostsAreConsistent`, and `StepsKeepClear`:
  `GraphSpec => []KeepsClearance`, for grids, resolutions and configuration spaces of any
  size. The graph's map only has the values of cells (`MapOK`); the rest is about
  the operators. A step of finite cost has no occupied cell in the slices around its
  ends, and the slice is wide enough since `cs div resolution + 1` cells are
  wider than `cs`. What a slice of the wider grid costs is at least what the least of
  the slices costs, which bounds the cost from below.
* `SearchFindsAll`: `GraphSpec => []NearNodesFound`, which speaks of distances from the lower
  corner of the cell: all nodes nearer than the configuration space, none farther
  than a cell beyond it, and all four corners if it is larger than a cell. The cells
  that change are cells of the grid (`ChangedOK`). The rounds of the search are a recursive function; that there
  is one (`RecursionExists`) and what it holds after each round (`SearchRounds`) follow
  from the least number for which a claim fails (`AllNumbers`). Every node that is near enough has a
  neighbour one step back towards the cell, which is no farther in either direction and so near
  enough too (`OneStepBack`); hence the search, which only goes on from near nodes,
  reaches every near node in as many rounds as the grid has rows and columns
  (`SearchFindsNear`).
* `NeighboursFound`: `GraphSpec => []NeighboursAgree`. Which of the eight directions leads to a
  neighbour is unique, so turning on from it and back returns to it (`TurningAgrees`);
  a position on a corner is cast to that corner whatever the number of steps in a cell
  (`CastIs`, `Ceil0Is`), so the continuous pairs are the discrete ones in the same order
  (`PairsAgree`) and cost the same (`ContinuousCosts`).

`CodecProofs` proves, from `CodecAssumption`, which only says what the constants are
meant to be:

* `VarintsUndoEachOther`: `WordSpec => []VarintsAgree`, for every word of 64 bits. A varint is
  the groups of seven bits up to the last that is not zero (`VarintBytesAre`); the
  decoders find that last byte and put the groups back at their places
  (`DecodeVarint`, `DecodeVarint32`).
* `RobotMessagesArrive`: `CodecSpec => [](fields \in RobotFields => RoundTrip)`, for
  requests and responses with any values of their fields, set or not, any number of
  swaps and any number of unknown fields with tags from 16 to 4095 and payloads of
  less than 65536 bytes.
* `RobotTruncationNoticed`: `CodecSpec => [](fields \in RobotFields => TruncationNoticed)`, for the
  same messages and every place to cut.

The second and third go from a byte to a message. One field alone: `encode_field` appends
a piece of known length (`EncodeFieldIs`), from whose front the tag and the value are read
and whose rest stays (`TagFirst`, `FieldRead`); an unknown field is skipped to its
end (`ForeignSkipped`); a piece without its end is an error (`RoundCut`). One round:
`DecodeField` takes the decoder from the state before a piece to the state behind it
(`PieceStep`), where the state before the `j`-th piece is known: the bytes that
are left, the message with the cells that have come so far (`Got`), and the fields that were
seen. All rounds: the recursion of `pb_decode_noinit` is the end of that sequence of
states (`LoopEnds`), whose place in the bytes is that of the pieces in `Flat`
(`DecodeIs`). The invariant `CodecInv` says of the bytes under way that each of their pieces is that of
one field of the message or of an unknown field, and that each field has one
(`Carries`, kept by `SwapCarries` and `InsertCarries`), or that they are a beginning of the
encoded message (`IsCut`). A cut that falls between two fields leaves a
message of the first of them (`PartIs`), one inside of a field is an error (`CutNoticed`).
That the stated buffer sizes are enough follows from the longest piece of each field
(`FlatFits`).

Recursion and induction over data, which the provers do not offer, are brought down to
the least number for which a claim fails (`NumbersUpTo`, `RecursionUpTo`).

Model-checked only: `RoundTrip` and `TruncationNoticed` for descriptors other than the robot's two
(strings, bytes, repeated, packed, required, one-of and nested fields), and liveness, which needs
ENABLED: `EveryWaypointFinishes`, `LastCommandArrives`, `KeepsUp`, `WaitEnds`. Every
other property of the passing runs is stated by a theorem.

## Not modelled

* The lidar layer and the rolling variants of `GridmapLayer` are in no
  configuration of the repository. They share `touch`, the dirty window and the
  two halves of `updateCosts` with what is modelled; the lidar layer's ray tracing
  is geometry.
* Of the unrolling layer, the bounds and the copy to the master, which the
  rolling layer has in the same form.
* Pointer fields, extensions and callbacks of nanopb: the build does not enable the
  first, and no message of the robot declares the others.
* The wheel odometer, robot state and control: real-valued formulas without
  control.
* Point cloud filter, segmentation, line detection networks and the small
  perception nodes: numerical code, one message in and one out.
* Simulation nodes, test doubles, RViz plugins and statistics: stand-ins, displays
  and periodic reads that the robot's control does not depend on.
* `back_circle`, which publishes the points of one half circle ten times and ends.
* The action library, move_base_flex, GTSAM, tf, the serial library and the
  board are external, modelled from how this repository uses them.

What would add most next: the navigation client on top of `NavigationServer`
instead of its own environment; an abstract waypoint service that both implement;
and, for the motor controller, a register that follows `/motors`.
