------------------------------- MODULE Driving -------------------------------
(***************************************************************************)
(* What drives the wheels: the back-up recovery that move_base_flex runs   *)
(* (igvc_navigation/src/back_up_recovery) and its controller publish on    *)
(* /cmd_vel, the differential drive node makes a pair of wheel velocities  *)
(* of it, and the joystick driver (igvc_platform/src/joystick_driver)      *)
(* publishes such pairs itself.  Nothing decides between the three: a      *)
(* recovery that replanning starts does not stop the controller, and the   *)
(* joystick may move at any time.                                          *)
(*                                                                         *)
(* The robot moves along a line; a place there is how far it is behind     *)
(* the place where the recovery began.                                     *)
(***************************************************************************)
EXTENDS Integers, Sequences, CostValues

CONSTANTS
  threshold_distance_, obstacle_distance_, velocity_,    \* of the recovery
  QueueSize,                   \* of /cmd_vel: one queue of its node, for recovery and controller
  StepLength,                  \* bound: how far the robot gets in a period of the loop
  MaxCoast,                    \* bound: how far it gets after the recovery has ended
  max_vel_,                    \* of the differential drive
  Speeds, Rotations,           \* bound: what a controller asks for, in wheel speeds
  absoluteMaxVel, maxVelIncr,  \* of the joystick
  InitialMaxVel,               \* the parameter's default
  Axes                         \* bound: the positions of an axis, in hundredths

ASSUME DrivingAssumption ==
  /\ threshold_distance_ \in Nat \ {0} /\ obstacle_distance_ \in Nat
  /\ StepLength \in Nat /\ MaxCoast \in Nat
  /\ velocity_ \in Nat \ {0} /\ max_vel_ \in Nat \ {0} /\ QueueSize \in Nat \ {0}
  /\ absoluteMaxVel \in Nat /\ maxVelIncr \in Nat /\ InitialMaxVel \in Nat
  /\ Speeds \subseteq Int /\ Rotations \subseteq Int /\ Axes \subseteq -100..100

VARIABLES
  recovery,                    \* where runBehavior is
  place,                       \* of the robot
  current_position,            \* where the recovery believes it
  next_step_valid,
  obstacle,                    \* the place of the nearest one behind, in the costmap
  travelled,                   \* how far the robot got since the recovery's last command
  cmd_vel,                     \* what its node has not sent yet
  twist,                       \* the queue of the differential drive, of one message
  motors,                      \* the last velocities of the wheels, over a divisor
  publisher,                   \* the node they are from
  asked,                       \* what that node was asked for
  maxVel,                      \* the joystick's parameter
  commanded                    \* history: another than the recovery drives since its stop

drivingVars == <<recovery, place, current_position, next_step_valid, obstacle, travelled,
                 cmd_vel, twist, motors, publisher, asked, maxVel, commanded>>
recoveryVars == <<recovery, place, current_position, next_step_valid, obstacle, travelled>>
wheelVars == <<motors, publisher, asked, maxVel>>

Twist(x, z) == [linear |-> x, angular |-> z]
Wheels(right, left, over) == [right |-> right, left |-> left, over |-> over]
Distance(p) == IF p < 0 THEN -p ELSE p           \* from where the recovery began

\* A full queue drops its oldest message.
Published(queue, t) ==
  IF Len(queue) = QueueSize THEN Append(Tail(queue), t) ELSE Append(queue, t)

\* How far behind the robot a new obstacle is, just too near or just not.
Gaps == {obstacle_distance_, obstacle_distance_ + 1}
\* The footprint, that far behind a position, meets no obstacle.
nextStepValid(position) == position + obstacle_distance_ < obstacle

-----------------------------------------------------------------------------
(* runBehavior: the robot's pose is read once before the loop and once in  *)
(* every iteration, the command is published before the loop too.          *)

runBehavior ==
  /\ recovery = "idle"
  /\ current_position' = place
  /\ next_step_valid' = nextStepValid(place)
  /\ cmd_vel' = Published(cmd_vel, Twist(-velocity_, 0))
  /\ recovery' = "loop"
  /\ UNCHANGED <<place, obstacle, travelled, twist, wheelVars, commanded>>

\* Variant: the loop goes on until the step is not valid and the robot far enough.
Continues_Either == Distance(current_position) < threshold_distance_ \/ next_step_valid
Continues == Distance(current_position) < threshold_distance_ /\ next_step_valid

\* One iteration, up to its sleep.
BackUp ==
  /\ recovery = "loop" /\ Continues
  /\ current_position' = place
  /\ next_step_valid' = nextStepValid(place)
  /\ cmd_vel' = Published(cmd_vel, Twist(-velocity_, 0))
  /\ travelled' = 0
  /\ recovery' = "sleep"
  /\ UNCHANGED <<place, obstacle, twist, wheelVars, commanded>>

\* The wheels turn as they were told last, whoever told them, while the recovery
\* sleeps and after it has ended: its stop may still be on the way.
Move ==
  /\ \/ recovery = "sleep" /\ travelled < StepLength
     \/ recovery = "done" /\ travelled < MaxCoast
  /\ \/ (motors.right < 0 \/ motors.left < 0) /\ place' = place + 1
     \/ (motors.right > 0 \/ motors.left > 0) /\ place' = place - 1
  /\ travelled' = travelled + 1
  /\ UNCHANGED <<recovery, current_position, next_step_valid, obstacle, cmd_vel, twist, wheelVars, commanded>>

\* The sleep ends.  The costmap may show another obstacle.
Sleep ==
  /\ recovery = "sleep"
  /\ obstacle' \in {obstacle} \cup {place + gap : gap \in Gaps}
  /\ recovery' = "loop"
  /\ UNCHANGED <<place, current_position, next_step_valid, travelled, cmd_vel, twist, wheelVars, commanded>>

StopRobot ==
  /\ recovery = "loop" /\ ~Continues
  /\ cmd_vel' = Published(cmd_vel, Twist(0, 0))
  /\ travelled' = 0
  /\ recovery' = "done"
  /\ UNCHANGED <<place, current_position, next_step_valid, obstacle, twist, wheelVars, commanded>>

\* move_base_flex's controller, before, during and after the recovery.
ControllerCommand ==
  /\ \E x \in Speeds, z \in Rotations : cmd_vel' = Published(cmd_vel, Twist(x, z))
  /\ commanded' = (recovery = "done")
  /\ UNCHANGED <<recoveryVars, twist, wheelVars>>

-----------------------------------------------------------------------------
(* The two nodes that publish on /motors. *)

\* A message that comes before the callback has taken the last one replaces it.
TwistArrives ==
  /\ cmd_vel # <<>>
  /\ twist' = <<Head(cmd_vel)>>
  /\ cmd_vel' = Tail(cmd_vel)
  /\ UNCHANGED <<recoveryVars, wheelVars, commanded>>

\* Variant: the slower wheel decides.
Limited_Slower(right, left) ==
  LET max_calc_vel == Lower(right, left)
  IN  IF max_calc_vel > max_vel_
      THEN Wheels(right * max_vel_, left * max_vel_, max_calc_vel) ELSE Wheels(right, left, 1)
\* Both wheels are slowed down by max_vel_ / max_calc_vel, if one turns forward
\* faster than max_vel_.
Limited(right, left) ==
  LET max_calc_vel == Higher(right, left)
  IN  IF max_calc_vel > max_vel_
      THEN Wheels(right * max_vel_, left * max_vel_, max_calc_vel) ELSE Wheels(right, left, 1)

twistToVelocity ==
  /\ twist # <<>>
  /\ LET right == twist[1].linear + twist[1].angular
         left  == twist[1].linear - twist[1].angular
     IN  /\ motors' = Limited(right, left)
         /\ asked' = Wheels(right, left, 1)
  /\ publisher' = "differential_drive"
  /\ twist' = <<>>
  /\ UNCHANGED <<recoveryVars, cmd_vel, maxVel, commanded>>

\* The buttons change the limit, which is a parameter: it stays for the next message.
joyCallback ==
  /\ \E change \in {-maxVelIncr, 0, maxVelIncr} :
       maxVel' = Higher(Lower(maxVel + change, absoluteMaxVel), 0)
  /\ \E right, left \in Axes :
       /\ motors' = Wheels(right * maxVel', left * maxVel', 100)
       /\ asked' = Wheels(right * absoluteMaxVel, left * absoluteMaxVel, 100)
  /\ publisher' = "joystick_driver"
  /\ commanded' = (recovery = "done")
  /\ UNCHANGED <<recoveryVars, cmd_vel, twist>>

DrivingInit ==
  /\ recovery = "idle" /\ place = 0 /\ current_position = 0 /\ next_step_valid = FALSE
  /\ obstacle \in Gaps /\ travelled = 0
  /\ cmd_vel = <<>> /\ twist = <<>>
  /\ motors = Wheels(0, 0, 1) /\ asked = Wheels(0, 0, 1) /\ publisher = "differential_drive"
  /\ maxVel = InitialMaxVel /\ commanded = FALSE

DrivingNext ==
  \/ runBehavior \/ BackUp \/ Move \/ Sleep \/ StopRobot \/ ControllerCommand
  \/ TwistArrives \/ twistToVelocity \/ joyCallback

DrivingSpec == DrivingInit /\ [][DrivingNext]_drivingVars

-----------------------------------------------------------------------------
\* When the recovery has ended and its messages have arrived, whatever was lost
\* in full queues and whatever the controller sent before, the wheels stand
\* still, unless the controller or the joystick has moved them since.  Until its
\* stop was published the robot has gone no farther than the threshold and two
\* periods, of which one was after a check had failed: the command of an
\* iteration is published whatever its check says, and the robot comes that much
\* nearer to an obstacle than obstacle_distance_, which is the closest it should
\* get (back_up_recovery.cpp:35).  From then on it goes as far
\* as the wheels turn until the stop arrives.
RecoveryEndsStopped ==
  recovery = "done" =>
    /\ cmd_vel = <<>> /\ twist = <<>> /\ ~commanded => motors.right = 0 /\ motors.left = 0
    /\ Distance(place) < threshold_distance_ + 2 * StepLength + travelled
    /\ obstacle - place >= obstacle_distance_ - 2 * StepLength - travelled

\* No wheel turns forward faster than the limit of the node that commands it,
\* max_vel_ or absoluteMaxVel, nor faster than asked for in either direction; and
\* limited or not, the robot follows the curve that it was asked to follow.
LimitOf(node) == IF node = "joystick_driver" THEN absoluteMaxVel ELSE max_vel_
WheelLimits ==
  /\ \A wheel \in {"right", "left"} :
       /\ motors[wheel] <= LimitOf(publisher) * motors.over
       /\ motors[wheel] * asked.over >= Lower(0, asked[wheel]) * motors.over
       /\ motors[wheel] * asked.over <= Higher(0, asked[wheel]) * motors.over
  /\ motors.right * asked.left = motors.left * asked.right
=============================================================================
