---------------------------- MODULE DevicesProofs ----------------------------
(***************************************************************************)
(* The wheels obey their limits, and the recovery leaves the robot at rest *)
(* near the place where it began: for every threshold, velocity, limit and *)
(* length of the queue, and whatever controller and joystick ask for.  The *)
(* waypoints of a file reach the navigation server in their order.  And    *)
(* what the IMU driver publishes, for streams of any length, wherever the  *)
(* stream is joined, however many lines are torn and wherever they tear.   *)
(***************************************************************************)
EXTENDS Driving, NavigationClient, YostLabDriver, FiniteSetTheorems, SequenceTheorems, TLAPS

Velocities == [right : Int, left : Int, over : Nat \ {0}]
Twists == [linear : Int, angular : Int]

DrivingTypes ==
  /\ recovery \in {"idle", "loop", "sleep", "done"}
  /\ place \in Int /\ current_position \in Int /\ obstacle \in Int /\ travelled \in Nat
  /\ next_step_valid \in BOOLEAN /\ commanded \in BOOLEAN
  /\ cmd_vel \in Seq(Twists) /\ twist \in {<<>>} \cup {<<t>> : t \in Twists}
  /\ motors \in Velocities /\ asked \in Velocities
  /\ maxVel \in Nat

-----------------------------------------------------------------------------
(* The limits of the wheels.                                               *)

\* Products keep the order.
LEMMA ProductMonotone ==
  ASSUME NEW a \in Int, NEW b \in Int, NEW c \in Nat, a <= b
  PROVE  a * c <= b * c
<1>1. PICK d \in Nat : b = a + d
  <2>1. b - a \in Nat /\ b = a + (b - a)  OBVIOUS
  <2> QED  BY <2>1
<1>2. b * c = a * c + d * c  BY <1>1
<1>3. d * c \in Nat  BY <1>1
<1>4. a * c \in Int  OBVIOUS
<1> QED  BY <1>2, <1>3, <1>4

\* std::max and std::min return one of two numbers.
LEMMA HigherAndLower ==
  ASSUME NEW a \in Int, NEW b \in Int
  PROVE  /\ Higher(a, b) \in {a, b} /\ Higher(a, b) >= a /\ Higher(a, b) >= b
         /\ Lower(a, b) \in {a, b} /\ Lower(a, b) <= a /\ Lower(a, b) <= b
BY DEF Higher, Lower

\* A velocity that is a non-negative part of what was asked for lies between
\* that and zero.
LEMMA PartIsBetween ==
  ASSUME NEW v \in Int, NEW part \in Nat, NEW whole \in Nat, part <= whole
  PROVE  /\ v * part >= Lower(0, v) * whole
         /\ v * part <= Higher(0, v) * whole
<1>1. CASE v >= 0
  <2>1. Lower(0, v) = 0 /\ Higher(0, v) = v  BY <1>1 DEF Lower, Higher
  <2>2. v \in Nat  BY <1>1
  <2>3. part * v <= whole * v  BY <2>2, ProductMonotone
  <2>4. part * v >= 0  BY <2>2
  <2> QED  BY <2>1, <2>2, <2>3, <2>4
<1>2. CASE v < 0
  <2>1. Lower(0, v) = v /\ Higher(0, v) = 0  BY <1>2 DEF Lower, Higher
  <2>2. -v \in Nat  BY <1>2
  <2>3. part * (-v) <= whole * (-v)  BY <2>2, ProductMonotone
  <2>4. part * (-v) >= 0  BY <2>2
  <2>5. part * (-v) = -(v * part) /\ whole * (-v) = -(v * whole)  OBVIOUS
  <2> QED  BY <2>1, <2>3, <2>4, <2>5
<1> QED  BY <1>1, <1>2

\* What WheelLimits says of a pair m of velocities that was asked for as a,
\* from a node with that limit.
Obeys(m, a, limit) ==
  /\ \A wheel \in {"right", "left"} :
       /\ m[wheel] <= limit * m.over
       /\ m[wheel] * a.over >= Lower(0, a[wheel]) * m.over
       /\ m[wheel] * a.over <= Higher(0, a[wheel]) * m.over
  /\ m.right * a.left = m.left * a.right

\* What the differential drive publishes obeys its limit and keeps the curve.
LEMMA LimitedObeys ==
  ASSUME NEW right \in Int, NEW left \in Int
  PROVE  /\ Limited(right, left) \in Velocities
         /\ Obeys(Limited(right, left), Wheels(right, left, 1), max_vel_)
<1> DEFINE top == Higher(right, left)
           limit == max_vel_
           a == Wheels(right, left, 1)
<1>1. /\ top \in Int /\ right <= top /\ left <= top
      /\ max_vel_ \in Nat /\ limit \in Nat /\ max_vel_ <= limit
  BY HigherAndLower, DrivingAssumption DEF Higher
<1>2. CASE top > max_vel_
  <2> DEFINE m == Wheels(right * max_vel_, left * max_vel_, top)
  <2>1. m = Limited(right, left) /\ top \in Nat \ {0}  BY <1>1, <1>2 DEF Limited
  <2>2. m \in Velocities  BY <1>1, <2>1 DEF Wheels, Velocities
  <2>3. ASSUME NEW v \in Int, v <= top
        PROVE  /\ v * max_vel_ <= limit * top
               /\ v * max_vel_ >= Lower(0, v) * top
               /\ v * max_vel_ <= Higher(0, v) * top
    <3>1. v * max_vel_ <= top * max_vel_  BY <1>1, <2>3, ProductMonotone
    <3>2. max_vel_ * top <= limit * top  BY <1>1, <2>1, ProductMonotone
    <3>3. top * max_vel_ = max_vel_ * top /\ v * max_vel_ \in Int /\ limit * top \in Int
          /\ max_vel_ * top \in Int
      BY <1>1
    <3>4. v * max_vel_ <= limit * top
      <4> HIDE DEF top, limit
      <4> QED  BY <3>1, <3>2, <3>3
    <3>5. max_vel_ <= top  BY <1>1, <1>2
    <3> HIDE DEF top, limit
    <3> QED  BY <3>4, <3>5, <1>1, <2>1, PartIsBetween
  <2>4. (right * max_vel_) * left = (left * max_vel_) * right  BY <1>1
  <2>5. /\ m.right = right * max_vel_ /\ m.left = left * max_vel_ /\ m.over = top
        /\ a.right = right /\ a.left = left /\ a.over = 1
    BY DEF Wheels
  <2>6. ASSUME NEW wheel \in {"right", "left"}
        PROVE  /\ m[wheel] <= limit * m.over
               /\ m[wheel] * a.over >= Lower(0, a[wheel]) * m.over
               /\ m[wheel] * a.over <= Higher(0, a[wheel]) * m.over
    <3>1. PICK v \in {right, left} : m[wheel] = v * max_vel_ /\ a[wheel] = v
      BY <2>5
    <3>2. v * max_vel_ * 1 = v * max_vel_  BY <1>1
    <3> HIDE DEF m, a, top, limit
    <3> QED  BY <3>1, <3>2, <2>3, <2>5, <1>1
  <2>7. Obeys(m, a, limit)
    <3> HIDE DEF m, a
    <3> QED  BY <2>4, <2>5, <2>6 DEF Obeys
  <2> QED  BY <2>1, <2>2, <2>7
<1>3. CASE ~(top > max_vel_)
  <2>1. a = Limited(right, left)  BY <1>3 DEF Limited
  <2>2. a \in Velocities  BY DEF Wheels, Velocities
  <2>3. a.right = right /\ a.left = left /\ a.over = 1  BY DEF Wheels
  <2>4. right * left = left * right  OBVIOUS
  <2>5. ASSUME NEW wheel \in {"right", "left"}
        PROVE  /\ a[wheel] <= limit * a.over
               /\ a[wheel] * a.over >= Lower(0, a[wheel]) * a.over
               /\ a[wheel] * a.over <= Higher(0, a[wheel]) * a.over
    <3>1. a[wheel] \in Int /\ a[wheel] <= top  BY <1>1, <2>3
    <3>2. Lower(0, a[wheel]) \in Int /\ Higher(0, a[wheel]) \in Int
          /\ Lower(0, a[wheel]) <= a[wheel] /\ a[wheel] <= Higher(0, a[wheel])
      BY <3>1, HigherAndLower DEF Higher, Lower
    <3> HIDE DEF a, top, limit
    <3> QED  BY <1>1, <1>3, <2>3, <3>1, <3>2
  <2>6. Obeys(a, a, limit)
    <3> HIDE DEF a
    <3> QED  BY <2>3, <2>4, <2>5 DEF Obeys
  <2> QED  BY <2>1, <2>2, <2>6
<1> QED  BY <1>2, <1>3

\* The joystick: a limit of at most absoluteMaxVel times a position of the axis.
LEMMA JoystickObeys ==
  ASSUME NEW right \in Axes, NEW left \in Axes, NEW limit \in Nat, limit <= absoluteMaxVel
  PROVE  /\ Wheels(right * limit, left * limit, 100) \in Velocities
         /\ Wheels(right * absoluteMaxVel, left * absoluteMaxVel, 100) \in Velocities
         /\ Obeys(Wheels(right * limit, left * limit, 100),
                  Wheels(right * absoluteMaxVel, left * absoluteMaxVel, 100), absoluteMaxVel)
<1> DEFINE m == Wheels(right * limit, left * limit, 100)
           a == Wheels(right * absoluteMaxVel, left * absoluteMaxVel, 100)
           most == absoluteMaxVel
<1>1. /\ right \in -100..100 /\ left \in -100..100 /\ absoluteMaxVel \in Nat
      /\ most \in Nat /\ absoluteMaxVel <= most
  BY HigherAndLower, DrivingAssumption DEF Higher
<1>2. m \in Velocities /\ a \in Velocities  BY <1>1 DEF Wheels, Velocities
<1>3. /\ m.right = right * limit /\ m.left = left * limit /\ m.over = 100
      /\ a.right = right * absoluteMaxVel /\ a.left = left * absoluteMaxVel /\ a.over = 100
  BY DEF Wheels
<1>4. ASSUME NEW v \in -100..100
      PROVE  /\ v * limit <= most * 100
             /\ (v * limit) * 100 >= Lower(0, v * absoluteMaxVel) * 100
             /\ (v * limit) * 100 <= Higher(0, v * absoluteMaxVel) * 100
  <2>1. CASE v >= 0
    <3>1. v \in Nat  BY <2>1
    <3>2. limit * v <= absoluteMaxVel * v  BY <1>1, <3>1, ProductMonotone
    <3>3. v * limit <= 100 * limit  BY <2>1, ProductMonotone
    <3>4. limit * v >= 0 /\ absoluteMaxVel * v >= 0  BY <1>1, <3>1
    <3>5. v * limit = limit * v /\ v * absoluteMaxVel = absoluteMaxVel * v
          /\ limit * v \in Int /\ absoluteMaxVel * v \in Int
      BY <1>1
    <3> HIDE DEF most
    <3> QED  BY <1>1, <3>2, <3>3, <3>4, <3>5 DEF Higher, Lower
  <2>2. CASE v < 0
    <3>1. -v \in Nat  BY <2>2
    <3>2. limit * (-v) <= absoluteMaxVel * (-v)  BY <1>1, <3>1, ProductMonotone
    <3>3. limit * (-v) >= 0 /\ absoluteMaxVel * (-v) >= 0  BY <1>1, <3>1
    <3>4. limit * (-v) = -(v * limit) /\ absoluteMaxVel * (-v) = -(v * absoluteMaxVel)
          /\ v * limit \in Int /\ v * absoluteMaxVel \in Int
      BY <1>1
    <3> HIDE DEF most
    <3> QED  BY <1>1, <3>2, <3>3, <3>4 DEF Higher, Lower
  <2> QED  BY <2>1, <2>2
<1>5. (right * limit) * (left * absoluteMaxVel) = (left * limit) * (right * absoluteMaxVel)
  BY <1>1
<1>6. ASSUME NEW wheel \in {"right", "left"}
      PROVE  /\ m[wheel] <= most * m.over
             /\ m[wheel] * a.over >= Lower(0, a[wheel]) * m.over
             /\ m[wheel] * a.over <= Higher(0, a[wheel]) * m.over
  <2>1. PICK v \in {right, left} : m[wheel] = v * limit /\ a[wheel] = v * absoluteMaxVel
    BY <1>3
  <2> HIDE DEF m, a, most
  <2> QED  BY <2>1, <1>1, <1>3, <1>4
<1>7. Obeys(m, a, most)
  <2> HIDE DEF m, a
  <2> QED  BY <1>3, <1>5, <1>6 DEF Obeys
<1> QED  BY <1>2, <1>7

-----------------------------------------------------------------------------
(* The recovery.                                                           *)

\* When the recovery has ended, its stop is the last of what is on the way to
\* the wheels, wherever that is, until another commands them.
StopIsLast ==
  recovery = "done" /\ ~commanded =>
    IF cmd_vel # <<>> THEN cmd_vel[Len(cmd_vel)] = Twist(0, 0)
    ELSE IF twist # <<>> THEN twist[1] = Twist(0, 0)
    ELSE motors.right = 0 /\ motors.left = 0

\* The robot is one period ahead of what the recovery believes, at most, until
\* the recovery ends.
OnePeriodAhead ==
  /\ recovery = "idle" => place = 0
  /\ Distance(current_position) < threshold_distance_ + StepLength
  /\ recovery = "loop" => Distance(place - current_position) <= StepLength
  /\ recovery = "sleep" => /\ travelled <= StepLength
                           /\ Distance(place - current_position) <= travelled
  /\ recovery = "done" => Distance(place - current_position) <= StepLength + travelled

\* It moves for one period at most after a check has failed, and for another one
\* before: an obstacle is at most two periods nearer than it should be.
TwoPeriodsNearer ==
  LET gap == obstacle - place
  IN  /\ recovery = "idle" => gap >= obstacle_distance_
      /\ recovery = "loop" => gap >= obstacle_distance_
                                       - (IF next_step_valid THEN StepLength ELSE 2 * StepLength)
      /\ recovery = "sleep" => gap >= obstacle_distance_ - travelled
                                        - (IF next_step_valid THEN 0 ELSE StepLength)
      /\ recovery = "done" => gap >= obstacle_distance_ - 2 * StepLength - travelled

DrivingInv ==
  DrivingTypes /\ WheelLimits /\ StopIsLast /\ OnePeriodAhead /\ TwoPeriodsNearer

\* What is published is last in its queue.
LEMMA PublishedOK ==
  ASSUME NEW queue \in Seq(Twists), NEW t \in Twists
  PROVE  LET q == Published(queue, t)
         IN  q \in Seq(Twists) /\ q # <<>> /\ q[Len(q)] = t
<1>1. CASE Len(queue) = QueueSize
  <2>1. Tail(queue) \in Seq(Twists)
    BY <1>1, DrivingAssumption
  <2> DEFINE rest == Tail(queue)
  <2> HIDE DEF rest
  <2>2. rest \in Seq(Twists)  BY <2>1 DEF rest
  <2>3. Append(rest, t) \in Seq(Twists) /\ Append(rest, t) # <<>>
        /\ Append(rest, t)[Len(Append(rest, t))] = t
    BY <2>2
  <2> QED  BY <1>1, <2>3 DEF Published, rest
<1>2. CASE Len(queue) # QueueSize
  <2>1. Append(queue, t) \in Seq(Twists) /\ Append(queue, t) # <<>>
        /\ Append(queue, t)[Len(Append(queue, t))] = t
    OBVIOUS
  <2> QED  BY <1>2, <2>1 DEF Published
<1> QED  BY <1>1, <1>2

\* The last message of a queue is what it was when its first one is taken out, or
\* is that one.
LEMMA LastAfterTail ==
  ASSUME NEW queue \in Seq(Twists), queue # <<>>
  PROVE  IF Tail(queue) = <<>> THEN Head(queue) = queue[Len(queue)]
                               ELSE Tail(queue)[Len(Tail(queue))] = queue[Len(queue)]
<1>1. Len(Tail(queue)) = Len(queue) - 1 /\ Len(queue) \in Nat \ {0}  OBVIOUS
<1>2. CASE Tail(queue) = <<>>
  <2>1. Len(queue) = 1  BY <1>1, <1>2
  <2> QED  BY <1>2, <2>1
<1>3. CASE Tail(queue) # <<>>
  <2>1. Len(Tail(queue)) \in 1..(Len(queue) - 1)  BY <1>1, <1>3
  <2> QED  BY <1>1, <1>3, <2>1
<1> QED  BY <1>2, <1>3

\* The robot starts at rest, with empty queues.
LEMMA DrivingInvInit == DrivingInit => DrivingInv
<1> SUFFICES ASSUME DrivingInit PROVE DrivingInv  OBVIOUS
<1> USE DrivingAssumption
<1>1. DrivingTypes
  <2>1. Wheels(0, 0, 1) \in Velocities  BY DEF Velocities, Wheels
  <2>2. <<>> \in Seq(Twists) /\ <<>> \in {<<>>} \cup {<<t>> : t \in Twists}  OBVIOUS
  <2>3. obstacle \in Int  BY DEF DrivingInit, Gaps
  <2>4. /\ recovery \in {"idle", "loop", "sleep", "done"} /\ place \in Int
        /\ current_position \in Int /\ travelled \in Nat
        /\ maxVel \in Nat
    BY DEF DrivingInit
  <2>6. next_step_valid \in BOOLEAN /\ commanded \in BOOLEAN
    BY DEF DrivingInit
  <2>5. /\ cmd_vel \in Seq(Twists) /\ twist \in {<<>>} \cup {<<t>> : t \in Twists}
        /\ motors \in Velocities /\ asked \in Velocities
    BY <2>1, <2>2 DEF DrivingInit
  <2> QED  BY <2>3, <2>4, <2>5, <2>6 DEF DrivingTypes
<1>2. WheelLimits
  <2>1. /\ motors.right = 0 /\ motors.left = 0 /\ motors.over = 1
        /\ asked.right = 0 /\ asked.left = 0 /\ asked.over = 1
    BY DEF DrivingInit, Wheels
  <2>2. LimitOf(publisher) \in Nat  BY DEF LimitOf
  <2>3. ASSUME NEW wheel \in {"right", "left"} PROVE motors[wheel] = 0 /\ asked[wheel] = 0
    BY <2>1
  <2> QED  BY <2>1, <2>2, <2>3 DEF WheelLimits, Higher, Lower
<1>3. StopIsLast /\ OnePeriodAhead /\ TwoPeriodsNearer
  BY DEF DrivingInit, StopIsLast, OnePeriodAhead, TwoPeriodsNearer, Distance, Gaps
<1> QED  BY <1>1, <1>2, <1>3 DEF DrivingInv

\* Every step of the recovery, the drive and the joystick keeps the invariant.
LEMMA DrivingInvStep == DrivingInv /\ [DrivingNext]_drivingVars => DrivingInv'
<1> SUFFICES ASSUME DrivingInv, [DrivingNext]_drivingVars PROVE DrivingInv'  OBVIOUS
<1> USE DrivingAssumption
<1>0. DrivingTypes /\ WheelLimits /\ StopIsLast /\ OnePeriodAhead /\ TwoPeriodsNearer
  BY DEF DrivingInv
<1>n. ASSUME UNCHANGED wheelVars PROVE WheelLimits'
  BY <1>0, <1>n DEF WheelLimits, wheelVars
\* The steps that leave the recovery and the robot alone.
<1>r. ASSUME UNCHANGED recoveryVars PROVE OnePeriodAhead' /\ TwoPeriodsNearer'
  BY <1>0, <1>r DEF recoveryVars, OnePeriodAhead, TwoPeriodsNearer
<1>t. Twist(-velocity_, 0) \in Twists /\ Twist(0, 0) \in Twists
  BY DEF Twist, Twists
<1>i. /\ place \in Int /\ current_position \in Int /\ obstacle \in Int /\ travelled \in Nat
      /\ threshold_distance_ \in Nat \ {0} /\ StepLength \in Nat /\ obstacle_distance_ \in Nat
  BY <1>0 DEF DrivingTypes
<1>1. CASE runBehavior
  <2>1. cmd_vel' \in Seq(Twists)  BY <1>0, <1>1, <1>t, PublishedOK DEF runBehavior, DrivingTypes
  <2>2. next_step_valid' \in BOOLEAN  BY <1>1 DEF runBehavior, nextStepValid
  <2>3. DrivingTypes'  BY <1>0, <1>1, <2>1, <2>2 DEF runBehavior, DrivingTypes, wheelVars
  <2>4. WheelLimits'  BY <1>1, <1>n DEF runBehavior
  <2>5. StopIsLast'  BY <1>1 DEF runBehavior, StopIsLast
  <2>6. OnePeriodAhead'  BY <1>0, <1>1, <1>i DEF runBehavior, OnePeriodAhead, Distance
  <2>7. TwoPeriodsNearer'  BY <1>0, <1>1, <1>i DEF runBehavior, TwoPeriodsNearer
  <2> QED  BY <2>3, <2>4, <2>5, <2>6, <2>7 DEF DrivingInv
<1>2. CASE BackUp
  <2>1. cmd_vel' \in Seq(Twists)  BY <1>0, <1>2, <1>t, PublishedOK DEF BackUp, DrivingTypes
  <2>2. next_step_valid' \in BOOLEAN  BY <1>2 DEF BackUp, nextStepValid
  <2>3. DrivingTypes'  BY <1>0, <1>2, <2>1, <2>2 DEF BackUp, DrivingTypes, wheelVars
  <2>4. WheelLimits'  BY <1>2, <1>n DEF BackUp
  <2>5. StopIsLast'  BY <1>2 DEF BackUp, StopIsLast
  <2>6. OnePeriodAhead'
    BY <1>0, <1>2, <1>i DEF BackUp, Continues, OnePeriodAhead, Distance
  <2>7. TwoPeriodsNearer'
    <3>1. /\ recovery = "loop" /\ next_step_valid /\ recovery' = "sleep" /\ travelled' = 0
          /\ place' = place /\ obstacle' = obstacle
          /\ next_step_valid' <=> place + obstacle_distance_ < obstacle
      BY <1>2 DEF BackUp, Continues, nextStepValid
    <3>2. obstacle - place >= obstacle_distance_ - StepLength
      BY <1>0, <3>1 DEF TwoPeriodsNearer
    <3>3. CASE next_step_valid'
      BY <1>i, <3>1, <3>3 DEF TwoPeriodsNearer
    <3>4. CASE ~next_step_valid'
      BY <1>i, <3>1, <3>2, <3>4 DEF TwoPeriodsNearer
    <3> QED  BY <3>3, <3>4
  <2> QED  BY <2>3, <2>4, <2>5, <2>6, <2>7 DEF DrivingInv
<1>3. CASE Move
  <2>1. /\ place' \in {place - 1, place + 1} /\ travelled' = travelled + 1
        /\ \/ recovery = "sleep" /\ travelled < StepLength
           \/ recovery = "done"
        /\ UNCHANGED <<recovery, current_position, next_step_valid, obstacle>>
    BY <1>3 DEF Move
  <2>2. DrivingTypes'  BY <1>0, <1>3, <1>i, <2>1 DEF Move, DrivingTypes, wheelVars
  <2>3. WheelLimits'  BY <1>3, <1>n DEF Move
  <2>4. StopIsLast'  BY <1>0, <1>3 DEF Move, StopIsLast, wheelVars
  <2> DEFINE ahead == place - current_position
             near == obstacle - place
  <2>5. /\ ahead' \in {ahead - 1, ahead + 1} /\ near' \in {near - 1, near + 1}
        /\ ahead \in Int /\ near \in Int
    <3>1. current_position' = current_position /\ obstacle' = obstacle
      BY <2>1
    <3>2. CASE place' = place - 1
      <4>1. ahead' = ahead - 1 /\ near' = near + 1
        BY <1>i, <3>1, <3>2
      <4> QED  BY <1>i, <4>1
    <3>3. CASE place' = place + 1
      <4>1. ahead' = ahead + 1 /\ near' = near - 1
        BY <1>i, <3>1, <3>3
      <4> QED  BY <1>i, <4>1
    <3> QED  BY <2>1, <3>2, <3>3
  <2>6. OnePeriodAhead'
    <3>0. ahead' \in Int /\ ahead \in Int
      BY <2>5
    <3>1. /\ Distance(ahead') <= Distance(ahead) + 1
          /\ Distance(ahead) \in Nat /\ Distance(ahead') \in Nat
      BY <2>5, <3>0 DEF Distance
    <3>2. recovery = "sleep" => travelled' <= StepLength
      BY <1>i, <2>1
    <3> HIDE DEF ahead
    <3>3. /\ recovery = "sleep" => Distance(ahead') <= travelled'
          /\ recovery = "done" => Distance(ahead') <= StepLength + travelled'
      <4>1. /\ recovery = "sleep" => Distance(ahead) <= travelled
            /\ recovery = "done" => Distance(ahead) <= StepLength + travelled
        BY <1>0 DEF OnePeriodAhead, ahead
      <4> DEFINE old == Distance(ahead)
                 new == Distance(ahead')
      <4>3. new \in Nat /\ old \in Nat /\ new <= old + 1
        BY <3>1
      <4> HIDE DEF old, new
      <4>4. ASSUME recovery = "sleep" PROVE new <= travelled'
        BY <1>i, <2>1, <4>1, <4>3, <4>4 DEF old
      <4>5. ASSUME recovery = "done" PROVE new <= StepLength + travelled'
        <5>1. old <= StepLength + travelled
          BY <4>1, <4>5 DEF old
        <5> QED  BY <1>i, <2>1, <4>3, <5>1
      <4> QED  BY <4>4, <4>5 DEF new
    <3>4. Distance(current_position)' < threshold_distance_ + StepLength
      BY <1>0, <2>1 DEF OnePeriodAhead, Distance
    <3>5. Distance(place - current_position)' = Distance(ahead')
      BY DEF ahead, Distance
    <3> QED  BY <2>1, <3>2, <3>3, <3>4, <3>5 DEF OnePeriodAhead
  <2>7. TwoPeriodsNearer'
    <3> DEFINE late == IF next_step_valid THEN 0 ELSE StepLength
    <3>1. late \in Nat /\ late' = late  BY <1>i, <2>1
    <3> HIDE DEF late, near
    <3>2. /\ recovery = "sleep" => near >= obstacle_distance_ - travelled - late
          /\ recovery = "done" => near >= obstacle_distance_ - 2 * StepLength - travelled
      BY <1>0 DEF TwoPeriodsNearer, late, near
    <3>3. /\ recovery = "sleep" => near' >= obstacle_distance_ - travelled' - late
          /\ recovery = "done" => near' >= obstacle_distance_ - 2 * StepLength - travelled'
      BY <1>i, <2>1, <2>5, <3>1, <3>2
    <3> QED  BY <2>1, <3>1, <3>3 DEF TwoPeriodsNearer, late, near
  <2> QED  BY <2>2, <2>3, <2>4, <2>6, <2>7 DEF DrivingInv
<1>4. CASE Sleep
  <2>1. /\ obstacle' = obstacle \/ obstacle' = place + obstacle_distance_
                                \/ obstacle' = place + (obstacle_distance_ + 1)
        /\ recovery = "sleep" /\ recovery' = "loop"
        /\ UNCHANGED <<place, current_position, next_step_valid, travelled>>
    BY <1>4 DEF Sleep, Gaps
  <2>2. DrivingTypes'  BY <1>0, <1>4, <1>i, <2>1 DEF Sleep, DrivingTypes, wheelVars
  <2>3. WheelLimits'  BY <1>4, <1>n DEF Sleep
  <2>4. StopIsLast'  BY <1>4 DEF Sleep, StopIsLast
  <2>5. OnePeriodAhead'  BY <1>0, <1>i, <2>1 DEF OnePeriodAhead, Distance
  <2>6. TwoPeriodsNearer'
    <3>1. travelled <= StepLength  BY <1>0, <2>1 DEF OnePeriodAhead
    <3> QED  BY <1>0, <1>i, <2>1, <3>1 DEF TwoPeriodsNearer
  <2> QED  BY <2>2, <2>3, <2>4, <2>5, <2>6 DEF DrivingInv
<1>5. CASE StopRobot
  <2>1. cmd_vel' \in Seq(Twists) /\ cmd_vel' # <<>> /\ cmd_vel'[Len(cmd_vel')] = Twist(0, 0)
    BY <1>0, <1>5, <1>t, PublishedOK DEF StopRobot, DrivingTypes
  <2>2. DrivingTypes'  BY <1>0, <1>5, <2>1 DEF StopRobot, DrivingTypes, wheelVars
  <2>3. WheelLimits'  BY <1>5, <1>n DEF StopRobot
  <2>4. StopIsLast'  BY <2>1 DEF StopIsLast
  <2>5. OnePeriodAhead'  BY <1>0, <1>5, <1>i DEF StopRobot, OnePeriodAhead, Distance
  <2>6. TwoPeriodsNearer'  BY <1>0, <1>5, <1>i DEF StopRobot, TwoPeriodsNearer
  <2> QED  BY <2>2, <2>3, <2>4, <2>5, <2>6 DEF DrivingInv
<1>6. CASE ControllerCommand
  <2>1. PICK x \in Speeds, z \in Rotations : cmd_vel' = Published(cmd_vel, Twist(x, z))
    BY <1>6 DEF ControllerCommand
  <2>2. Twist(x, z) \in Twists  BY DEF Twist, Twists
  <2>3. cmd_vel' \in Seq(Twists)  BY <1>0, <2>1, <2>2, PublishedOK DEF DrivingTypes
  <2>4. DrivingTypes'
    BY <1>0, <1>6, <2>3 DEF ControllerCommand, DrivingTypes, recoveryVars, wheelVars
  <2>5. WheelLimits'  BY <1>6, <1>n DEF ControllerCommand
  <2>6. StopIsLast'  BY <1>6 DEF ControllerCommand, StopIsLast, recoveryVars
  <2>7. OnePeriodAhead' /\ TwoPeriodsNearer'  BY <1>6, <1>r DEF ControllerCommand
  <2> QED  BY <2>4, <2>5, <2>6, <2>7 DEF DrivingInv
<1>7. CASE TwistArrives
  <2>1. /\ cmd_vel \in Seq(Twists) /\ cmd_vel # <<>>
        /\ twist' = <<Head(cmd_vel)>> /\ cmd_vel' = Tail(cmd_vel)
    BY <1>0, <1>7 DEF TwistArrives, DrivingTypes
  <2>2. Head(cmd_vel) \in Twists /\ Tail(cmd_vel) \in Seq(Twists)
        /\ Len(Tail(cmd_vel)) = Len(cmd_vel) - 1
    BY <2>1
  <2>3. DrivingTypes'
    BY <1>0, <1>7, <2>1, <2>2 DEF TwistArrives, DrivingTypes, recoveryVars, wheelVars
  <2>4. WheelLimits'  BY <1>7, <1>n DEF TwistArrives
  <2>5. StopIsLast'
    <3> SUFFICES ASSUME recovery = "done" /\ ~commanded PROVE StopIsLast'
      BY <1>7 DEF TwistArrives, StopIsLast, recoveryVars
    <3>1. cmd_vel[Len(cmd_vel)] = Twist(0, 0)  BY <1>0, <2>1 DEF StopIsLast
    <3>2. CASE Tail(cmd_vel) = <<>>
      <4>1. twist'[1] = Twist(0, 0) /\ twist' # <<>>  BY <2>1, <3>1, <3>2, LastAfterTail
      <4> QED  BY <2>1, <3>2, <4>1 DEF StopIsLast
    <3>3. CASE Tail(cmd_vel) # <<>>
      <4>1. Tail(cmd_vel)[Len(Tail(cmd_vel))] = cmd_vel[Len(cmd_vel)]
        BY <2>1, <3>3, LastAfterTail
      <4> QED  BY <2>1, <3>1, <3>3, <4>1 DEF StopIsLast
    <3> QED  BY <3>2, <3>3
  <2>6. OnePeriodAhead' /\ TwoPeriodsNearer'  BY <1>7, <1>r DEF TwistArrives
  <2> QED  BY <2>3, <2>4, <2>5, <2>6 DEF DrivingInv
<1>8. CASE twistToVelocity
  <2>0. twist \in {<<t>> : t \in Twists}
    BY <1>0, <1>8 DEF twistToVelocity, DrivingTypes
  <2>1. PICK t \in Twists : twist = <<t>>
    BY <2>0
  <2> DEFINE right == t.linear + t.angular
             left  == t.linear - t.angular
  <2>2. right \in Int /\ left \in Int  BY DEF Twists
  <2>3. motors' = Limited(right, left) /\ asked' = Wheels(right, left, 1)
    BY <1>8, <2>1 DEF twistToVelocity
  <2>4. Wheels(right, left, 1) \in Velocities  BY <2>2 DEF Wheels, Velocities
  <2>5. motors' \in Velocities /\ asked' \in Velocities /\ Obeys(motors', asked', max_vel_)
    BY <2>2, <2>3, <2>4, LimitedObeys
  <2>6. LimitOf(publisher') = max_vel_  BY <1>8 DEF twistToVelocity, LimitOf
  <2>7. WheelLimits'  BY <2>5, <2>6 DEF WheelLimits, Obeys, LimitOf
  <2>8. DrivingTypes'  BY <1>0, <1>8, <2>5 DEF twistToVelocity, DrivingTypes, recoveryVars
  <2>9. StopIsLast'
    <3> SUFFICES ASSUME recovery = "done", ~commanded, cmd_vel = <<>>
                 PROVE  motors'.right = 0 /\ motors'.left = 0
      BY <1>0, <1>8 DEF twistToVelocity, StopIsLast, recoveryVars
    <3>1. t = Twist(0, 0)  BY <1>0, <2>1 DEF StopIsLast
    <3>2. right = 0 /\ left = 0  BY <3>1 DEF Twist
    <3>3. Limited(0, 0) = Wheels(0, 0, 1)  BY DEF Limited, Higher
    <3> QED  BY <2>3, <3>2, <3>3 DEF Wheels
  <2>10. OnePeriodAhead' /\ TwoPeriodsNearer'  BY <1>8, <1>r DEF twistToVelocity
  <2> QED  BY <2>7, <2>8, <2>9, <2>10 DEF DrivingInv
<1>9. CASE joyCallback
  <2>1. PICK change \in {-maxVelIncr, 0, maxVelIncr} :
          maxVel' = Higher(Lower(maxVel + change, absoluteMaxVel), 0)
    BY <1>9 DEF joyCallback
  <2>2. maxVel' \in Nat /\ maxVel' <= absoluteMaxVel
    BY <1>0, <2>1 DEF Higher, Lower, DrivingTypes
  <2>3. PICK right \in Axes, left \in Axes :
          /\ motors' = Wheels(right * maxVel', left * maxVel', 100)
          /\ asked' = Wheels(right * absoluteMaxVel, left * absoluteMaxVel, 100)
    BY <1>9 DEF joyCallback
  <2>4. motors' \in Velocities /\ asked' \in Velocities /\ Obeys(motors', asked', absoluteMaxVel)
    BY <2>2, <2>3, JoystickObeys
  <2>5. LimitOf(publisher') = absoluteMaxVel  BY <1>9 DEF joyCallback, LimitOf
  <2>6. WheelLimits'  BY <2>4, <2>5 DEF WheelLimits, Obeys, LimitOf
  <2>7. DrivingTypes'  BY <1>0, <1>9, <2>2, <2>4 DEF joyCallback, DrivingTypes, recoveryVars
  <2>8. StopIsLast'  BY <1>9 DEF joyCallback, StopIsLast, recoveryVars
  <2>9. OnePeriodAhead' /\ TwoPeriodsNearer'  BY <1>9, <1>r DEF joyCallback
  <2> QED  BY <2>6, <2>7, <2>8, <2>9 DEF DrivingInv
<1>10. CASE UNCHANGED drivingVars
  <2>1. UNCHANGED recoveryVars /\ UNCHANGED wheelVars
    BY <1>10 DEF drivingVars, recoveryVars, wheelVars
  <2>2. DrivingTypes' /\ StopIsLast'
    BY <1>0, <1>10 DEF drivingVars, DrivingTypes, StopIsLast
  <2> QED  BY <1>n, <1>r, <2>1, <2>2 DEF DrivingInv
<1> QED  BY <1>1, <1>2, <1>3, <1>4, <1>5, <1>6, <1>7, <1>8, <1>9, <1>10 DEF DrivingNext

\* In every behaviour no wheel exceeds the limit of the node that commands it,
\* nor what was asked for, and the curve is kept.
THEOREM WheelsKeepLimits == DrivingSpec => []WheelLimits
<1>1. DrivingInv => WheelLimits  BY DEF DrivingInv
<1> QED  BY <1>1, DrivingInvInit, DrivingInvStep, PTL DEF DrivingSpec

\* In every behaviour, whatever the controller and the joystick do meanwhile: when
\* the stop of the recovery has arrived the wheels are at rest until another
\* moves them, and when it was published the robot was within two periods of
\* the threshold, and of the distance to an obstacle.
THEOREM RecoveryStops == DrivingSpec => []RecoveryEndsStopped
<1>1. DrivingInv => RecoveryEndsStopped
  <2> SUFFICES ASSUME DrivingInv, recovery = "done"
               PROVE  /\ cmd_vel = <<>> /\ twist = <<>> /\ ~commanded => motors.right = 0 /\ motors.left = 0
                      /\ Distance(place) < threshold_distance_ + 2 * StepLength + travelled
                      /\ obstacle - place >= obstacle_distance_ - 2 * StepLength - travelled
    BY DEF RecoveryEndsStopped
  <2>1. cmd_vel = <<>> /\ twist = <<>> /\ ~commanded => motors.right = 0 /\ motors.left = 0
    BY DEF DrivingInv, StopIsLast
  <2>2. /\ place \in Int /\ current_position \in Int /\ travelled \in Nat
        /\ threshold_distance_ \in Nat /\ StepLength \in Nat
    BY DrivingAssumption DEF DrivingInv, DrivingTypes
  <2>3. Distance(place) < threshold_distance_ + 2 * StepLength + travelled
    BY <2>2 DEF DrivingInv, OnePeriodAhead, Distance
  <2>4. obstacle - place >= obstacle_distance_ - 2 * StepLength - travelled
    BY DEF DrivingInv, TwoPeriodsNearer
  <2> QED  BY <2>1, <2>3, <2>4
<1> QED  BY <1>1, DrivingInvInit, DrivingInvStep, PTL DEF DrivingSpec

-----------------------------------------------------------------------------
(* The waypoint client.  The invariant speaks of a client that reads from a *)
(* file: what it has parsed so far is what its lines say, what it has       *)
(* converted is what it has parsed, and what the server got is what it has  *)
(* converted.  A file that was given up leaves no points and no ROS.        *)

Poses == [at : Int \X Int, by : Nat]
Goals == [pose : Poses, fix_goal_orientation : {TRUE}]

ClientTypes ==
  /\ file \in Seq(Lines) \/ file = Unreadable
  /\ client \in {"transform", "server", "loading", "parsing", "converting", "sending",
                 "waiting", "spinning", "ended"}
  /\ read \in Nat /\ coordinates \in Seq(Int \X Int) /\ waypoints \in Seq(Poses)
  /\ sent \in Nat /\ overtaken \in Nat /\ transform \in Nat
  /\ ok \in BOOLEAN /\ active \in BOOLEAN

\* The first n lines are well formed, and the points are those of these lines.
Good(lines, n) == \A k \in Points(lines, n) : TwoTokens(lines[k]) /\ CanBeRead(lines[k])
Follows(points, lines, n) ==
  /\ Len(points) = Cardinality(Points(lines, n))
  /\ \A i \in 1..Len(points) : \E k \in Points(lines, n) :
       Cardinality(Points(lines, k)) = i /\ points[i] = PointOf(lines[k])
Parsed == file # Unreadable /\ Good(file, read) /\ Follows(coordinates, file, read)
Whole == Parsed /\ read = Len(file)

ParseInv ==
  /\ client \in {"transform", "server", "loading"} => read = 0 /\ coordinates = <<>>
  /\ client = "parsing" => Parsed /\ read <= Len(file)
  /\ client \in {"converting", "sending", "waiting", "spinning"} =>
       Whole \/ (coordinates = <<>> /\ ~ok)

\* The waypoints are the points, each by a transform of its time.
ConvertInv ==
  /\ client \in {"transform", "server", "loading", "parsing"} => waypoints = <<>>
  /\ Len(waypoints) <= Len(coordinates)
  /\ client \in {"sending", "waiting", "spinning"} => Len(waypoints) = Len(coordinates)
  /\ \A i \in 1..Len(waypoints) : waypoints[i].at = coordinates[i] /\ waypoints[i].by <= transform
  /\ \A i, j \in 1..Len(waypoints) : i < j => waypoints[i].by <= waypoints[j].by

\* What has reached the server is what has been sent before a shutdown.
SendInv ==
  /\ client \in {"transform", "server", "loading", "parsing", "converting"} =>
       sent = 0 /\ delivered = <<>> /\ ~active
  /\ sent <= Len(waypoints)
  /\ delivered \in Seq(Goals) /\ Len(delivered) <= sent
  /\ ok => Len(delivered) = sent \/ client = "ended"
  /\ \A i \in 1..Len(delivered) : delivered[i].pose = waypoints[i]
  /\ client = "sending" => ~active \/ ~ok
  /\ client = "spinning" => sent = Len(waypoints)
  /\ overtaken = 0
  /\ delivered # <<>> => Whole

ClientInv == reading_from_file_ => ClientTypes /\ ParseInv /\ ConvertInv /\ SendInv

\* Reading one more line.
LEMMA PointsGrow ==
  ASSUME NEW lines, NEW n \in Nat
  PROVE  /\ IsFiniteSet(Points(lines, n)) /\ Cardinality(Points(lines, n)) \in Nat
         /\ IsPoint(lines[n + 1]) =>
              /\ Points(lines, n + 1) = Points(lines, n) \cup {n + 1}
              /\ Cardinality(Points(lines, n + 1)) = Cardinality(Points(lines, n)) + 1
         /\ ~IsPoint(lines[n + 1]) => Points(lines, n + 1) = Points(lines, n)
<1>1. IsFiniteSet(Points(lines, n)) /\ Cardinality(Points(lines, n)) \in Nat
  <2>1. IsFiniteSet(1..n)
    BY FS_Interval
  <2>2. Points(lines, n) \in SUBSET (1..n)
    BY DEF Points
  <2>3. IsFiniteSet(Points(lines, n))
    BY <2>1, <2>2, FS_Subset
  <2>. QED
    BY <2>3, FS_CardinalityType
<1>2. 1..(n + 1) = (1..n) \cup {n + 1}
  OBVIOUS
<1>3. ASSUME IsPoint(lines[n + 1])
      PROVE  /\ Points(lines, n + 1) = Points(lines, n) \cup {n + 1}
             /\ Cardinality(Points(lines, n + 1)) = Cardinality(Points(lines, n)) + 1
  <2>1. Points(lines, n + 1) = Points(lines, n) \cup {n + 1}
    BY <1>2, <1>3 DEF Points
  <2>2. n + 1 \notin Points(lines, n)
    BY DEF Points
  <2>3. Cardinality(Points(lines, n) \cup {n + 1}) =
          IF n + 1 \in Points(lines, n) THEN Cardinality(Points(lines, n)) ELSE Cardinality(Points(lines, n)) + 1
    BY <1>1, FS_AddElement
  <2>. QED
    BY <2>1, <2>2, <2>3
<1>4. ASSUME ~IsPoint(lines[n + 1]) PROVE Points(lines, n + 1) = Points(lines, n)
  BY <1>2, <1>4 DEF Points
<1>. QED
  BY <1>1, <1>3, <1>4

\* A line that can be read has a latitude and a longitude.
LEMMA CoordinatesAre ==
  ASSUME NEW line \in Lines, TwoTokens(line), CanBeRead(line)
  PROVE  /\ PointOf(line) \in Int \X Int
         /\ \A j \in 1..2 : WellFormed(line.tokens[j]) => PointOf(line)[j] = Angle(line.tokens[j])
<1>1. line.tokens \in Seq(Tokens) /\ Len(line.tokens) = 2
  BY DEF Lines, TwoTokens
<1>2. line.tokens[1] \in Tokens /\ line.tokens[2] \in Tokens
  BY <1>1
<1>3. ASSUME NEW t \in Tokens, HasNumbers(t)
      PROVE  /\ Coordinate(t) \in Int
             /\ WellFormed(t) => Coordinate(t) = Angle(t)
  <2>1. /\ t.numbers \in Seq(Int) /\ t.dms \in BOOLEAN /\ t.apostrophe \in BOOLEAN
    BY DEF Tokens
  <2>. DEFINE numbers == t.numbers
  <2>2. CASE ~t.dms
    <3>1. numbers[1] \in Int
      BY <1>3, <2>1, <2>2 DEF HasNumbers
    <3>2. Coordinate(t) = numbers[1] /\ Angle(t) = numbers[1]
      BY <2>1, <2>2 DEF Coordinate, Angle
    <3>. QED
      BY <3>1, <3>2
  <2>3. CASE t.dms /\ t.apostrophe
    <3>1. numbers[1] \in Int /\ numbers[2] \in Int /\ numbers[3] \in Int
      BY <1>3, <2>1, <2>3 DEF HasNumbers
    <3>. DEFINE size == numbers[1] * 3600 + numbers[2] * 60 + numbers[3]
    <3>2. size \in Int
      BY <3>1
    <3>3. Coordinate(t) = IF t.direction \in {"W", "S"} THEN -size ELSE size
      BY <2>3 DEF Coordinate, convertDmsToDec
    <3>4. Angle(t) = IF t.direction \in {"N", "E"} THEN size ELSE -size
      BY <2>3 DEF Angle
    <3>. HIDE DEF size
    <3>5. Coordinate(t) \in Int
      BY <3>2, <3>3
    <3>6. WellFormed(t) => t.direction \in {"N", "S", "E", "W"}
      BY <2>3 DEF WellFormed
    <3>7. WellFormed(t) => Coordinate(t) = Angle(t)
      BY <3>3, <3>4, <3>6
    <3>. QED
      BY <3>5, <3>7
  <2>4. CASE t.dms /\ ~t.apostrophe
    <3>1. numbers[1] \in Int /\ numbers[2] \in Int
      BY <1>3, <2>1, <2>4 DEF HasNumbers
    <3>. DEFINE size == numbers[1] * 3600 + numbers[2] * 60 + numbers[1]
    <3>2. size \in Int
      BY <3>1
    <3>3. Coordinate(t) = IF t.direction \in {"W", "S"} THEN -size ELSE size
      BY <2>4 DEF Coordinate, convertDmsToDec
    <3>. HIDE DEF size
    <3>4. Coordinate(t) \in Int /\ ~WellFormed(t)
      BY <2>4, <3>2, <3>3 DEF WellFormed
    <3>. QED
      BY <3>4
  <2>. QED
    BY <2>1, <2>2, <2>3, <2>4
<1>4. /\ HasNumbers(line.tokens[1]) /\ HasNumbers(line.tokens[2])
  BY DEF CanBeRead
<1>5. /\ PointOf(line)[1] = Coordinate(line.tokens[1]) /\ PointOf(line)[2] = Coordinate(line.tokens[2])
      /\ PointOf(line) = <<Coordinate(line.tokens[1]), Coordinate(line.tokens[2])>>
  BY DEF PointOf
<1>6. /\ Coordinate(line.tokens[1]) \in Int /\ Coordinate(line.tokens[2]) \in Int
      /\ WellFormed(line.tokens[1]) => Coordinate(line.tokens[1]) = Angle(line.tokens[1])
      /\ WellFormed(line.tokens[2]) => Coordinate(line.tokens[2]) = Angle(line.tokens[2])
  BY <1>2, <1>3, <1>4
<1>7. \A j \in 1..2 : j = 1 \/ j = 2
  OBVIOUS
<1>. QED
  BY <1>5, <1>6, <1>7

\* What has been parsed depends on the file and on where the loop is.
LEMMA ParsedStays ==
  ASSUME UNCHANGED <<file, read, coordinates>>
  PROVE  (Parsed' <=> Parsed) /\ (Whole' <=> Whole)
<1>1. file' = file /\ read' = read /\ coordinates' = coordinates
  OBVIOUS
<1>. QED
  BY <1>1 DEF Parsed, Whole

\* Steps that neither read, convert nor send.
Idles ==
  /\ UNCHANGED <<sent, loaderVars, delivered, overtaken, reading_from_file_, file>>
  /\ active' \in BOOLEAN /\ (active' => active)
  /\ ok' \in BOOLEAN /\ (ok' => ok)
  /\ transform' \in Nat /\ transform <= transform'
  /\ \/ client' = client
     \/ client = "transform" /\ client' = "server"
     \/ client = "server" /\ client' = "loading"
     \/ client = "loading" /\ client' = "converting" /\ ~ok'
     \/ client = "loading" /\ client' = "parsing" /\ file # Unreadable
     \/ client = "parsing" /\ client' = "converting" /\ read = Len(file)
     \/ client = "converting" /\ client' = "sending" /\ Len(waypoints) = Len(coordinates)
     \/ client = "waiting" /\ client' = "sending" /\ (~active \/ ~ok)
     \/ client = "sending" /\ client' = "spinning" /\ sent = Len(waypoints)
     \/ client = "spinning" /\ client' = "ended"

\* Waiting for the server or a transform delivers nothing.
LEMMA IdlingKeepsInv ==
  ASSUME ClientInv, reading_from_file_, Idles
  PROVE  ClientInv'
<1>0. /\ file' = file /\ read' = read /\ coordinates' = coordinates /\ waypoints' = waypoints
      /\ sent' = sent /\ delivered' = delivered /\ overtaken' = overtaken
      /\ reading_from_file_' = reading_from_file_
  BY DEF Idles, loaderVars
<1>1. (Parsed' <=> Parsed) /\ (Whole' <=> Whole)
  BY <1>0, ParsedStays
<1>2. ClientTypes'
  BY <1>0 DEF ClientInv, ClientTypes, Idles
<1>3. ParseInv'
  <2>1. CASE client = "loading" /\ client' = "parsing" /\ file # Unreadable
    <3>1. read = 0 /\ coordinates = <<>>
      BY <2>1 DEF ClientInv, ParseInv
    <3>2. Points(file, 0) = {} /\ Cardinality({}) = 0 /\ Len(<<>>) = 0
      BY FS_EmptySet DEF Points
    <3>3. Good(file, 0) /\ Follows(<<>>, file, 0)
      BY <3>2 DEF Good, Follows
    <3>4. read <= Len(file)
      <4>1. file \in Seq(Lines)
        BY <2>1 DEF ClientInv, ClientTypes
      <4>. QED
        BY <3>1, <4>1
    <3>. QED
      BY <1>0, <1>1, <2>1, <3>1, <3>3, <3>4 DEF ParseInv, Parsed
  <2>2. CASE client = "parsing" /\ client' = "converting" /\ read = Len(file)
    BY <1>0, <1>1, <2>2 DEF ClientInv, ParseInv, Whole
  <2>3. CASE ~(client = "loading" /\ client' = "parsing") /\ client # "parsing"
    BY <1>0, <1>1, <2>3 DEF ClientInv, ParseInv, Idles
  <2>4. CASE client = "parsing" /\ client' = "parsing"
    BY <1>0, <1>1, <2>4 DEF ClientInv, ParseInv
  <2>. QED
    BY <2>1, <2>2, <2>3, <2>4 DEF Idles
<1>4. ConvertInv'
  <2>1. \A i \in 1..Len(waypoints) : waypoints[i].at = coordinates[i] /\ waypoints[i].by <= transform'
    <3>. SUFFICES ASSUME NEW i \in 1..Len(waypoints)
                  PROVE  waypoints[i].at = coordinates[i] /\ waypoints[i].by <= transform'
      OBVIOUS
    <3>1. waypoints[i] \in Poses
      BY DEF ClientInv, ClientTypes
    <3>2. waypoints[i].at = coordinates[i] /\ waypoints[i].by <= transform
      BY DEF ClientInv, ConvertInv
    <3>3. waypoints[i].by \in Nat /\ transform \in Nat /\ transform' \in Nat /\ transform <= transform'
      BY <3>1 DEF Poses, ClientInv, ClientTypes, Idles
    <3>. QED
      BY <3>2, <3>3
  <2>. QED
    BY <1>0, <2>1 DEF ClientInv, ConvertInv, Idles
<1>5. SendInv'
  BY <1>0, <1>1 DEF ClientInv, SendInv, ConvertInv, ClientTypes, Idles
<1>. QED
  BY <1>0, <1>2, <1>3, <1>4, <1>5 DEF ClientInv

\* A line that is parsed adds its point, or gives the file up.
LEMMA ParsingKeepsInv ==
  ASSUME ClientInv, reading_from_file_, parseWaypointFile
  PROVE  ClientInv'
<1>. DEFINE line == file[read + 1]
<1>0. /\ file' = file /\ waypoints' = waypoints /\ sent' = sent /\ transform' = transform
      /\ delivered' = delivered /\ overtaken' = overtaken /\ active' = active
      /\ reading_from_file_' = reading_from_file_ /\ read' = read + 1
  BY DEF parseWaypointFile, goalVars, aroundVars
<1>1. /\ client = "parsing" /\ Parsed /\ read \in Nat /\ read < Len(file)
      /\ waypoints = <<>> /\ sent = 0 /\ delivered = <<>> /\ ~active /\ overtaken = 0
  BY DEF parseWaypointFile, ClientInv, ClientTypes, ParseInv, ConvertInv, SendInv
<1>2. file \in Seq(Lines) /\ file # Unreadable
  BY <1>1 DEF Parsed, ClientInv, ClientTypes
<1>3. line \in Lines /\ Len(file) \in Nat
  BY <1>1, <1>2
<1>5. /\ coordinates \in Seq(Int \X Int) /\ Good(file, read) /\ Follows(coordinates, file, read)
      /\ transform \in Nat /\ ok \in BOOLEAN
  BY <1>1 DEF ClientInv, ClientTypes, Parsed
<1>. HIDE DEF line
\* It is enough to look at what becomes of the coordinates.
<1>6. ASSUME coordinates' \in Seq(Int \X Int), ok' \in BOOLEAN,
             \/ client' = "parsing" /\ Good(file, read + 1) /\ Follows(coordinates', file, read + 1) /\ ok' = ok
             \/ client' = "converting" /\ coordinates' = <<>> /\ ~ok'
             \/ client' = "ended"
      PROVE  ClientInv'
  <2>1. ClientTypes'
    BY <1>0, <1>1, <1>6 DEF ClientInv, ClientTypes
  <2>3. ParseInv'
    <3>1. CASE client' = "parsing" /\ Good(file, read + 1) /\ Follows(coordinates', file, read + 1)
      <4>3. Parsed'
        BY <1>0, <1>2, <3>1 DEF Parsed
      <4>4. read' <= Len(file')
        BY <1>0, <1>1, <1>3
      <4>. QED
        BY <3>1, <4>3, <4>4 DEF ParseInv
    <3>2. CASE client' # "parsing"
      BY <1>6, <3>2 DEF ParseInv
    <3>. QED
      BY <1>6, <3>1, <3>2
  <2>4. ConvertInv'
    <3>1. Len(waypoints') = 0 /\ Len(coordinates') \in Nat
      BY <1>0, <1>1, <1>6
    <3>. QED
      BY <1>0, <1>1, <1>6, <3>1 DEF ConvertInv
  <2>5. SendInv'
    <3>1. Len(waypoints') = 0 /\ Len(delivered') = 0 /\ delivered' \in Seq(Goals)
      BY <1>0, <1>1
    <3>. QED
      BY <1>0, <1>1, <1>6, <3>1 DEF SendInv
  <2>. QED
    BY <1>0, <2>1, <2>3, <2>4, <2>5 DEF ClientInv
<1>7. CASE ~IsPoint(line)
  <2>1. client' = client /\ coordinates' = coordinates /\ ok' = ok
    BY <1>7 DEF parseWaypointFile, line
  <2>2. Points(file, read + 1) = Points(file, read)
    BY <1>1, <1>7, PointsGrow DEF line
  <2>3. Good(file, read + 1) /\ Follows(coordinates', file, read + 1)
    BY <1>5, <2>1, <2>2 DEF Good, Follows
  <2>. QED
    BY <1>1, <1>5, <1>6, <2>1, <2>3
<1>8. CASE IsPoint(line) /\ ~TwoTokens(line)
  <2>1. coordinates' = <<>> /\ client' = "converting" /\ ok' = FALSE
    BY <1>8 DEF parseWaypointFile, line, BadLine
  <2>2. coordinates' \in Seq(Int \X Int)
    BY <2>1
  <2>. QED
    BY <1>6, <2>1, <2>2
<1>9. CASE IsPoint(line) /\ TwoTokens(line) /\ ~CanBeRead(line)
  <2>1. client' = "ended" /\ coordinates' = coordinates /\ ok' = ok
    BY <1>9 DEF parseWaypointFile, line
  <2>. QED
    BY <1>5, <1>6, <2>1
<1>10. CASE IsPoint(line) /\ TwoTokens(line) /\ CanBeRead(line)
  <2>1. /\ client' = client /\ ok' = ok
        /\ coordinates' = Append(coordinates, PointOf(line))
    BY <1>10 DEF parseWaypointFile, line
  <2>2. PointOf(line) \in Int \X Int
    BY <1>3, <1>10, CoordinatesAre
  <2>3. /\ Points(file, read + 1) = Points(file, read) \cup {read + 1}
        /\ Cardinality(Points(file, read + 1)) = Cardinality(Points(file, read)) + 1
        /\ Cardinality(Points(file, read)) \in Nat
    BY <1>1, <1>10, PointsGrow DEF line
  <2>4. Good(file, read + 1)
    BY <1>5, <1>10, <2>3 DEF Good, line
  <2>5. /\ coordinates' \in Seq(Int \X Int) /\ Len(coordinates') = Len(coordinates) + 1
        /\ coordinates'[Len(coordinates) + 1] = PointOf(line)
        /\ \A i \in 1..Len(coordinates) : coordinates'[i] = coordinates[i]
    BY <1>5, <2>1, <2>2
  <2>6. Len(coordinates) = Cardinality(Points(file, read)) /\ Len(coordinates) \in Nat
    BY <1>5 DEF Follows
  <2>7. ASSUME NEW i \in 1..Len(coordinates')
        PROVE  \E k \in Points(file, read + 1) :
                 Cardinality(Points(file, k)) = i /\ coordinates'[i] = PointOf(file[k])
    <3>1. CASE i = Len(coordinates) + 1
      <4>1. read + 1 \in Points(file, read + 1) /\ Cardinality(Points(file, read + 1)) = i
        BY <2>3, <2>6, <3>1
      <4>2. coordinates'[i] = PointOf(file[read + 1])
        BY <2>5, <3>1 DEF line
      <4>. QED
        BY <4>1, <4>2
    <3>2. CASE i # Len(coordinates) + 1
      <4>1. i \in 1..Len(coordinates)
        BY <2>5, <2>6, <3>2
      <4>2. PICK k \in Points(file, read) :
              Cardinality(Points(file, k)) = i /\ coordinates[i] = PointOf(file[k])
        BY <1>5, <4>1 DEF Follows
      <4>. QED
        BY <2>3, <2>5, <4>1, <4>2
    <3>. QED
      BY <3>1, <3>2
  <2>8. Follows(coordinates', file, read + 1)
    <3>1. Len(coordinates') = Cardinality(Points(file, read + 1))
      BY <2>3, <2>5, <2>6
    <3>. QED
      BY <2>7, <3>1 DEF Follows
  <2>. QED
    BY <1>1, <1>5, <1>6, <2>1, <2>4, <2>5, <2>8
<1>. QED
  BY <1>7, <1>8, <1>9, <1>10

\* A waypoint that is converted uses no older transform.
LEMMA ConvertingKeepsInv ==
  ASSUME ClientInv, reading_from_file_, ConvertWaypoint
  PROVE  ClientInv'
<1>. DEFINE last == Len(waypoints) + 1
           pose == convertLatLongToOdom(coordinates[last])
<1>1. /\ file' = file /\ read' = read /\ coordinates' = coordinates /\ sent' = sent
      /\ transform' = transform /\ ok' = ok /\ client' = client /\ client = "converting"
      /\ delivered' = delivered /\ overtaken' = overtaken /\ active' = active
      /\ waypoints' = Append(waypoints, pose)
      /\ Len(waypoints) < Len(coordinates)
  BY DEF ConvertWaypoint, goalVars, aroundVars
<1>2. (Parsed' <=> Parsed) /\ (Whole' <=> Whole)
  BY <1>1, ParsedStays
<1>3. /\ coordinates \in Seq(Int \X Int) /\ waypoints \in Seq(Poses) /\ transform \in Nat
      /\ sent = 0 /\ delivered = <<>> /\ ~active /\ overtaken = 0
  BY <1>1 DEF ClientInv, ClientTypes, SendInv
<1>4. Len(waypoints) \in Nat /\ Len(coordinates) \in Nat /\ last \in 1..Len(coordinates)
  BY <1>1, <1>3
<1>5. coordinates[last] \in Int \X Int
  BY <1>3, <1>4
<1>6. pose \in Poses /\ pose.at = coordinates[last] /\ pose.by = transform
  BY <1>3, <1>5 DEF convertLatLongToOdom, Poses
<1>. HIDE DEF pose
<1>7. /\ waypoints' \in Seq(Poses) /\ Len(waypoints') = last /\ waypoints'[last] = pose
      /\ \A i \in 1..Len(waypoints) : waypoints'[i] = waypoints[i]
  BY <1>1, <1>3, <1>6
<1>8. ClientTypes'
  BY <1>1, <1>7 DEF ClientInv, ClientTypes
<1>9. ParseInv'
  BY <1>1, <1>2 DEF ClientInv, ParseInv
<1>10. \A i \in 1..Len(waypoints') : waypoints'[i].at = coordinates[i] /\ waypoints'[i].by <= transform
  <2>. SUFFICES ASSUME NEW i \in 1..Len(waypoints')
                PROVE  waypoints'[i].at = coordinates[i] /\ waypoints'[i].by <= transform
    OBVIOUS
  <2>1. CASE i = last
    BY <1>3, <1>6, <1>7, <2>1
  <2>2. CASE i # last
    <3>1. i \in 1..Len(waypoints)
      BY <1>4, <1>7, <2>2
    <3>. QED
      BY <1>7, <3>1 DEF ClientInv, ConvertInv
  <2>. QED
    BY <2>1, <2>2
<1>11. \A i, j \in 1..Len(waypoints') : i < j => waypoints'[i].by <= waypoints'[j].by
  <2>. SUFFICES ASSUME NEW i \in 1..Len(waypoints'), NEW j \in 1..Len(waypoints'), i < j
                PROVE  waypoints'[i].by <= waypoints'[j].by
    OBVIOUS
  <2>1. i \in 1..Len(waypoints) /\ (j = last \/ j \in 1..Len(waypoints))
    BY <1>4, <1>7
  <2>2. CASE j = last
    BY <1>6, <1>7, <1>10, <2>2
  <2>3. CASE j \in 1..Len(waypoints)
    BY <1>7, <2>1, <2>3 DEF ClientInv, ConvertInv
  <2>. QED
    BY <2>1, <2>2, <2>3
<1>12. Len(waypoints') <= Len(coordinates)
  BY <1>4, <1>7
<1>13. ConvertInv'
  BY <1>1, <1>10, <1>11, <1>12 DEF ConvertInv
<1>14. SendInv'
  <2>1. Len(delivered') = 0 /\ delivered' \in Seq(Goals) /\ sent' <= Len(waypoints')
    BY <1>1, <1>3, <1>4, <1>7
  <2>. QED
    BY <1>1, <1>3, <2>1 DEF SendInv
<1>. QED
  BY <1>8, <1>9, <1>13, <1>14 DEF ClientInv

\* A goal is sent when the one before has ended.
LEMMA SendingKeepsInv ==
  ASSUME ClientInv, reading_from_file_, sendWaypoints
  PROVE  ClientInv'
<1>. DEFINE goal == [pose |-> waypoints[sent + 1], fix_goal_orientation |-> TRUE]
<1>1. /\ file' = file /\ read' = read /\ coordinates' = coordinates /\ waypoints' = waypoints
      /\ transform' = transform /\ ok' = ok /\ client' = "waiting" /\ client = "sending"
      /\ sent < Len(waypoints) /\ sent' = sent + 1
      /\ delivered' = IF ok THEN Append(delivered, goal) ELSE delivered
      /\ active' = (active \/ ok)
      /\ overtaken' = IF ok /\ active THEN overtaken + 1 ELSE overtaken
  BY DEF sendWaypoints, sendGoal, loaderVars, aroundVars
<1>2. (Parsed' <=> Parsed) /\ (Whole' <=> Whole)
  BY <1>1, ParsedStays
<1>3. /\ coordinates \in Seq(Int \X Int) /\ waypoints \in Seq(Poses) /\ sent \in Nat
      /\ ok \in BOOLEAN /\ active \in BOOLEAN
      /\ delivered \in Seq(Goals) /\ Len(delivered) <= sent /\ (ok => Len(delivered) = sent)
      /\ overtaken = 0 /\ (~active \/ ~ok)
      /\ Len(waypoints) = Len(coordinates) /\ (Whole \/ (coordinates = <<>> /\ ~ok))
  BY <1>1 DEF ClientInv, ClientTypes, ParseInv, ConvertInv, SendInv
<1>4. sent + 1 \in 1..Len(waypoints) /\ Len(waypoints) \in Nat /\ Len(delivered) \in Nat
  BY <1>1, <1>3
<1>5. waypoints[sent + 1] \in Poses
  BY <1>3, <1>4
<1>6. goal \in Goals /\ goal.pose = waypoints[sent + 1]
  BY <1>5 DEF Goals
<1>. HIDE DEF goal
<1>7. Whole
  <2>1. coordinates # <<>>
    BY <1>3, <1>4
  <2>. QED
    BY <1>3, <2>1
<1>8. overtaken' = 0 /\ active' \in BOOLEAN
  BY <1>1, <1>3
<1>9. ClientTypes'
  BY <1>1, <1>3, <1>8 DEF ClientInv, ClientTypes
<1>10. ParseInv' /\ ConvertInv'
  BY <1>1, <1>2, <1>3, <1>7 DEF ClientInv, ParseInv, ConvertInv
<1>11. /\ delivered' \in Seq(Goals) /\ Len(delivered') <= sent' /\ (ok => Len(delivered') = sent')
       /\ \A i \in 1..Len(delivered') : delivered'[i].pose = waypoints[i]
  <2>1. CASE ok
    <3>1. /\ delivered' \in Seq(Goals) /\ Len(delivered') = sent + 1 /\ delivered'[sent + 1] = goal
          /\ \A i \in 1..sent : delivered'[i] = delivered[i]
      BY <1>1, <1>3, <1>6, <2>1
    <3>2. ASSUME NEW i \in 1..Len(delivered') PROVE delivered'[i].pose = waypoints[i]
      <4>1. CASE i = sent + 1
        BY <1>6, <3>1, <4>1
      <4>2. CASE i # sent + 1
        <5>1. i \in 1..sent /\ i \in 1..Len(delivered)
          BY <1>3, <2>1, <3>1, <4>2
        <5>. QED
          BY <3>1, <5>1 DEF ClientInv, SendInv
      <4>. QED
        BY <4>1, <4>2
    <3>3. Len(delivered') <= sent' /\ Len(delivered') = sent'
      BY <1>1, <1>3, <3>1
    <3>. QED
      BY <3>1, <3>2, <3>3
  <2>2. CASE ~ok
    <3>1. delivered' = delivered
      BY <1>1, <2>2
    <3>2. Len(delivered) <= sent'
      BY <1>1, <1>3, <1>4
    <3>. QED
      BY <1>3, <2>2, <3>1, <3>2 DEF ClientInv, SendInv
  <2>. QED
    BY <1>3, <2>1, <2>2
<1>12. SendInv'
  <2>1. sent' <= Len(waypoints')
    BY <1>1, <1>3, <1>4
  <2>. QED
    BY <1>1, <1>2, <1>7, <1>8, <1>11, <2>1 DEF SendInv
<1>. QED
  BY <1>9, <1>10, <1>12 DEF ClientInv

\* The other steps of the node and of what is around it only idle.
LEMMA OthersIdle ==
  ASSUME ClientInv, reading_from_file_, [ClientNext]_clientVars,
         ~parseWaypointFile, ~ConvertWaypoint, ~sendWaypoints
  PROVE  Idles
<1>0. active \in BOOLEAN /\ ok \in BOOLEAN /\ transform \in Nat /\ transform <= transform
  BY DEF ClientInv, ClientTypes
<1>. USE DEF Idles, loaderVars, goalVars, aroundVars
<1>1. CASE waitForTransform
  BY <1>0, <1>1 DEF waitForTransform
<1>2. CASE waitForServer
  BY <1>0, <1>2 DEF waitForServer
<1>3. CASE loadWaypointsFromFile
  BY <1>0, <1>3 DEF loadWaypointsFromFile
<1>4. CASE EndOfFile
  BY <1>0, <1>4 DEF EndOfFile
<1>5. CASE Loaded
  BY <1>0, <1>5 DEF Loaded
<1>6. CASE GoalEnded
  BY <1>0, <1>6 DEF GoalEnded
<1>7. CASE Constructed
  BY <1>0, <1>7 DEF Constructed
<1>8. CASE rvizWaypointCallback
  BY <1>0, <1>8 DEF rvizWaypointCallback
<1>9. CASE SpinEnds
  BY <1>0, <1>9 DEF SpinEnds
<1>10. CASE RvizPose
  BY <1>0, <1>10 DEF RvizPose
<1>11. CASE ServerEndsGoal
  BY <1>0, <1>11 DEF ServerEndsGoal
<1>12. CASE Localized
  <2>1. transform' \in Nat /\ transform <= transform'
    BY <1>0, <1>12, ClientAssumption DEF Localized
  <2>. QED
    BY <1>0, <1>12, <2>1 DEF Localized
<1>13. CASE Shutdown
  BY <1>0, <1>13 DEF Shutdown
<1>14. CASE UNCHANGED clientVars
  BY <1>0, <1>14 DEF clientVars
<1>. QED
  BY <1>1, <1>2, <1>3, <1>4, <1>5, <1>6, <1>7, <1>8, <1>9, <1>10, <1>11, <1>12, <1>13, <1>14
     DEF ClientNext

\* The client starts with nothing read and nothing sent.
LEMMA ClientInitInv ==
  ASSUME ClientInit PROVE ClientInv
<1>. SUFFICES ASSUME reading_from_file_ PROVE ClientTypes /\ ParseInv /\ ConvertInv /\ SendInv
  BY DEF ClientInv
<1>1. file \in Seq(Lines) \/ file = Unreadable
  BY ClientAssumption DEF ClientInit
<1>2. transform \in Nat
  BY ClientAssumption DEF ClientInit
<1>3. /\ client = "transform" /\ ok = TRUE /\ sent = 0 /\ read = 0 /\ active = FALSE /\ overtaken = 0
      /\ coordinates = <<>> /\ waypoints = <<>> /\ delivered = <<>>
  BY DEF ClientInit
<1>4. /\ coordinates \in Seq(Int \X Int) /\ waypoints \in Seq(Poses) /\ delivered \in Seq(Goals)
      /\ Len(coordinates) = 0 /\ Len(waypoints) = 0 /\ Len(delivered) = 0
  BY <1>3
<1>5. ClientTypes
  BY <1>1, <1>2, <1>3, <1>4 DEF ClientTypes
<1>6. ParseInv
  BY <1>3 DEF ParseInv
<1>7. ConvertInv
  BY <1>3, <1>4 DEF ConvertInv
<1>8. SendInv
  BY <1>3, <1>4 DEF SendInv
<1>. QED
  BY <1>5, <1>6, <1>7, <1>8

\* Every step keeps each stage a beginning of the one before.
LEMMA ClientStepInv ==
  ASSUME ClientInv, [ClientNext]_clientVars PROVE ClientInv'
<1>1. reading_from_file_' = reading_from_file_
  BY DEF ClientNext, clientVars, aroundVars, waitForTransform, waitForServer, loadWaypointsFromFile,
         parseWaypointFile, EndOfFile, ConvertWaypoint, Loaded, sendWaypoints, GoalEnded,
         Constructed, rvizWaypointCallback, SpinEnds, RvizPose, ServerEndsGoal, Localized, Shutdown
<1>2. CASE reading_from_file_
  BY <1>2, ParsingKeepsInv, ConvertingKeepsInv, SendingKeepsInv, OthersIdle, IdlingKeepsInv
<1>3. CASE ~reading_from_file_
  BY <1>1, <1>3 DEF ClientInv
<1>. QED
  BY <1>2, <1>3

\* So the last stage follows the first, the file.
LEMMA ClientInvFollows ==
  ASSUME ClientInv PROVE GoalsFollowFile
<1>. SUFFICES ASSUME reading_from_file_
              PROVE  IF file = Unreadable THEN delivered = <<>>
                     ELSE /\ overtaken = 0
                          /\ delivered # <<>> => Good(file, Len(file))
                          /\ \A i \in DOMAIN delivered : \E n \in Points(file, Len(file)) :
                               /\ Cardinality(Points(file, n)) = i
                               /\ \A j \in 1..2 : WellFormed(file[n].tokens[j]) =>
                                    delivered[i].pose.at[j] = Angle(file[n].tokens[j])
                          /\ \A i, j \in DOMAIN delivered :
                               i < j => delivered[i].pose.by <= delivered[j].pose.by
                          /\ client = "spinning" /\ ok =>
                               Len(delivered) = Cardinality(Points(file, Len(file)))
  BY DEF GoalsFollowFile, Good
<1>1. ClientTypes /\ ParseInv /\ ConvertInv /\ SendInv
  BY DEF ClientInv
<1>2. delivered # <<>> => Whole
  BY <1>1 DEF SendInv
<1>3. CASE file = Unreadable
  BY <1>2, <1>3 DEF Whole, Parsed
<1>4. CASE file # Unreadable
  <2>1. /\ file \in Seq(Lines) /\ coordinates \in Seq(Int \X Int) /\ waypoints \in Seq(Poses)
        /\ delivered \in Seq(Goals) /\ sent \in Nat
    BY <1>1, <1>4 DEF ClientTypes, SendInv
  <2>2. /\ DOMAIN delivered = 1..Len(delivered)
        /\ 1..Len(delivered) \subseteq 1..Len(waypoints) /\ 1..Len(waypoints) \subseteq 1..Len(coordinates)
    <3>1. /\ Len(delivered) \in Nat /\ Len(waypoints) \in Nat /\ Len(coordinates) \in Nat
          /\ DOMAIN delivered = 1..Len(delivered)
      BY <2>1
    <3>2. Len(delivered) <= sent /\ sent <= Len(waypoints) /\ Len(waypoints) <= Len(coordinates)
      BY <1>1 DEF SendInv, ConvertInv
    <3>. QED
      BY <2>1, <3>1, <3>2
  <2>3. overtaken = 0
    BY <1>1 DEF SendInv
  <2>4. delivered # <<>> => Good(file, Len(file))
    BY <1>2 DEF Whole, Parsed
  <2>5. ASSUME NEW i \in DOMAIN delivered
        PROVE  \E n \in Points(file, Len(file)) :
                 /\ Cardinality(Points(file, n)) = i
                 /\ \A j \in 1..2 : WellFormed(file[n].tokens[j]) =>
                      delivered[i].pose.at[j] = Angle(file[n].tokens[j])
    <3>1. i \in 1..Len(delivered) /\ i \in 1..Len(waypoints) /\ i \in 1..Len(coordinates)
      BY <2>2
    <3>2. delivered # <<>>
      BY <2>1, <3>1
    <3>3. Whole
      BY <1>2, <3>2
    <3>4. Good(file, Len(file)) /\ Follows(coordinates, file, Len(file))
      BY <3>3 DEF Whole, Parsed
    <3>5. PICK n \in Points(file, Len(file)) :
            Cardinality(Points(file, n)) = i /\ coordinates[i] = PointOf(file[n])
      BY <3>1, <3>4 DEF Follows
    <3>6. delivered[i].pose.at = PointOf(file[n])
      BY <1>1, <3>1, <3>5 DEF SendInv, ConvertInv
    <3>7. n \in 1..Len(file)
      BY DEF Points
    <3>8. file[n] \in Lines
      BY <2>1, <3>7
    <3>9. TwoTokens(file[n]) /\ CanBeRead(file[n])
      BY <3>4 DEF Good
    <3>10. \A j \in 1..2 : WellFormed(file[n].tokens[j]) => PointOf(file[n])[j] = Angle(file[n].tokens[j])
      BY <3>8, <3>9, CoordinatesAre
    <3>. QED
      BY <3>5, <3>6, <3>10
  <2>6. ASSUME NEW i \in DOMAIN delivered, NEW j \in DOMAIN delivered, i < j
        PROVE  delivered[i].pose.by <= delivered[j].pose.by
    <3>1. /\ i \in 1..Len(delivered) /\ i \in 1..Len(waypoints)
          /\ j \in 1..Len(delivered) /\ j \in 1..Len(waypoints)
      BY <2>2
    <3>2. delivered[i].pose = waypoints[i] /\ delivered[j].pose = waypoints[j]
      BY <1>1, <3>1 DEF SendInv
    <3>3. waypoints[i].by <= waypoints[j].by
      BY <1>1, <2>6, <3>1 DEF ConvertInv
    <3>. QED
      BY <3>2, <3>3
  <2>7. ASSUME client = "spinning", ok
        PROVE  Len(delivered) = Cardinality(Points(file, Len(file)))
    <3>1. Len(delivered) = sent /\ sent = Len(waypoints) /\ Len(waypoints) = Len(coordinates)
      BY <1>1, <2>7 DEF SendInv, ConvertInv
    <3>2. Whole
      BY <1>1, <2>7 DEF ParseInv
    <3>3. Len(coordinates) = Cardinality(Points(file, Len(file)))
      BY <3>2 DEF Whole, Parsed, Follows
    <3>. QED
      BY <3>1, <3>3
  <2>. QED
    BY <1>4, <2>3, <2>4, <2>5, <2>6, <2>7
<1>. QED
  BY <1>3, <1>4

\* Whatever the file holds, and whenever the transform changes, a goal ends or
\* ROS shuts down: the server gets the points of the file in their order, one
\* after the other, or nothing.
THEOREM ServerGetsTheFile == ClientSpec => []GoalsFollowFile
<1>1. ClientInit => ClientInv
  BY ClientInitInv
<1>2. ClientInv /\ [ClientNext]_clientVars => ClientInv'
  BY ClientStepInv
<1>3. ClientInv => GoalsFollowFile
  BY ClientInvFollows
<1>. QED
  BY <1>1, <1>2, <1>3, PTL DEF ClientSpec

-----------------------------------------------------------------------------
(* Positions in the stream.                                                *)

\* A place in the stream is in a message, a value and a part of it.
LEMMA Position ==
  ASSUME NEW p \in Nat
  PROVE  /\ MessageOf(p) \in Nat /\ p % 42 \in 0..41 /\ p = 42 * MessageOf(p) + (p % 42)
         /\ ValueOf(p) = ((p % 42) \div 3) + 1 /\ ValueOf(p) \in 1..14
         /\ FirstHalf(p) <=> (p % 42) % 3 = 0
         /\ Separator(p) <=> (p % 42) % 3 = 2
<1>. DEFINE q == p \div 42
            r == p % 42
<1>1. q \in Nat /\ r \in 0..41
  OBVIOUS
<1>2. r = p - 42 * q
  OBVIOUS
<1>3. MessageOf(p) = q /\ ValueOf(p) = (r \div 3) + 1
  BY DEF MessageOf, ValueOf, MessageLength, Values
<1>. HIDE DEF q, r
<1>4. p = 42 * q + r /\ p % 3 = r % 3
  BY <1>1, <1>2
<1>5. (r \div 3) + 1 \in 1..14
  BY <1>1
<1>. QED
  BY <1>1, <1>3, <1>4, <1>5 DEF FirstHalf, Separator, r

\* The other way round.
LEMMA PositionOf ==
  ASSUME NEW q \in Nat, NEW r \in 0..41
  PROVE  /\ 42 * q + r \in Nat /\ MessageOf(42 * q + r) = q /\ (42 * q + r) % 42 = r
<1>1. (42 * q + r) \div 42 = q /\ (42 * q + r) % 42 = r
  OBVIOUS
<1>. QED
  BY <1>1 DEF MessageOf, MessageLength, Values

\* The last character of the line of a character, by its place in the message.
LastOfLine(r) ==
  IF r < 12 THEN 11 ELSE IF r < 21 THEN 20 ELSE IF r < 30 THEN 29 ELSE IF r < 39 THEN 38 ELSE 41

\* Where the line ends that a place is on.
LEMMA LineEndIs ==
  ASSUME NEW p \in Nat
  PROVE  LineEnd(p) = 42 * MessageOf(p) + LastOfLine(p % 42)
<1>. DEFINE r == p % 42
            IsLast(v) == v >= ValueOf(p) /\ \A w \in LineEnds : w >= ValueOf(p) => v <= w
            last == CHOOSE v \in LineEnds : IsLast(v)
            end == IF r < 12 THEN 4 ELSE IF r < 21 THEN 7 ELSE IF r < 30 THEN 10
                   ELSE IF r < 39 THEN 13 ELSE 14
<1>1. r \in 0..41 /\ ValueOf(p) = (r \div 3) + 1
  BY Position
<1>. HIDE DEF r
<1>2. end \in LineEnds /\ IsLast(end)
  BY <1>1 DEF LineEnds
<1>3. \A v \in LineEnds : IsLast(v) => v = end
  <2>1. \A v \in LineEnds : v \in Nat
    BY DEF LineEnds
  <2>2. end \in Nat
    OBVIOUS
  <2>3. ASSUME NEW v \in LineEnds, IsLast(v) PROVE v <= end /\ end <= v
    BY <1>2, <2>3
  <2>4. \A m \in Nat, n \in Nat : m <= n /\ n <= m => m = n
    OBVIOUS
  <2>. QED
    BY <2>1, <2>2, <2>3, <2>4
<1>. HIDE DEF IsLast, end
<1>4. last = end
  BY <1>2, <1>3
<1>5. LineEnd(p) = MessageOf(p) * MessageLength + 3 * last - 1
  BY DEF LineEnd, IsLast
<1>6. end \in Nat /\ LastOfLine(r) = 3 * end - 1
  BY <1>1 DEF LastOfLine, end
<1>7. LineEnd(p) = MessageOf(p) * 42 + 3 * end - 1
  <2>1. MessageLength = 42
    BY DEF MessageLength, Values
  <2>. QED
    BY <1>4, <1>5, <2>1
<1>8. MessageOf(p) \in Nat
  BY Position
<1>. QED
  BY <1>6, <1>7, <1>8 DEF r

\* A read stays in the line.
LEMMA ReadTo ==
  ASSUME NEW p \in Nat, NEW to \in p..LineEnd(p)
  PROVE  /\ to \in Nat /\ MessageOf(to) = MessageOf(p)
         /\ to % 42 \in (p % 42)..LastOfLine(p % 42)
         /\ to = LineEnd(p) <=> to % 42 = LastOfLine(p % 42)
         /\ ValueOf(p) <= ValueOf(to)
<1>. DEFINE q == MessageOf(p)
            r == p % 42
            s == to - 42 * q
<1>1. q \in Nat /\ r \in 0..41 /\ p = 42 * q + r /\ LineEnd(p) = 42 * q + LastOfLine(r)
      /\ ValueOf(p) = (r \div 3) + 1
  BY Position, LineEndIs
<1>. HIDE DEF q, r
<1>2. LastOfLine(r) \in r..41
  BY <1>1 DEF LastOfLine
<1>3. s \in r..LastOfLine(r) /\ s \in 0..41 /\ to = 42 * q + s /\ to \in Nat
  BY <1>1, <1>2
<1>4. to = LineEnd(p) <=> s = LastOfLine(r)
  BY <1>1, <1>2, <1>3
<1>. HIDE DEF s
<1>5. MessageOf(to) = q /\ to % 42 = s
  BY <1>1, <1>3, PositionOf
<1>6. ValueOf(to) = (s \div 3) + 1
  BY <1>3, <1>5, Position
<1>7. (r \div 3) + 1 <= (s \div 3) + 1
  BY <1>1, <1>3
<1>. QED
  BY <1>1, <1>3, <1>4, <1>5, <1>6, <1>7 DEF q, r

\* Messages and values are numbers.
LEMMA PlaceIs ==
  ASSUME NEW p \in Nat
  PROVE  MessageOf(p) \in Nat /\ ValueOf(p) \in Nat /\ ValueOf(p) \in 1..14
BY Position

\* A read stays on its line and goes forward.
LEMMA ReadPlaces ==
  ASSUME NEW p \in Nat, NEW to \in p..LineEnd(p)
  PROVE  to \in Nat /\ MessageOf(to) = MessageOf(p) /\ ValueOf(p) <= ValueOf(to)
BY ReadTo

\* The next character, in the same message or the first of the next.
LEMMA NextPosition ==
  ASSUME NEW p \in Nat
  PROVE  /\ p + 1 \in Nat
         /\ p % 42 = 41 => (p + 1) % 42 = 0 /\ MessageOf(p + 1) = MessageOf(p) + 1
         /\ p % 42 # 41 => /\ (p + 1) % 42 = (p % 42) + 1 /\ MessageOf(p + 1) = MessageOf(p)
                           /\ ValueOf(p) <= ValueOf(p + 1)
<1>. DEFINE q == MessageOf(p)
            r == p % 42
<1>1. q \in Nat /\ r \in 0..41 /\ p = 42 * q + r /\ ValueOf(p) = (r \div 3) + 1
  BY Position
<1>. HIDE DEF q, r
<1>2. CASE r = 41
  <2>1. p + 1 = 42 * (q + 1) + 0 /\ q + 1 \in Nat /\ 0 \in 0..41
    BY <1>1, <1>2
  <2>2. MessageOf(p + 1) = q + 1 /\ (p + 1) % 42 = 0
    BY <2>1, PositionOf
  <2>. QED
    BY <1>1, <1>2, <2>2 DEF q, r
<1>3. CASE r # 41
  <2>1. p + 1 = 42 * q + (r + 1) /\ r + 1 \in 0..41 /\ p + 1 \in Nat
    BY <1>1, <1>3
  <2>2. MessageOf(p + 1) = q /\ (p + 1) % 42 = r + 1
    BY <1>1, <2>1, PositionOf
  <2>3. ValueOf(p + 1) = ((r + 1) \div 3) + 1
    BY <2>1, <2>2, Position
  <2>4. (r \div 3) + 1 <= ((r + 1) \div 3) + 1
    BY <1>1
  <2>. QED
    BY <1>1, <1>3, <2>1, <2>2, <2>3, <2>4 DEF q, r
<1>. QED
  BY <1>2, <1>3

-----------------------------------------------------------------------------
(* What a read gives.                                                      *)

Vals == [msg : Nat, val : 1..14, whole : BOOLEAN]

\* The value of an entry is a number.
LEMMA FieldOfVals ==
  ASSUME NEW v \in Vals
  PROVE  v.val \in Nat
BY DEF Vals

\* A function on 1..n is a sequence of length n.
LEMMA MadeSequence ==
  ASSUME NEW S, NEW n \in Nat, NEW f \in [1..n -> S]
  PROVE  f \in Seq(S) /\ Len(f) = n
<1>1. f \in Seq(S)
  BY SeqDef
<1>2. Len(f) \in Nat /\ DOMAIN f = 1..Len(f) /\ DOMAIN f = 1..n
  BY <1>1, LenProperties
<1>3. \A m \in Nat : 1..m = 1..n => m = n
  <2>. SUFFICES ASSUME NEW m \in Nat, 1..m = 1..n PROVE m = n
    OBVIOUS
  <2>1. m > 0 => m \in 1..n
    OBVIOUS
  <2>2. n > 0 => n \in 1..m
    OBVIOUS
  <2>. QED
    BY <2>1, <2>2
<1>. QED
  BY <1>1, <1>2, <1>3

\* The terms of a piece, counted from the value it begins in.
TermsTo(from, to, parses) ==
  (IF FirstHalf(to) /\ ~parses THEN ValueOf(to) - 1 ELSE ValueOf(to)) - ValueOf(from) + 1

\* The entries of a read are the values between its ends, whole but at a torn end.
LEMMA TermsAre ==
  ASSUME NEW from \in Nat, NEW to \in from..LineEnd(from), NEW parses \in BOOLEAN
  PROVE  LET t == Terms(from, to, parses)
         IN  /\ t \in Seq(Vals)
             /\ Separator(from) => t = <<>>
             /\ ~Separator(from) =>
                  /\ Len(t) = TermsTo(from, to, parses)
                  /\ \A i \in 1..Len(t) :
                       t[i] = Value(MessageOf(from), ValueOf(from) + i - 1,
                                    /\ (i = 1 => FirstHalf(from))
                                    /\ (ValueOf(from) + i - 1 = ValueOf(to) => ~FirstHalf(to)))
             /\ \A i \in 1..Len(t) :
                  /\ t[i].msg = MessageOf(from)
                  /\ t[i].val = ValueOf(from) + i - 1 /\ t[i].val <= ValueOf(to)
<1>. DEFINE t == Terms(from, to, parses)
            n == TermsTo(from, to, parses)
            a == ValueOf(from)
            b == ValueOf(to)
            whole(i) == /\ (i = 1 => FirstHalf(from))
                        /\ (a + i - 1 = b => ~FirstHalf(to))
            f == [i \in 1..n |-> Value(MessageOf(from), a + i - 1, whole(i))]
<1>1. a \in 1..14 /\ b \in 1..14 /\ a <= b /\ MessageOf(from) \in Nat
  BY ReadTo, Position
<1>2. n \in Nat /\ a + n - 1 <= b
  <2>1. n = (b - 1) - a + 1 \/ n = b - a + 1
    BY DEF TermsTo
  <2>. HIDE DEF n, a, b
  <2>. QED
    BY <1>1, <2>1
<1>3. t = IF Separator(from) THEN <<>> ELSE f
  BY DEF Terms, TermsTo
<1>. HIDE DEF t, n, a, b
<1>4. \A i \in 1..n : a + i - 1 \in 1..14 /\ a + i - 1 <= b
  BY <1>1, <1>2
<1>5. \A i : whole(i) \in BOOLEAN
  OBVIOUS
<1>. HIDE DEF whole
<1>6. f \in [1..n -> Vals]
  BY <1>1, <1>4, <1>5 DEF Value, Vals
<1>7. f \in Seq(Vals) /\ Len(f) = n
  BY <1>2, <1>6, MadeSequence
<1>8. \A i \in 1..n : /\ f[i] = Value(MessageOf(from), a + i - 1, whole(i))
                      /\ f[i].msg = MessageOf(from) /\ f[i].val = a + i - 1 /\ f[i].val <= b
  BY <1>4 DEF Value
<1>. HIDE DEF f
<1>9. CASE Separator(from)
  <2>1. t = <<>> /\ <<>> \in Seq(Vals) /\ 1..Len(<<>>) = {}
    BY <1>3, <1>9
  <2>. QED
    BY <1>9, <2>1 DEF t
<1>10. CASE ~Separator(from)
  <2>1. t = f
    BY <1>3, <1>10
  <2>. QED
    BY <1>7, <1>8, <1>10, <2>1 DEF t, n, a, b, whole
<1>. QED
  BY <1>9, <1>10

-----------------------------------------------------------------------------
(* What is published is from one message.                                  *)

\* A piece with the end of the last value in it holds that value alone.
LEMMA LastLineHasOneValue ==
  ASSUME NEW from \in Nat, NEW to \in from..LineEnd(from), NEW parses \in BOOLEAN,
         to % 42 \in {40, 41}, from % 42 # 41
  PROVE  Len(Terms(from, to, parses)) = 1
<1>1. from % 42 \in {39, 40}
  <2>1. from % 42 \in 0..41 /\ to % 42 \in (from % 42)..LastOfLine(from % 42)
    BY Position, ReadTo
  <2>. QED
    BY <2>1 DEF LastOfLine
<1>2. ~Separator(from) /\ ~FirstHalf(to) /\ ValueOf(from) = 14 /\ ValueOf(to) = 14
  <2>1. /\ Separator(from) <=> (from % 42) % 3 = 2
        /\ FirstHalf(to) <=> (to % 42) % 3 = 0
        /\ ValueOf(from) = ((from % 42) \div 3) + 1 /\ ValueOf(to) = ((to % 42) \div 3) + 1
    BY Position, ReadTo
  <2>. QED
    BY <1>1, <2>1
<1>3. TermsTo(from, to, parses) = 1
  BY <1>2 DEF TermsTo
<1>4. ~Separator(from) => Len(Terms(from, to, parses)) = TermsTo(from, to, parses)
  BY TermsAre
<1>. QED
  BY <1>2, <1>3, <1>4

Ordered(s) ==
  \A i, j \in 1..Len(s) : i < j => s[i].msg = s[j].msg /\ s[i].val <= s[j].val

\* The values that are kept are of the message that is being read; at its last
\* line break and its end there are none.
OrderInv ==
  /\ pos \in Nat
  /\ parsed_val \in Seq(Vals)
  /\ query # Len(Queries) + 2 \/ unanswered # <<>> => parsed_val = <<>>
  /\ pos % 42 \in {0, 41} => parsed_val = <<>>
  /\ \A i \in 1..Len(parsed_val) :
       parsed_val[i].msg = MessageOf(pos) /\ parsed_val[i].val <= ValueOf(pos)
  /\ Ordered(parsed_val) /\ InOrder(published)

\* An empty buffer is in order.
LEMMA NothingOrdered == <<>> \in Seq(Vals) /\ Len(<<>>) = 0 /\ Ordered(<<>>)
BY EmptySeq DEF Ordered

\* It is empty at first.
LEMMA OrderInvInit == ImuInit => OrderInv
<1>. SUFFICES ASSUME ImuInit PROVE OrderInv
  OBVIOUS
<1>1. parsed_val = <<>> /\ published = <<>> /\ pos = 0
  BY DEF ImuInit
<1>2. InOrder(published)
  BY <1>1 DEF InOrder
<1>. QED
  BY <1>1, <1>2, NothingOrdered DEF OrderInv

\* The values of a read follow those that are kept.
LEMMA AllAreOrdered ==
  ASSUME OrderInv, NEW to \in pos..LineEnd(pos), NEW parses \in BOOLEAN
  PROVE  LET all == parsed_val \o Terms(pos, to, parses)
         IN  /\ all \in Seq(Vals) /\ Ordered(all)
             /\ \A i \in 1..Len(all) : all[i].msg = MessageOf(pos) /\ all[i].val <= ValueOf(to)
<1>. DEFINE t == Terms(pos, to, parses)
            all == parsed_val \o t
            m == Len(parsed_val)
            a == ValueOf(pos)
            b == ValueOf(to)
<1>1. /\ t \in Seq(Vals) /\ parsed_val \in Seq(Vals)
      /\ \A i \in 1..Len(t) : t[i].msg = MessageOf(pos) /\ t[i].val = a + i - 1 /\ t[i].val <= b
  BY TermsAre DEF OrderInv
<1>2. a \in Nat /\ b \in Nat /\ a <= b
  <2>1. pos \in Nat
    BY DEF OrderInv
  <2>. QED
    BY <2>1, PlaceIs, ReadPlaces
<1>. HIDE DEF t, a, b
<1>3. /\ all \in Seq(Vals) /\ Len(all) = m + Len(t) /\ m \in Nat /\ Len(t) \in Nat
      /\ \A i \in 1..Len(all) : all[i] = IF i <= m THEN parsed_val[i] ELSE t[i - m]
  BY <1>1, ConcatProperties, LenProperties
<1>4. \A i \in 1..m : /\ parsed_val[i].msg = MessageOf(pos) /\ parsed_val[i].val <= a
                      /\ parsed_val[i].val \in Nat
  <2>1. \A i \in 1..m : parsed_val[i] \in Vals
    BY <1>1, ElementOfSeq
  <2>2. \A i \in 1..m : parsed_val[i].val \in Nat
    BY <2>1 DEF Vals
  <2>3. \A i \in 1..m : parsed_val[i].msg = MessageOf(pos) /\ parsed_val[i].val <= ValueOf(pos)
    BY DEF OrderInv
  <2>. QED
    BY <2>2, <2>3 DEF a
<1>5. \A i, j \in 1..m : i < j => parsed_val[i].val <= parsed_val[j].val
  BY DEF OrderInv, Ordered
<1>. HIDE DEF all, m
<1>6. ASSUME NEW i \in 1..Len(all)
      PROVE  /\ i <= m => all[i] = parsed_val[i] /\ i \in 1..m
             /\ ~(i <= m) => all[i] = t[i - m] /\ i - m \in 1..Len(t)
  <2>1. all[i] = IF i <= m THEN parsed_val[i] ELSE t[i - m]
    BY <1>3
  <2>2. /\ m \in Nat /\ Len(t) \in Nat /\ i \in Int
        /\ 1 <= i /\ i <= m + Len(t)
    BY <1>3
  <2>3. (i <= m => i \in 1..m) /\ (~(i <= m) => i - m \in 1..Len(t))
    BY <2>2
  <2>. QED
    BY <2>1, <2>3
<1>7. ASSUME NEW i \in 1..Len(all)
      PROVE  all[i].msg = MessageOf(pos) /\ all[i].val <= b /\ all[i].val \in Nat
  <2>1. CASE i <= m
    BY <1>2, <1>4, <1>6, <2>1
  <2>2. CASE ~(i <= m)
    BY <1>1, <1>2, <1>3, <1>6, <2>2
  <2>. QED
    BY <2>1, <2>2
<1>8. ASSUME NEW i \in 1..Len(all), NEW j \in 1..Len(all), i < j
      PROVE  all[i].val <= all[j].val
  <2>1. CASE j <= m
    <3>1. i <= m
      BY <1>3, <1>8, <2>1
    <3>. QED
      BY <1>5, <1>6, <1>8, <2>1, <3>1
  <2>2. CASE ~(j <= m) /\ i <= m
    <3>1. all[j].val = a + (j - m) - 1
      BY <1>1, <1>6, <2>2
    <3>2. all[i].val <= a /\ all[i].val \in Nat
      BY <1>4, <1>6, <2>2
    <3>. QED
      BY <1>2, <1>3, <2>2, <3>1, <3>2
  <2>3. CASE ~(j <= m) /\ ~(i <= m)
    <3>1. all[j].val = a + (j - m) - 1 /\ all[i].val = a + (i - m) - 1
      BY <1>1, <1>6, <2>3
    <3>. QED
      BY <1>2, <1>3, <1>8, <3>1
  <2>. QED
    BY <2>1, <2>2, <2>3
<1>9. Ordered(all)
  BY <1>7, <1>8 DEF Ordered
<1>10. all \in Seq(Vals)
  BY <1>3
<1>. QED
  BY <1>7, <1>9, <1>10 DEF all, t, b

\* Fields that are taken from values in order are in order, and memory is only
\* behind them.
LEMMA FieldsInOrder ==
  ASSUME NEW all \in Seq(Vals), Ordered(all)
  PROVE  InOrder(createAndPublishIMUMessage(all))
<1>. DEFINE fields == createAndPublishIMUMessage(all)
            n == Len(all)
<1>1. /\ n \in Nat /\ DOMAIN fields = 1..14
      /\ \A v \in 1..14 : fields[v] = IF v <= n THEN all[v] ELSE OldMemory
  BY LenProperties DEF createAndPublishIMUMessage, Values
<1>2. \A v \in 1..n : all[v] # OldMemory
  <2>. SUFFICES ASSUME NEW v \in 1..n PROVE all[v] # OldMemory
    OBVIOUS
  <2>1. all[v] \in Vals
    BY ElementOfSeq
  <2>2. all[v].val \in 1..14
    BY <2>1 DEF Vals
  <2>3. OldMemory.val = 0
    BY DEF OldMemory, Value
  <2>. QED
    BY <2>2, <2>3
<1>3. \A i, j \in 1..n : i < j => all[i].msg = all[j].msg /\ all[i].val <= all[j].val
  BY DEF Ordered
<1>. HIDE DEF fields, n
<1>4. ASSUME NEW i \in 1..14, NEW j \in 1..14, i < j, fields[j] # OldMemory
      PROVE  /\ fields[i] # OldMemory
             /\ fields[i].msg = fields[j].msg /\ fields[i].val <= fields[j].val
  <2>1. j <= n
    BY <1>1, <1>4
  <2>2. i \in 1..n /\ j \in 1..n
    BY <1>1, <1>4, <2>1
  <2>3. fields[i] = all[i] /\ fields[j] = all[j]
    BY <1>1, <2>2
  <2>. QED
    BY <1>2, <1>3, <1>4, <2>2, <2>3
<1>5. InOrder(fields)
  BY <1>1, <1>4 DEF InOrder
<1>. QED
  BY <1>5 DEF fields

\* What a line does to the values that are kept and published.
LEMMA LineTaken ==
  ASSUME NEW terms, TakeLine(terms)
  PROVE  /\ published' \in {published, createAndPublishIMUMessage(parsed_val \o terms)}
         /\ Len(terms) = 1 => parsed_val' = <<>>
         /\ Len(terms) # 1 => parsed_val' = parsed_val \o terms /\ published' = published
BY DEF TakeLine

\* A read adds values of the same message, behind those that are kept.
LEMMA ReadLineKeepsOrder == OrderInv /\ ReadLine => OrderInv'
<1>. SUFFICES ASSUME OrderInv, ReadLine PROVE OrderInv'
  OBVIOUS
<1>1. PICK to \in pos..LineEnd(pos), parses \in BOOLEAN :
        TakeLine(Terms(pos, to, parses)) /\ pos' = to + 1
  BY DEF ReadLine
<1>2. query = Len(Queries) + 2 /\ unanswered = <<>> /\ UNCHANGED <<query, unanswered>>
  BY DEF ReadLine
<1>. DEFINE t == Terms(pos, to, parses)
            all == parsed_val \o t
<1>3. /\ published' \in {published, createAndPublishIMUMessage(all)}
      /\ Len(t) = 1 => parsed_val' = <<>>
      /\ Len(t) # 1 => parsed_val' = all
  BY <1>1, LineTaken
<1>4. /\ all \in Seq(Vals) /\ Ordered(all)
      /\ \A i \in 1..Len(all) : all[i].msg = MessageOf(pos) /\ all[i].val <= ValueOf(to)
  BY AllAreOrdered
<1>5. /\ pos \in Nat /\ to \in Nat /\ MessageOf(to) = MessageOf(pos)
      /\ ValueOf(to) \in 1..14
      /\ pos % 42 \in 0..41 /\ to % 42 \in (pos % 42)..LastOfLine(pos % 42) /\ to % 42 \in 0..41
  BY ReadTo, Position DEF OrderInv
<1>6. InOrder(published')
  <2>1. InOrder(published)
    BY DEF OrderInv
  <2>. HIDE DEF all
  <2>2. InOrder(createAndPublishIMUMessage(all))
    BY <1>4, FieldsInOrder
  <2>. QED
    BY <1>3, <2>1, <2>2
<1>7. pos' \in Nat
  BY <1>1, <1>5
<1>8. CASE Len(t) = 1
  <2>1. parsed_val' = <<>> /\ 1..Len(parsed_val') = {}
    BY <1>3, <1>8, NothingOrdered
  <2>. QED
    BY <1>6, <1>7, <2>1, NothingOrdered DEF OrderInv
<1>9. CASE Len(t) # 1 /\ to % 42 \in {40, 41}
  <2>1. pos % 42 = 41
    BY <1>5, <1>9, LastLineHasOneValue
  <2>2. to % 42 = 41
    BY <1>5, <2>1 DEF LastOfLine
  <2>3. parsed_val = <<>> /\ t = <<>>
    <3>1. (pos % 42) % 3 = 2
      BY <2>1
    <3>2. Separator(pos)
      BY <1>5, <3>1, Position
    <3>. QED
      BY <1>5, <2>1, <3>2, TermsAre DEF OrderInv
  <2>4. parsed_val' = <<>> /\ 1..Len(parsed_val') = {}
    BY <1>3, <1>9, <2>3, NothingOrdered
  <2>. QED
    BY <1>6, <1>7, <2>4, NothingOrdered DEF OrderInv
<1>10. CASE Len(t) # 1 /\ to % 42 \notin {40, 41}
  <2>1. parsed_val' = all
    BY <1>3, <1>10
  <2>2. /\ pos' % 42 = (to % 42) + 1 /\ MessageOf(pos') = MessageOf(pos)
        /\ ValueOf(to) <= ValueOf(pos')
    BY <1>1, <1>5, <1>10, NextPosition
  <2>3. pos' % 42 \notin {0, 41}
    BY <1>5, <1>10, <2>2
  <2>4. \A i \in 1..Len(all) : all[i].msg = MessageOf(pos') /\ all[i].val <= ValueOf(pos')
    <3>1. \A i \in 1..Len(all) : all[i] \in Vals
      BY <1>4, ElementOfSeq
    <3>2. \A i \in 1..Len(all) : all[i].val \in Nat
      <4>. HIDE DEF all
      <4>. QED
        BY <3>1, FieldOfVals
    <3>3. ValueOf(pos') \in Nat /\ ValueOf(to) \in Nat
      BY <1>5, <1>7, PlaceIs
    <3>4. \A i \in 1..Len(all) : all[i].msg = MessageOf(pos') /\ all[i].val <= ValueOf(to)
      BY <1>4, <2>2
    <3>5. \A n \in Nat : n <= ValueOf(to) => n <= ValueOf(pos')
      BY <2>2, <3>3
    <3>. HIDE DEF all
    <3>6. ASSUME NEW i \in 1..Len(all) PROVE all[i].val <= ValueOf(pos')
      <4>1. all[i].val \in Nat /\ all[i].val <= ValueOf(to)
        BY <3>2, <3>4
      <4>. QED
        BY <3>5, <4>1
    <3>. QED
      BY <3>4, <3>6
  <2>5. MessageOf(pos)' = MessageOf(pos') /\ ValueOf(pos)' = ValueOf(pos')
    BY DEF MessageOf, ValueOf
  <2>. QED
    BY <1>2, <1>4, <1>6, <1>7, <2>1, <2>3, <2>4, <2>5 DEF OrderInv
<1>. QED
  BY <1>8, <1>9, <1>10

\* An answer that comes late is taken when no values are kept, and leaves none.
LEMMA LateAnswerTaken ==
  ASSUME OrderInv, ReadLateAnswer
  PROVE  /\ parsed_val = <<>> /\ parsed_val' = <<>>
         /\ InOrder(published')
         /\ UNCHANGED <<query, pos, torn, wholeFrom>>
<1>. DEFINE v == Value(0, 1, FALSE)
            terms == IF unanswered[1] = "version" THEN <<>> ELSE <<v>>
<1>1. /\ TakeLine(terms) /\ unanswered # <<>>
      /\ UNCHANGED <<query, pos, torn, wholeFrom>>
  BY DEF ReadLateAnswer
<1>2. parsed_val = <<>>
  BY <1>1 DEF OrderInv
<1>3. v \in Vals
  BY DEF Vals, Value
<1>. HIDE DEF v
<1>4. /\ <<>> \o <<>> = <<>> /\ <<>> \o <<v>> = <<v>> /\ Len(<<>>) = 0 /\ Len(<<v>>) = 1
      /\ <<v>> \in Seq(Vals) /\ Ordered(<<v>>)
  BY <1>3 DEF Ordered
<1>7. InOrder(published) /\ InOrder(createAndPublishIMUMessage(<<>>))
      /\ InOrder(createAndPublishIMUMessage(<<v>>))
  BY <1>4, NothingOrdered, FieldsInOrder DEF OrderInv
<1>8. /\ published' \in {published, createAndPublishIMUMessage(parsed_val \o terms)}
      /\ Len(terms) = 1 => parsed_val' = <<>>
      /\ Len(terms) # 1 => parsed_val' = parsed_val \o terms
  BY <1>1, LineTaken
<1>5. CASE terms = <<>>
  BY <1>1, <1>2, <1>4, <1>5, <1>7, <1>8
<1>6. CASE terms = <<v>>
  BY <1>1, <1>2, <1>4, <1>6, <1>7, <1>8
<1>. QED
  BY <1>5, <1>6

\* Every step of the driver keeps the order.
LEMMA OrderInvStep == OrderInv /\ [ImuNext]_imuVars => OrderInv'
<1>. SUFFICES ASSUME OrderInv, [ImuNext]_imuVars PROVE OrderInv'
  OBVIOUS
<1>1. ASSUME pos' \in Nat, parsed_val' = <<>>, InOrder(published')
      PROVE  OrderInv'
  <2>1. 1..Len(parsed_val') = {}
    BY <1>1, NothingOrdered
  <2>. QED
    BY <1>1, <2>1, NothingOrdered DEF OrderInv
<1>2. CASE GetSetting
  <2>1. parsed_val = <<>>
    <3>1. query # Len(Queries) + 2
      BY <1>2 DEF GetSetting, Queries
    <3>. QED
      BY <3>1 DEF OrderInv
  <2>2. UNCHANGED <<pos, parsed_val, published>>
    BY <1>2 DEF GetSetting
  <2>. QED
    BY <1>1, <2>1, <2>2 DEF OrderInv
<1>3. CASE StartStreaming
  <2>1. parsed_val = <<>>
    <3>1. query # Len(Queries) + 2
      BY <1>3 DEF StartStreaming, Queries
    <3>. QED
      BY <3>1 DEF OrderInv
  <2>2. pos' \in Nat /\ UNCHANGED <<parsed_val, published>>
    BY <1>3 DEF StartStreaming, MessageLength, Values
  <2>. QED
    BY <1>1, <2>1, <2>2 DEF OrderInv
<1>4. CASE ReadLateAnswer
  BY <1>1, <1>4, LateAnswerTaken DEF OrderInv
<1>5. CASE UNCHANGED imuVars
  BY <1>5 DEF imuVars, OrderInv, MessageOf, ValueOf
<1>. QED
  BY <1>2, <1>3, <1>4, <1>5, ReadLineKeepsOrder DEF ImuNext

\* The values that are published are of one message and in its order, wherever
\* the stream is joined and however its lines are torn, and fields that are read
\* behind the end of the vector are the last ones.
THEOREM OneMessageAtATime == ImuSpec => []PublishedFromOneMessage
<1>1. OrderInv => PublishedFromOneMessage
  BY DEF OrderInv, PublishedFromOneMessage
<1>. QED
  BY <1>1, OrderInvInit, OrderInvStep, PTL DEF ImuSpec

-----------------------------------------------------------------------------
(* The driver finds back into step.                                        *)

LineStarts == {0, 12, 21, 30, 39}
LinesBefore(r) == IF r = 0 THEN 0 ELSE IF r = 12 THEN 1 ELSE IF r = 21 THEN 2 ELSE IF r = 30 THEN 3 ELSE 4

\* The values of a message that come before a position.
ValuesBefore(p) == [v \in 1..((p % 42) \div 3) |-> Value(MessageOf(p), v, TRUE)]

\* From wholeFrom on every read begins a line.  A message that begins after a
\* whole last line is counted and kept from its beginning.
StepInv ==
  /\ wholeFrom \in Nat /\ wholeFrom <= pos
  /\ pos > wholeFrom =>
       pos % 42 \in LineStarts /\ query = Len(Queries) + 2 /\ unanswered = <<>>
  /\ pos - (pos % 42) >= wholeFrom + 3 =>
       line_num_ = LinesBefore(pos % 42) /\ parsed_val = ValuesBefore(pos)
  /\ WholeMessagesArePublished

\* A line that is read from its beginning to its end gives its values.
LEMMA WholeLine ==
  ASSUME NEW p \in Nat, p % 42 \in LineStarts, NEW parses \in BOOLEAN
  PROVE  LET t == Terms(p, LineEnd(p), parses)
         IN  /\ t \in Seq(Vals) /\ Len(t) = (LastOfLine(p % 42) + 1 - (p % 42)) \div 3
             /\ \A i \in 1..Len(t) : t[i] = Value(MessageOf(p), ((p % 42) \div 3) + i, TRUE)
<1>. DEFINE t == Terms(p, LineEnd(p), parses)
            r == p % 42
            to == LineEnd(p)
<1>1. LastOfLine(r) \in Nat /\ r <= LastOfLine(r) /\ r \in 0..41 /\ MessageOf(p) \in Nat
      /\ p = 42 * MessageOf(p) + r
  <2>1. r \in 0..41 /\ MessageOf(p) \in Nat /\ p = 42 * MessageOf(p) + r
    BY Position
  <2>. HIDE DEF r
  <2>2. LastOfLine(r) \in Nat /\ r <= LastOfLine(r)
    BY <2>1 DEF LastOfLine
  <2>. QED
    BY <2>1, <2>2
<1>2. to \in p..to
  <2>1. to = 42 * MessageOf(p) + LastOfLine(r)
    BY LineEndIs
  <2>. HIDE DEF to, r
  <2>. QED
    BY <1>1, <2>1
<1>3. to \in Nat /\ to % 42 = LastOfLine(r)
  BY <1>2, ReadTo
<1>4. /\ FirstHalf(p) /\ ~Separator(p) /\ ValueOf(p) = (r \div 3) + 1
      /\ ~FirstHalf(to) /\ ValueOf(to) = (LastOfLine(r) \div 3) + 1
  <2>1. /\ FirstHalf(p) <=> r % 3 = 0
        /\ Separator(p) <=> r % 3 = 2
        /\ FirstHalf(to) <=> (to % 42) % 3 = 0
        /\ ValueOf(p) = (r \div 3) + 1 /\ ValueOf(to) = ((to % 42) \div 3) + 1
    BY <1>3, Position
  <2>2. r % 3 = 0 /\ LastOfLine(r) % 3 = 2
    BY DEF LineStarts, LastOfLine
  <2>. QED
    BY <1>3, <2>1, <2>2
<1>5. /\ t \in Seq(Vals) /\ Len(t) = TermsTo(p, to, parses)
      /\ \A i \in 1..Len(t) :
           t[i] = Value(MessageOf(p), ValueOf(p) + i - 1,
                        /\ (i = 1 => FirstHalf(p))
                        /\ (ValueOf(p) + i - 1 = ValueOf(to) => ~FirstHalf(to)))
  BY <1>2, <1>4, TermsAre
<1>6. TermsTo(p, to, parses) = (LastOfLine(r) + 1 - r) \div 3
  BY <1>4 DEF TermsTo, LineStarts, LastOfLine
<1>. HIDE DEF t, to
<1>7. ASSUME NEW i \in 1..Len(t) PROVE t[i] = Value(MessageOf(p), (r \div 3) + i, TRUE)
  <2>1. t[i] = Value(MessageOf(p), ValueOf(p) + i - 1, TRUE)
    BY <1>4, <1>5
  <2>2. ValueOf(p) + i - 1 = (r \div 3) + i
    <3>1. i \in Int /\ r \div 3 \in Int
      BY <1>1
    <3>. QED
      BY <1>4, <3>1
  <2>. QED
    BY <2>1, <2>2
<1>. QED
  BY <1>5, <1>6, <1>7 DEF t, to

\* The values that come before the first n + 1 of a message.
FirstValues(msg, n) == [v \in 1..n |-> Value(msg, v, TRUE)]

\* The first values of a message, whole.
LEMMA FirstValuesAre ==
  ASSUME NEW msg \in Nat, NEW n \in 0..14
  PROVE  /\ FirstValues(msg, n) \in Seq(Vals) /\ Len(FirstValues(msg, n)) = n
         /\ \A v \in 1..n : FirstValues(msg, n)[v] = Value(msg, v, TRUE)
<1>1. FirstValues(msg, n) \in [1..n -> Vals]
  BY DEF FirstValues, Value, Vals
<1>2. \A v \in 1..n : FirstValues(msg, n)[v] = Value(msg, v, TRUE)
  BY DEF FirstValues
<1>3. n \in Nat
  OBVIOUS
<1>. QED
  BY <1>1, <1>2, <1>3, MadeSequence

\* The next values of the message go behind them.
LEMMA MoreValues ==
  ASSUME NEW msg \in Nat, NEW n \in 0..14, NEW t \in Seq(Vals), n + Len(t) <= 14,
         \A i \in 1..Len(t) : t[i] = Value(msg, n + i, TRUE)
  PROVE  FirstValues(msg, n) \o t = FirstValues(msg, n + Len(t))
<1>. DEFINE s == FirstValues(msg, n)
            all == FirstValues(msg, n + Len(t))
<1>1. Len(t) \in Nat /\ n + Len(t) \in 0..14
  BY LenProperties
<1>2. /\ s \in Seq(Vals) /\ Len(s) = n /\ \A v \in 1..n : s[v] = Value(msg, v, TRUE)
      /\ all \in Seq(Vals) /\ Len(all) = n + Len(t)
      /\ \A v \in 1..(n + Len(t)) : all[v] = Value(msg, v, TRUE)
  BY <1>1, FirstValuesAre
<1>. HIDE DEF s, all
<1>3. /\ s \o t \in Seq(Vals) /\ Len(s \o t) = n + Len(t)
      /\ \A i \in 1..(n + Len(t)) : (s \o t)[i] = IF i <= n THEN s[i] ELSE t[i - n]
  BY <1>2, ConcatProperties
<1>4. ASSUME NEW i \in 1..(n + Len(t)) PROVE (s \o t)[i] = all[i]
  <2>1. CASE i <= n
    <3>1. i \in 1..n
      BY <1>1, <2>1
    <3>2. s[i] = Value(msg, i, TRUE) /\ all[i] = Value(msg, i, TRUE)
      BY <1>2, <3>1
    <3>. QED
      BY <1>3, <2>1, <3>2
  <2>2. CASE ~(i <= n)
    <3>1. i - n \in 1..Len(t) /\ n + (i - n) = i
      BY <1>1, <2>2
    <3>2. t[i - n] = Value(msg, n + (i - n), TRUE)
      BY <3>1
    <3>. QED
      BY <1>2, <1>3, <2>2, <3>1, <3>2
  <2>. QED
    BY <2>1, <2>2
<1>5. s \o t = all
  BY <1>2, <1>3, <1>4, SeqEqual
<1>. QED
  BY <1>5 DEF s, all

\* After a torn read the driver owes nothing until a message has been read whole.
LEMMA TornReadKeepsStep ==
  ASSUME OrderInv, StepInv, pos' \in Nat, wholeFrom' = pos'
  PROVE  StepInv'
<1>. DEFINE p == pos'
<1>1. p % 42 \in 0..41 /\ p \in Nat
  BY Position
<1>. HIDE DEF p
<1>2. ~(p > p) /\ ~(p - (p % 42) >= p + 3) /\ ~(p >= p + 42 + 3) /\ p <= p
  BY <1>1
<1>3. MessageLength = 42
  BY DEF MessageLength, Values
<1>4. WholeMessagesArePublished'
  BY <1>1, <1>2, <1>3 DEF WholeMessagesArePublished, p
<1>. QED
  BY <1>1, <1>2, <1>4 DEF StepInv, p

\* A whole line of a message that is in step.
LEMMA WholeReadKeepsStep ==
  ASSUME OrderInv, StepInv, NEW parses \in BOOLEAN, pos' = LineEnd(pos) + 1,
         TakeLine(Terms(pos, LineEnd(pos), parses)), UNCHANGED <<query, unanswered, wholeFrom>>,
         query = Len(Queries) + 2, unanswered = <<>>
  PROVE  StepInv'
<1>. DEFINE q == MessageOf(pos)
            r == pos % 42
            t == Terms(pos, LineEnd(pos), parses)
            next == LastOfLine(r) + 1
<1>1. /\ pos \in Nat /\ q \in Nat /\ r \in 0..41 /\ pos = 42 * q + r
      /\ LineEnd(pos) = 42 * q + LastOfLine(r)
      /\ wholeFrom \in Nat /\ wholeFrom <= pos
  BY Position, LineEndIs DEF OrderInv, StepInv
<1>. HIDE DEF q, r
<1>2. next \in (r + 1)..42 /\ next \in {12, 21, 30, 39, 42} /\ next \in Nat
  BY <1>1 DEF LastOfLine
<1>3. pos' = 42 * q + next /\ pos' \in Nat /\ wholeFrom < pos'
  <2>1. pos' = 42 * q + LastOfLine(r) + 1 /\ LastOfLine(r) + 1 = next
    BY <1>1
  <2>2. LastOfLine(r) \in Int
    BY <1>1 DEF LastOfLine
  <2>. HIDE DEF next
  <2>. QED
    BY <1>1, <1>2, <2>1, <2>2
<1>4. pos > wholeFrom => r \in LineStarts
  BY DEF StepInv, r
<1>5. /\ next = 42 => pos' % 42 = 0 /\ MessageOf(pos') = q + 1
      /\ next # 42 => pos' % 42 = next /\ MessageOf(pos') = q
  <2>1. CASE next = 42
    <3>1. pos' = 42 * (q + 1) + 0 /\ q + 1 \in Nat /\ 0 \in 0..41
      BY <1>1, <1>3, <2>1
    <3>. QED
      BY <2>1, <3>1, PositionOf
  <2>2. CASE next # 42
    <3>1. next \in 0..41
      BY <1>2, <2>2
    <3>. QED
      BY <1>1, <1>3, <2>2, <3>1, PositionOf
  <2>. QED
    BY <2>1, <2>2
<1>6. pos' % 42 \in LineStarts
  BY <1>2, <1>5 DEF LineStarts
<1>7. r \in LineStarts => /\ t \in Seq(Vals) /\ Len(t) = (next - r) \div 3
                          /\ \A i \in 1..Len(t) : t[i] = Value(q, (r \div 3) + i, TRUE)
  <2>. SUFFICES ASSUME r \in LineStarts
                PROVE  /\ t \in Seq(Vals) /\ Len(t) = (next - r) \div 3
                       /\ \A i \in 1..Len(t) : t[i] = Value(q, (r \div 3) + i, TRUE)
    OBVIOUS
  <2>. USE DEF q, r
  <2>1. pos \in Nat /\ pos % 42 \in LineStarts
    BY <1>1
  <2>2. /\ t \in Seq(Vals) /\ Len(t) = (LastOfLine(r) + 1 - r) \div 3
        /\ \A i \in 1..Len(t) : t[i] = Value(q, (r \div 3) + i, TRUE)
    BY <2>1, WholeLine, Zenon
  <2>. HIDE DEF t, q, r
  <2>3. LastOfLine(r) + 1 - r = next - r
    <3>1. LastOfLine(r) \in Int
      BY <1>1 DEF LastOfLine
    <3>. QED
      BY <1>1, <3>1
  <2>. HIDE DEF next
  <2>. QED
    BY <2>2, <2>3
<1>8. 42 * q >= wholeFrom + 3 =>
        r \in LineStarts /\ line_num_ = LinesBefore(r) /\ parsed_val = FirstValues(q, r \div 3)
  <2>. SUFFICES ASSUME 42 * q >= wholeFrom + 3
                PROVE  r \in LineStarts /\ line_num_ = LinesBefore(r)
                       /\ parsed_val = FirstValues(q, r \div 3)
    OBVIOUS
  <2>1. pos > wholeFrom /\ pos - r >= wholeFrom + 3
    BY <1>1
  <2>. QED
    BY <1>4, <2>1 DEF StepInv, ValuesBefore, FirstValues, q, r
<1>. HIDE DEF t, next
\* The line is not the last of its message.
<1>9. CASE next # 42
  <2>1. pos' - (pos' % 42) = 42 * q /\ ~(pos' % 42 = 0)
    BY <1>1, <1>2, <1>3, <1>5, <1>9
  <2>2. ASSUME 42 * q >= wholeFrom + 3
        PROVE  line_num_' = LinesBefore(next) /\ parsed_val' = FirstValues(q, next \div 3)
    <3>1. r \in LineStarts /\ line_num_ = LinesBefore(r) /\ parsed_val = FirstValues(q, r \div 3)
      BY <1>8, <2>2
    <3>2. /\ (next - r) \div 3 \in {3, 4} /\ r \div 3 \in 0..14
          /\ r \div 3 + (next - r) \div 3 = next \div 3 /\ next \div 3 <= 14
          /\ LinesBefore(r) + 1 = LinesBefore(next)
      BY <1>9, <3>1 DEF LineStarts, LastOfLine, LinesBefore, next
    <3>3. /\ t \in Seq(Vals) /\ Len(t) = (next - r) \div 3
          /\ \A i \in 1..Len(t) : t[i] = Value(q, (r \div 3) + i, TRUE)
      BY <1>7, <3>1
    <3>4. Len(t) # 1
      BY <3>2, <3>3
    <3>5. line_num_' = line_num_ + 1 /\ parsed_val' = parsed_val \o t
      BY <3>4 DEF TakeLine, t
    <3>6. FirstValues(q, r \div 3) \o t = FirstValues(q, r \div 3 + Len(t))
      BY <1>1, <3>2, <3>3, MoreValues
    <3>. QED
      BY <3>1, <3>2, <3>3, <3>5, <3>6
  <2>3. ValuesBefore(pos)' = FirstValues(q, next \div 3)
    BY <1>5, <1>9 DEF ValuesBefore, FirstValues, MessageOf
  <2>4. WholeMessagesArePublished'
    BY <2>1 DEF WholeMessagesArePublished, MessageLength, Values
  <2>. QED
    BY <1>1, <1>3, <1>5, <1>6, <1>9, <2>1, <2>2, <2>3, <2>4 DEF StepInv
\* The line is the last of its message.
<1>10. CASE next = 42
  <2>1. r \in 39..41
    BY <1>1, <1>10 DEF LastOfLine, next
  <2>2. pos' - (pos' % 42) = pos' /\ pos' % 42 = 0 /\ MessageOf(pos') - 1 = q
    BY <1>1, <1>3, <1>5, <1>10
  <2>3. ASSUME pos' >= wholeFrom + 3
        PROVE  line_num_' = 0 /\ parsed_val' = <<>> /\ r = 39 /\ Len(t) = 1
    <3>1. r = 39
      <4>1. CASE pos > wholeFrom
        <5>1. r \in LineStarts
          BY <1>4, <4>1
        <5>. QED
          BY <2>1, <5>1 DEF LineStarts
      <4>2. CASE ~(pos > wholeFrom)
        BY <1>1, <1>3, <1>10, <2>1, <2>3, <4>2
      <4>. QED
        BY <4>1, <4>2
    <3>2. Len(t) = 1
      <4>1. r \in LineStarts /\ (next - r) \div 3 = 1
        BY <1>10, <3>1 DEF LineStarts
      <4>. QED
        BY <1>7, <4>1
    <3>. QED
      BY <3>1, <3>2 DEF TakeLine, t
  <2>4. ValuesBefore(pos)' = <<>>
    <3>1. (pos' % 42) \div 3 = 0 /\ MessageOf(pos') \in Nat
      BY <1>3, <2>2, PlaceIs
    <3>2. ValuesBefore(pos)' = FirstValues(MessageOf(pos'), (pos' % 42) \div 3)
      BY DEF ValuesBefore, FirstValues, MessageOf
    <3>3. /\ FirstValues(MessageOf(pos'), 0) \in Seq(Vals)
          /\ Len(FirstValues(MessageOf(pos'), 0)) = 0
      <4>. DEFINE msg == MessageOf(pos')
      <4>1. msg \in Nat /\ 0 \in 0..14
        BY <3>1
      <4>. HIDE DEF msg
      <4>2. FirstValues(msg, 0) \in Seq(Vals) /\ Len(FirstValues(msg, 0)) = 0
        BY <4>1, FirstValuesAre
      <4>. QED
        BY <4>2 DEF msg
    <3>4. FirstValues(MessageOf(pos'), 0) = <<>>
      BY <3>3, EmptySeq
    <3>. QED
      BY <3>1, <3>2, <3>4
  <2>5. ASSUME pos' >= wholeFrom + 42 + 3 PROVE published' = WholeMessage(q)
    <3>1. 42 * q >= wholeFrom + 3 /\ pos' >= wholeFrom + 3
      BY <1>1, <1>3, <1>10, <2>5
    <3>2. /\ r = 39 /\ Len(t) = 1 /\ r \in LineStarts
          /\ line_num_ = LinesBefore(r) /\ parsed_val = FirstValues(q, r \div 3)
      BY <1>8, <2>3, <3>1
    <3>3. line_num_ + 1 = 5 /\ r \div 3 = 13
      BY <3>2 DEF LinesBefore
    <3>4. published' = createAndPublishIMUMessage(parsed_val \o t)
      BY <3>2, <3>3 DEF TakeLine, t
    <3>5. /\ t \in Seq(Vals)
          /\ \A i \in 1..Len(t) : t[i] = Value(q, 13 + i, TRUE)
      BY <1>7, <3>2, <3>3
    <3>6. FirstValues(q, 13) \o t = FirstValues(q, 13 + Len(t))
      <4>1. 13 \in 0..14 /\ 13 + Len(t) <= 14
        BY <3>2
      <4>. QED
        BY <1>1, <3>5, <4>1, MoreValues
    <3>7. parsed_val \o t = FirstValues(q, 14)
      BY <3>2, <3>3, <3>6
    <3>8. /\ Len(FirstValues(q, 14)) = 14
          /\ \A v \in 1..14 : FirstValues(q, 14)[v] = Value(q, v, TRUE)
      BY <1>1, FirstValuesAre DEF FirstValues
    <3>9. \A v \in 1..14 : v <= 14
      OBVIOUS
    <3>10. createAndPublishIMUMessage(FirstValues(q, 14)) = WholeMessage(q)
      BY <3>8, <3>9 DEF createAndPublishIMUMessage, WholeMessage, Values
    <3>. QED
      BY <3>4, <3>7, <3>10
  <2>6. WholeMessagesArePublished'
    <3>1. (MessageOf(pos) - 1)' = q
      BY <2>2 DEF MessageOf
    <3>. QED
      BY <2>5, <3>1 DEF WholeMessagesArePublished, MessageLength, Values
  <2>7. LinesBefore(pos' % 42) = 0
    BY <2>2 DEF LinesBefore
  <2>. QED
    BY <1>1, <1>3, <1>6, <2>2, <2>3, <2>4, <2>6, <2>7 DEF StepInv
<1>. QED
  BY <1>9, <1>10

\* At first it owes nothing either.
LEMMA StepInvInit == ImuInit => StepInv
<1>. SUFFICES ASSUME ImuInit PROVE StepInv
  OBVIOUS
<1>1. pos = 0 /\ wholeFrom = 0
  BY DEF ImuInit
<1>2. ~(pos > wholeFrom) /\ ~(pos - (pos % 42) >= wholeFrom + 3) /\ ~(pos >= wholeFrom + 42 + 3)
      /\ wholeFrom \in Nat /\ wholeFrom <= pos
  BY <1>1
<1>. QED
  BY <1>2 DEF StepInv, WholeMessagesArePublished, MessageLength, Values

\* Every step keeps counter and buffer where the line says.
LEMMA StepInvStep == OrderInv /\ StepInv /\ [ImuNext]_imuVars => StepInv'
<1>. SUFFICES ASSUME OrderInv, StepInv, [ImuNext]_imuVars PROVE StepInv'
  OBVIOUS
<1>0. pos \in Nat /\ wholeFrom \in Nat /\ wholeFrom <= pos
  BY DEF OrderInv, StepInv
\* Before the stream is read nothing is claimed.
<1>1. ASSUME query # Len(Queries) + 2 \/ unanswered # <<>>, UNCHANGED <<pos, wholeFrom>>
      PROVE  StepInv'
  <2>1. ~(pos > wholeFrom)
    BY <1>1 DEF StepInv
  <2>2. wholeFrom' = pos'
    BY <1>0, <1>1, <2>1
  <2>. QED
    BY <1>0, <1>1, <2>2, TornReadKeepsStep
<1>2. CASE GetSetting
  <2>1. query # Len(Queries) + 2
    BY <1>2 DEF GetSetting, Queries
  <2>. QED
    BY <1>1, <1>2, <2>1 DEF GetSetting
<1>3. CASE StartStreaming
  BY <1>3, TornReadKeepsStep DEF StartStreaming, MessageLength, Values
<1>4. CASE ReadLateAnswer
  BY <1>1, <1>4 DEF ReadLateAnswer
<1>5. CASE ReadLine
  <2>1. PICK to \in pos..LineEnd(pos), parses \in BOOLEAN :
          /\ TakeLine(Terms(pos, to, parses)) /\ pos' = to + 1
          /\ wholeFrom' = IF to < LineEnd(pos) THEN to + 1 ELSE wholeFrom
    BY <1>5 DEF ReadLine
  <2>2. to \in Nat /\ LineEnd(pos) \in Int
    <3>1. LineEnd(pos) = 42 * MessageOf(pos) + LastOfLine(pos % 42) /\ MessageOf(pos) \in Nat
      BY <1>0, LineEndIs, Position
    <3>2. LastOfLine(pos % 42) \in Nat
      BY DEF LastOfLine
    <3>. QED
      BY <1>0, <3>1, <3>2
  <2>3. CASE to < LineEnd(pos)
    BY <2>1, <2>2, <2>3, TornReadKeepsStep
  <2>4. CASE ~(to < LineEnd(pos))
    <3>1. to = LineEnd(pos) /\ wholeFrom' = wholeFrom
      BY <1>0, <2>1, <2>2, <2>4
    <3>2. query = Len(Queries) + 2 /\ unanswered = <<>> /\ UNCHANGED <<query, unanswered>>
      BY <1>5 DEF ReadLine
    <3>. QED
      BY <2>1, <3>1, <3>2, WholeReadKeepsStep
  <2>. QED
    BY <2>3, <2>4
<1>6. CASE UNCHANGED imuVars
  BY <1>6 DEF imuVars, StepInv, ValuesBefore, MessageOf, WholeMessagesArePublished
<1>. QED
  BY <1>2, <1>3, <1>4, <1>5, <1>6 DEF ImuNext

\* Once the last line of a message has been read whole, every message whose
\* lines are read whole is published whole, for streams of any length and any
\* number of torn reads before.
THEOREM BackInStep == ImuSpec => []WholeMessagesArePublished
<1>1. StepInv => WholeMessagesArePublished
  BY DEF StepInv
<1>2. OrderInv /\ StepInv /\ [ImuNext]_imuVars => (OrderInv /\ StepInv)'
  BY OrderInvStep, StepInvStep
<1>. QED
  BY <1>1, <1>2, OrderInvInit, StepInvInit, PTL DEF ImuSpec
=============================================================================
