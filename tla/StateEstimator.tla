---------------------------- MODULE StateEstimator ----------------------------
(***************************************************************************)
(* The StateEstimator node (StateEstimator.cpp, ThreadedQueue.hpp).  The   *)
(* "ros" thread runs the callbacks of the IMU and the GPS: they queue the  *)
(* messages, and the IMU's publishes a pose, extrapolated from the last    *)
(* optimised state with the IMU messages since.  The "optimizer" thread    *)
(* takes the messages from the queues and adds one key of the factor graph *)
(* for each period, with the IMU messages of the period and the fix close  *)
(* to its end.                                                             *)
(*                                                                         *)
(* A message is its time stamp, a natural number.  External: the smoother, *)
(* whose result is known by the time of the key it is for, and the two     *)
(* sensors, each of which sends stamps that increase; nothing is known of  *)
(* the delay between the two.                                              *)
(***************************************************************************)
EXTENDS Integers, Sequences

CONSTANTS
  Period,     \* the time between two keys, 0.1 s in the code
  Tolerance,  \* how close to its key a fix must be, 0.01 s in the code
  MaxGap,     \* the longest time between two IMU messages
  MaxTime     \* bound: the last time stamp

ASSUME ConstantsAssumption ==
  /\ Period \in Nat \ {0}
  /\ Tolerance \in Nat
  /\ MaxGap \in Nat
  /\ MaxTime \in Nat

VARIABLES
  imuQ_, gpsQ_,       \* shared, each behind the mutex of its queue
  doneFirstOpt_,      \* shared, behind mutex_
  currentTime_,       \* shared, with the state of that time
  imuMeasurements_,   \* ros: the messages since the state it last saw
  imuIntegrator_,     \* ros: the messages integrated since its last reset
  poseTime,           \* ros: the state that the last pose was predicted from
  inCallback,         \* ros: imuCallback has queued its message
  pc,                 \* optimizer: where it is
  startTime, lastImu, imuKey, gpsKey,  \* optimizer: its local variables
  integrator,         \* optimizer: the messages of the factor being built
  sentImu, sentFix    \* the sensors: stamps sent

shared     == <<imuQ_, gpsQ_, doneFirstOpt_, currentTime_>>
published  == <<doneFirstOpt_, currentTime_>>
rosVars    == <<imuMeasurements_, imuIntegrator_, poseTime, inCallback>>
optVars    == <<pc, startTime, lastImu, imuKey, gpsKey, integrator>>
sensorVars == <<sentImu, sentFix>>
vars == <<shared, rosVars, optVars, sensorVars>>

Init ==
  /\ imuQ_ = << >> /\ gpsQ_ = << >>
  /\ doneFirstOpt_ = FALSE
  /\ currentTime_ = 0      \* not initialised, and not read before it is set
  /\ imuMeasurements_ = << >> /\ imuIntegrator_ = << >>
  /\ poseTime = 0
  /\ inCallback = FALSE
  /\ pc = "first fix"
  /\ startTime = 0 /\ lastImu = 0
  /\ imuKey = 1 /\ gpsKey = 1
  /\ integrator = << >>
  /\ sentImu = << >> /\ sentFix = << >>

KeyTime(k) == startTime + Period * k
Back(q) == q[Len(q)]

-----------------------------------------------------------------------------
(* The ros thread.                                                         *)

NextImu(stamp) ==
  sentImu # << >> => stamp > Back(sentImu) /\ stamp <= Back(sentImu) + MaxGap

\* imuCallback, up to the lock.
ImuCallback(stamp) ==
  /\ ~inCallback
  /\ NextImu(stamp)
  /\ sentImu' = Append(sentImu, stamp)
  /\ imuQ_' = Append(imuQ_, stamp)
  /\ imuMeasurements_' = Append(imuMeasurements_, stamp)
  /\ inCallback' = TRUE
  /\ UNCHANGED <<gpsQ_, published, imuIntegrator_, poseTime, optVars, sentFix>>

\* Where the first message that is not before time t is, or would be next.
FirstFrom(q, t) ==
  CHOOSE n \in 1..(Len(q) + 1) :
    /\ \A i \in 1..(n - 1) : q[i] < t
    /\ n <= Len(q) => q[n] >= t

\* The messages before time t are dropped from the front.
NotOlder(q, t) == SubSeq(q, FirstFrom(q, t), Len(q))

\* Variant: the messages are integrated on top of those from before.
Integrate_NoReset(kept) ==
  IF kept # imuMeasurements_
  THEN imuIntegrator_ \o kept
  ELSE Append(imuIntegrator_, Back(imuMeasurements_))

\* A message was dropped, so there is a new state: the rest are integrated
\* from it.  Otherwise only the new message is.
Integrate(kept) ==
  IF kept # imuMeasurements_
  THEN kept
  ELSE Append(imuIntegrator_, Back(imuMeasurements_))

\* The rest of imuCallback: the state of the optimizer is copied under the
\* lock; before there is one, no pose is published.
Pose ==
  /\ inCallback
  /\ inCallback' = FALSE
  /\ \/ /\ ~doneFirstOpt_
        /\ UNCHANGED <<imuMeasurements_, imuIntegrator_, poseTime>>
     \/ /\ doneFirstOpt_
        /\ LET kept == NotOlder(imuMeasurements_, currentTime_)
           IN  /\ imuMeasurements_' = kept
               /\ imuIntegrator_' = Integrate(kept)
        /\ poseTime' = currentTime_
  /\ UNCHANGED <<shared, optVars, sensorVars>>

GpsCallback(stamp) ==
  /\ ~inCallback
  /\ sentFix # << >> => stamp > Back(sentFix)
  /\ sentFix' = Append(sentFix, stamp)
  /\ gpsQ_' = Append(gpsQ_, stamp)
  /\ UNCHANGED <<imuQ_, published, rosVars, optVars, sentImu>>

-----------------------------------------------------------------------------
(* The optimizer thread.  ThreadedQueue::pop blocks while a queue is empty.*)

FirstFix ==
  /\ pc = "first fix"
  /\ gpsQ_ # << >>
  /\ startTime' = Head(gpsQ_)
  /\ gpsQ_' = Tail(gpsQ_)
  /\ pc' = "first imu"
  /\ UNCHANGED <<imuQ_, published, rosVars, lastImu, imuKey, gpsKey, integrator,
                 sensorVars>>

FirstImu ==
  /\ pc = "first imu"
  /\ imuQ_ # << >>
  /\ lastImu' = Head(imuQ_)
  /\ imuQ_' = Tail(imuQ_)
  /\ pc' = "remove old"
  /\ UNCHANGED <<gpsQ_, published, rosVars, startTime, imuKey, gpsKey,
                 integrator, sensorVars>>

\* Variant: the queue is emptied.
OldMessage_Any == imuQ_ # << >>

\* Only the messages that have arrived by now are looked at.
OldMessage == imuQ_ # << >> /\ Head(imuQ_) < startTime

RemoveOld ==
  /\ pc = "remove old"
  /\ \/ /\ OldMessage
        /\ lastImu' = Head(imuQ_)
        /\ imuQ_' = Tail(imuQ_)
        /\ UNCHANGED pc
     \/ /\ ~OldMessage
        /\ pc' = "loop"
        /\ UNCHANGED <<lastImu, imuQ_>>
  /\ UNCHANGED <<gpsQ_, published, rosVars, startTime, imuKey, gpsKey,
                 integrator, sensorVars>>

\* Variant: a key is begun as soon as there is a message.
KeyDue_NotChecked == imuQ_ # << >>

\* A message newer than the next key has arrived.  While there is none the
\* loop turns without effect.
KeyDue == imuQ_ # << >> /\ Back(imuQ_) > KeyTime(imuKey)

BeginKey ==
  /\ pc = "loop"
  /\ KeyDue
  /\ integrator' = << >>
  /\ pc' = "integrate"
  /\ UNCHANGED <<shared, rosVars, startTime, lastImu, imuKey, gpsKey, sensorVars>>

\* Variant: a message at the time of the key belongs to the period before.
BeforeKey_OrAt == lastImu <= KeyTime(imuKey)

BeforeKey == lastImu < KeyTime(imuKey)

IntegrateMeasurement ==
  /\ pc = "integrate"
  /\ BeforeKey
  /\ imuQ_ # << >>
  /\ integrator' = Append(integrator, lastImu)
  /\ lastImu' = Head(imuQ_)
  /\ imuQ_' = Tail(imuQ_)
  /\ UNCHANGED <<gpsQ_, published, rosVars, pc, startTime, imuKey, gpsKey,
                 sensorVars>>

AddKey ==
  /\ pc = "integrate"
  /\ ~BeforeKey
  /\ imuKey' = imuKey + 1
  /\ pc' = "gps"
  /\ UNCHANGED <<shared, rosVars, startTime, lastImu, gpsKey, integrator,
                 sensorVars>>

Close(stamp, k) == stamp - KeyTime(k) \in -Tolerance..Tolerance

\* Variant: the key may be one that is not in the graph yet.
FixDue_AnyKey == gpsQ_ # << >> /\ Back(gpsQ_) > KeyTime(gpsKey)

FixDue ==
  /\ gpsQ_ # << >>
  /\ gpsKey < imuKey
  /\ Back(gpsQ_) > KeyTime(gpsKey)

\* Variant: a fix that is not used stays in the queue.
RestOfFixes_KeepsUnused == IF Close(Head(gpsQ_), gpsKey) THEN Tail(gpsQ_) ELSE gpsQ_

RestOfFixes == Tail(gpsQ_)

\* A fix that is not close to key gpsKey is dropped, and gpsKey stays.
TakeFix ==
  /\ pc = "gps"
  /\ FixDue
  /\ gpsQ_' = RestOfFixes
  /\ gpsKey' = IF Close(Head(gpsQ_), gpsKey) THEN gpsKey + 1 ELSE gpsKey
  /\ UNCHANGED <<imuQ_, published, rosVars, pc, startTime, lastImu, imuKey,
                 integrator, sensorVars>>

\* The factors are forgotten when the smoother throws, the key is not.
Update ==
  /\ pc = "gps"
  /\ ~FixDue
  /\ pc' = "loop"
  /\ \/ /\ currentTime_' = KeyTime(imuKey - 1)
        /\ doneFirstOpt_' = TRUE
     \/ UNCHANGED published
  /\ UNCHANGED <<imuQ_, gpsQ_, rosVars, startTime, lastImu, imuKey, gpsKey,
                 integrator, sensorVars>>

Optimizer ==
  \/ FirstFix
  \/ FirstImu
  \/ RemoveOld
  \/ BeginKey
  \/ IntegrateMeasurement
  \/ AddKey
  \/ TakeFix
  \/ Update

-----------------------------------------------------------------------------
Stamps == 0..MaxTime

Next ==
  \/ \E stamp \in Stamps : ImuCallback(stamp) \/ GpsCallback(stamp)
  \/ Pose
  \/ Optimizer

Spec == Init /\ [][Next]_vars

\* The optimizer is scheduled; the sensors may fall silent.
FairSpec == Spec /\ WF_vars(Optimizer)

-----------------------------------------------------------------------------
Places == {"first fix", "first imu", "remove old", "loop", "integrate", "gps"}

(* Queues hold time stamps, and a fix only ever belongs to a key that is   *)
(* in the graph already.                                                   *)
TypeOK ==
  /\ imuQ_ \in Seq(Stamps) /\ gpsQ_ \in Seq(Stamps)
  /\ doneFirstOpt_ \in BOOLEAN
  /\ currentTime_ \in Nat
  /\ imuMeasurements_ \in Seq(Stamps) /\ imuIntegrator_ \in Seq(Stamps)
  /\ poseTime \in Nat
  /\ inCallback \in BOOLEAN
  /\ pc \in Places
  /\ startTime \in Stamps /\ lastImu \in Stamps
  /\ imuKey \in Nat \ {0} /\ gpsKey \in Nat \ {0} /\ gpsKey <= imuKey
  /\ integrator \in Seq(Stamps)
  /\ sentImu \in Seq(Stamps) /\ sentFix \in Seq(Stamps)

(* The inner loop pops until a message is newer than the key, from a queue *)
(* that blocks when it is empty: it never finds it empty, so the optimizer *)
(* is never stuck halfway through a key.                                   *)
NeverStuckInKey == pc = "integrate" /\ BeforeKey => imuQ_ # << >>

Since(from, to) ==
  SubSeq(sentImu, FirstFrom(sentImu, from), FirstFrom(sentImu, to) - 1)

(* The factor between two keys holds every IMU message of the period, once *)
(* and in order, and no other.  (The first also holds what was queued      *)
(* before the first fix.)                                                  *)
FactorHoldsItsPeriod ==
  pc = "gps" /\ imuKey > 2
  => integrator = Since(KeyTime(imuKey - 2), KeyTime(imuKey - 1))

\* The IMU never falls silent for a period, and was running by the first fix.
SteadyImu ==
  /\ MaxGap <= Period
  /\ sentImu # << >> /\ sentFix # << >> /\ sentImu[1] <= sentFix[1]

(* With a steady IMU there are measurements between a key and the one      *)
(* before, without which the covariance of its factor is zero.             *)
NoEmptyFactor == SteadyImu /\ pc = "gps" => integrator # << >>

(* With a steady IMU, the pose published is the optimised state it was     *)
(* read with, moved on by each IMU message since the time of that state,   *)
(* once and in order, wherever in the callback the optimizer publishes the *)
(* next one.                                                               *)
PoseSinceItsState ==
  SteadyImu /\ ~inCallback /\ poseTime > 0
  => imuIntegrator_ = NotOlder(sentImu, poseTime)

(* The optimizer keeps up: once a second IMU message is not older than a   *)
(* key, the key is put in the graph and the smoother run, whatever fixes   *)
(* come and are dropped, and whether it throws or not.                     *)
KeepsUp ==
  \A k \in 1..MaxTime :
    pc # "first fix" /\ Len(sentImu) > 1 /\ sentImu[Len(sentImu) - 1] >= KeyTime(k)
    ~> pc = "loop" /\ imuKey > k

(* Comment: all fixes very close to the factors are wanted.  So a fix      *)
(* close to a key that has none yet is used.                               *)
CloseFixIsUsed ==
  [][Len(gpsQ_') < Len(gpsQ_) /\ pc = "gps"
     /\ (\E k \in gpsKey..(imuKey - 1) : Close(Head(gpsQ_), k))
     => gpsKey' > gpsKey]_vars

=============================================================================
