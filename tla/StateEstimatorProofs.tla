-------------------------- MODULE StateEstimatorProofs -------------------------
(***************************************************************************)
(* The state estimator, for any period, tolerance, gap and stamps: its     *)
(* optimizer is never stuck halfway through a key, a factor holds the      *)
(* messages of its period and, with a steady IMU, is not empty, and a pose *)
(* is predicted from its state with the messages since.                    *)
(***************************************************************************)
EXTENDS StateEstimator, SequenceTheorems, WellFoundedInduction, TLAPS

-----------------------------------------------------------------------------
(* Sequences.                                                              *)

\* Appending to a queue.
LEMMA BackOfAppend ==
  ASSUME NEW S, NEW q \in Seq(S), NEW e \in S
  PROVE  /\ Append(q, e) \in Seq(S)
         /\ Append(q, e) # << >>
         /\ Len(Append(q, e)) = Len(q) + 1
         /\ \A i \in 1..Len(q) : Append(q, e)[i] = q[i]
         /\ Append(q, e)[Len(q) + 1] = e
         /\ Back(Append(q, e)) = e
BY AppendProperties DEF Back

\* Popping the only element leaves an empty queue, popping one of several
\* leaves the last where it is.
LEMMA BackOfTail ==
  ASSUME NEW S, NEW q \in Seq(S), q # << >>
  PROVE  /\ Head(q) \in S /\ Head(q) = q[1]
         /\ Tail(q) \in Seq(S) /\ Len(Tail(q)) = Len(q) - 1
         /\ \A i \in 1..Len(Tail(q)) : Tail(q)[i] = q[i + 1]
         /\ Tail(q) = << >> => Back(q) = Head(q)
         /\ Tail(q) # << >> => Back(Tail(q)) = Back(q)
<1>1. /\ Head(q) \in S /\ Tail(q) \in Seq(S) /\ Len(Tail(q)) = Len(q) - 1
      /\ \A i \in 1..Len(Tail(q)) : Tail(q)[i] = q[i + 1]
  BY HeadTailProperties
<1>2. Len(q) \in Nat /\ (Tail(q) = << >> => Len(Tail(q)) = 0)
  BY EmptySeq, LenProperties
<1>3. Tail(q) # << >> => Len(Tail(q)) \in 1..Len(Tail(q))
  BY <1>1, EmptySeq
<1>4. Head(q) = q[1]
  OBVIOUS
<1>. QED
  BY <1>1, <1>2, <1>3, <1>4 DEF Back

\* Every set of numbers has a least one.
LEMMA LeastOf ==
  ASSUME NEW T, T \subseteq Nat, T # {}
  PROVE  \E n \in T : \A m \in T : n <= m
<1>1. PICK n \in T : \A m \in T : ~(<<m, n>> \in OpToRel(<, Nat))
  BY NatLessThanWellFounded, WFMin, Zenon
<1>2. \A m \in T : m \in Nat /\ n \in Nat /\ ~(m < n)
  BY <1>1 DEF OpToRel
<1>3. \A m \in T : n <= m
  BY <1>2
<1>. QED
  BY <1>3, Zenon

\* The search for the first message from a time on ends where it should.
LEMMA FirstFromExists ==
  ASSUME NEW q \in Seq(Nat), NEW t \in Nat
  PROVE  LET n == FirstFrom(q, t)
         IN  /\ n \in 1..(Len(q) + 1)
             /\ \A i \in 1..(n - 1) : q[i] < t
             /\ n <= Len(q) => q[n] >= t
<1>. DEFINE T == {i \in 1..(Len(q) + 1) : i <= Len(q) => q[i] >= t}
<1>1. T \subseteq Nat /\ Len(q) + 1 \in T
  OBVIOUS
<1>2. PICK n \in T : \A m \in T : n <= m
  BY <1>1, LeastOf
<1>3. \A i \in 1..(n - 1) : q[i] < t
  <2>. SUFFICES ASSUME NEW i \in 1..(n - 1) PROVE q[i] < t
    OBVIOUS
  <2>1. i \in 1..Len(q) /\ i \notin T
    BY <1>2
  <2>. QED
    BY <2>1
<1>. QED
  BY <1>2, <1>3, Zenon DEF FirstFrom

\* There is only one place where it may end.
LEMMA FirstFromIs ==
  ASSUME NEW q \in Seq(Nat), NEW t \in Nat, NEW n \in 1..(Len(q) + 1),
         \A i \in 1..(n - 1) : q[i] < t,
         n <= Len(q) => q[n] >= t
  PROVE  FirstFrom(q, t) = n
<1>1. ASSUME NEW m \in 1..(Len(q) + 1),
             \A i \in 1..(m - 1) : q[i] < t,
             m <= Len(q) => q[m] >= t
      PROVE  m = n
  BY <1>1
<1>. QED
  BY <1>1 DEF FirstFrom

\* What is left of a queue whose old messages are dropped.
LEMMA NotOlderProperties ==
  ASSUME NEW q \in Seq(Stamps), NEW t \in Nat
  PROVE  LET n == FirstFrom(q, t)  kept == NotOlder(q, t)
         IN  /\ n \in 1..(Len(q) + 1)
             /\ \A i \in 1..(n - 1) : q[i] < t
             /\ n <= Len(q) => q[n] >= t
             /\ kept \in Seq(Stamps) /\ Len(kept) = Len(q) - n + 1
             /\ \A i \in 1..Len(kept) : kept[i] = q[n - 1 + i]
             /\ kept = q <=> n = 1
<1>. DEFINE n == FirstFrom(q, t)
            kept == NotOlder(q, t)
<1>1. /\ n \in 1..(Len(q) + 1)
      /\ \A i \in 1..(n - 1) : q[i] < t
      /\ n <= Len(q) => q[n] >= t
  <2>1. q \in Seq(Nat)
    BY SeqMonotonic, ConstantsAssumption DEF Stamps
  <2>. QED
    BY <2>1, FirstFromExists
<1>. HIDE DEF n
<1>2. /\ kept \in Seq(Stamps)
      /\ Len(kept) = IF n <= Len(q) THEN Len(q) - n + 1 ELSE 0
      /\ \A i \in 1..(Len(q) - n + 1) : kept[i] = q[n + i - 1]
  <2>1. \A i \in n..Len(q) : q[i] \in Stamps
    BY <1>1
  <2>. QED
    BY <1>1, <2>1, SubSeqProperties DEF NotOlder, n
<1>3. Len(kept) = Len(q) - n + 1
  BY <1>1, <1>2
<1>4. n = 1 => kept = q
  BY SubSeqFull DEF NotOlder, n
<1>. QED
  BY <1>1, <1>2, <1>3, <1>4 DEF n

-----------------------------------------------------------------------------
(* Types.                                                                  *)

\* Stamps are numbers from zero on.
LEMMA StampsAreNumbers == Stamps \subseteq Nat /\ 0 \in Stamps
BY ConstantsAssumption DEF Stamps

\* Keys are a period apart.
LEMMA KeyTimeType ==
  ASSUME TypeOK, NEW k \in Nat
  PROVE  /\ KeyTime(k) \in Nat /\ startTime <= KeyTime(k)
         /\ k > 0 => startTime < KeyTime(k)
         /\ KeyTime(k + 1) = KeyTime(k) + Period
<1>1. startTime \in Nat /\ Period \in Nat /\ Period > 0
  BY StampsAreNumbers, ConstantsAssumption DEF TypeOK
<1>2. /\ Period * k \in Nat
      /\ Period * (k + 1) = Period * k + Period
      /\ k > 0 => Period * k > 0
  BY <1>1
<1>. QED
  BY <1>1, <1>2 DEF KeyTime

\* A queue that is not empty ends with a stamp.
LEMMA BackType == ASSUME NEW q \in Seq(Stamps), q # << >> PROVE Back(q) \in Stamps
<1>1. Len(q) \in 1..Len(q)
  BY EmptySeq, LenProperties
<1>. QED
  BY <1>1 DEF Back

(* The message that a callback handles is still in the list.               *)
TypeInv == TypeOK /\ (inCallback => imuMeasurements_ # << >>)

\* The node starts with values of the right types.
LEMMA InitTypes == Init => TypeInv
<1>. SUFFICES ASSUME Init PROVE TypeInv
  OBVIOUS
<1>1. << >> \in Seq(Stamps) /\ 0 \in Stamps /\ 0 \in Nat
  BY StampsAreNumbers
<1>2. imuKey \in Nat \ {0} /\ gpsKey \in Nat \ {0} /\ gpsKey <= imuKey
  <2>1. imuKey = 1 /\ gpsKey = 1
    BY DEF Init
  <2>. QED
    BY <2>1
<1>3. pc \in Places /\ doneFirstOpt_ \in BOOLEAN /\ inCallback \in BOOLEAN /\ ~inCallback
  BY DEF Init, Places
<1>. QED
  BY <1>1, <1>2, <1>3 DEF Init, TypeOK, TypeInv

\* Every step keeps the types.
LEMMA StepTypes == TypeInv /\ [Next]_vars => TypeInv'
<1>. SUFFICES ASSUME TypeInv, [Next]_vars PROVE TypeInv'
  OBVIOUS
<1>. USE DEF TypeInv, shared, published, rosVars, optVars, sensorVars
<1>1. ASSUME NEW stamp \in Stamps, ImuCallback(stamp) PROVE TypeInv'
  <2>1. \A q \in Seq(Stamps) : Append(q, stamp) \in Seq(Stamps) /\ Append(q, stamp) # << >>
    BY BackOfAppend
  <2>. QED
    BY <1>1, <2>1 DEF ImuCallback, TypeOK
<1>2. ASSUME NEW stamp \in Stamps, GpsCallback(stamp) PROVE TypeInv'
  <2>1. Append(gpsQ_, stamp) \in Seq(Stamps) /\ Append(sentFix, stamp) \in Seq(Stamps)
    BY BackOfAppend DEF TypeOK
  <2>. QED
    BY <1>2, <2>1 DEF GpsCallback, TypeOK
<1>3. CASE Pose
  <2>1. CASE UNCHANGED <<imuMeasurements_, imuIntegrator_, poseTime>>
    BY <1>3, <2>1 DEF Pose, TypeOK
  <2>2. CASE /\ imuMeasurements_' = NotOlder(imuMeasurements_, currentTime_)
             /\ imuIntegrator_' = Integrate(NotOlder(imuMeasurements_, currentTime_))
             /\ poseTime' = currentTime_
    <3>1. NotOlder(imuMeasurements_, currentTime_) \in Seq(Stamps)
      BY NotOlderProperties DEF TypeOK
    <3>2. Append(imuIntegrator_, Back(imuMeasurements_)) \in Seq(Stamps)
      BY <1>3, BackType, BackOfAppend DEF TypeOK, Pose
    <3>3. imuIntegrator_' \in Seq(Stamps)
      BY <2>2, <3>1, <3>2 DEF Integrate
    <3>. QED
      BY <1>3, <2>2, <3>1, <3>3 DEF Pose, TypeOK
  <2>. QED
    BY <1>3, <2>1, <2>2 DEF Pose
<1>4. CASE FirstFix
  BY <1>4, BackOfTail DEF FirstFix, TypeOK, Places
<1>5. CASE FirstImu
  BY <1>5, BackOfTail DEF FirstImu, TypeOK, Places
<1>6. CASE RemoveOld
  BY <1>6, BackOfTail DEF RemoveOld, OldMessage, TypeOK, Places
<1>7. CASE BeginKey
  <2>1. << >> \in Seq(Stamps)
    OBVIOUS
  <2>. QED
    BY <1>7, <2>1 DEF BeginKey, TypeOK, Places
<1>8. CASE IntegrateMeasurement
  <2>1. Append(integrator, lastImu) \in Seq(Stamps)
    BY BackOfAppend DEF TypeOK
  <2>. QED
    BY <1>8, <2>1, BackOfTail DEF IntegrateMeasurement, TypeOK
<1>9. CASE AddKey
  BY <1>9 DEF AddKey, TypeOK, Places
<1>10. CASE TakeFix
  <2>1. gpsKey' \in Nat \ {0} /\ gpsKey' <= imuKey
    BY <1>10 DEF TakeFix, FixDue, TypeOK
  <2>. QED
    BY <1>10, <2>1, BackOfTail DEF TakeFix, FixDue, RestOfFixes, TypeOK
<1>11. CASE Update
  <2>1. imuKey - 1 \in Nat
    BY DEF TypeOK
  <2>2. currentTime_' \in Nat
    BY <1>11, <2>1, KeyTimeType DEF Update, TypeOK
  <2>. QED
    BY <1>11, <2>2 DEF Update, TypeOK, Places
<1>12. CASE UNCHANGED vars
  BY <1>12 DEF vars, TypeOK
<1>. QED
  BY <1>1, <1>2, <1>3, <1>4, <1>5, <1>6, <1>7, <1>8, <1>9, <1>10, <1>11, <1>12
     DEF Next, Optimizer

\* The queues and the messages held are sequences of stamps, the state that is
\* published has a time, and a fix is only matched with a key of the graph.
THEOREM TypeCorrect == Spec => []TypeOK
<1>1. Spec => []TypeInv
  BY InitTypes, StepTypes, PTL DEF Spec
<1>2. TypeInv => TypeOK
  BY DEF TypeInv
<1>. QED
  BY <1>1, <1>2, PTL

-----------------------------------------------------------------------------
(* The streams.                                                            *)

\* The stamps of the IMU increase, by no more than the gap.
SentInOrder ==
  /\ \A i, j \in 1..Len(sentImu) : i < j => sentImu[i] < sentImu[j]
  /\ \A i \in 1..(Len(sentImu) - 1) : sentImu[i + 1] <= sentImu[i] + MaxGap

\* A queue holds the last messages that were sent.
RestOf(q, sent) ==
  /\ Len(q) <= Len(sent)
  /\ \A i \in 1..Len(q) : q[i] = sent[Len(sent) - Len(q) + i]

\* How many messages the optimizer has taken out of its queue.
Taken == Len(sentImu) - Len(imuQ_)

\* The optimizer holds the message that it took last.
TakesInOrder ==
  /\ RestOf(imuQ_, sentImu)
  /\ IF pc \in {"first fix", "first imu"} THEN Taken = 0
     ELSE Taken > 0 /\ lastImu = sentImu[Taken]

\* The keys are counted from the first fix.
StartsAtFirstFix ==
  /\ pc = "first fix" => gpsQ_ = sentFix
  /\ pc # "first fix" => sentFix # << >> /\ startTime = sentFix[1]

StreamInv == SentInOrder /\ TakesInOrder /\ StartsAtFirstFix

-----------------------------------------------------------------------------
(* The keys.                                                               *)

\* Message n is the first that is not before time t.
IsFirstFrom(n, t) ==
  /\ n \in 1..Len(sentImu) /\ sentImu[n] >= t
  /\ \A i \in 1..(n - 1) : sentImu[i] < t

\* The message that the factor begins with.
Begun == Taken - Len(integrator)

\* The factor holds what was taken before the message that was taken last.
FactorHoldsTaken ==
  /\ Begun > 0
  /\ \A i \in 1..Len(integrator) : integrator[i] = sentImu[Begun - 1 + i]

\* Before the first key only messages before the start were passed over.
FirstKey ==
  /\ pc \in {"first fix", "first imu", "remove old"} => imuKey = 1
  /\ pc = "remove old" \/ (pc = "loop" /\ imuKey = 1) =>
       \A i \in 1..(Taken - 1) : sentImu[i] < startTime

\* Between two keys the last message taken is the first of the next factor;
\* while one is built, all that were taken before it are before the key.
EachFactor ==
  /\ pc = "loop" /\ imuKey > 1 => IsFirstFrom(Taken, KeyTime(imuKey - 1))
  /\ pc = "integrate" =>
       /\ FactorHoldsTaken
       /\ \A i \in 1..(Taken - 1) : sentImu[i] < KeyTime(imuKey)
       /\ imuKey > 1 => IsFirstFrom(Begun, KeyTime(imuKey - 1))
  /\ pc = "gps" =>
       /\ imuKey > 1
       /\ FactorHoldsTaken
       /\ IsFirstFrom(Taken, KeyTime(imuKey - 1))
       /\ imuKey > 2 => IsFirstFrom(Begun, KeyTime(imuKey - 2))

\* While a key is being built, the message that ends it is still to come out
\* of the queue or is the one that just did.
EndOfKeyKnown ==
  pc = "integrate" =>
    \/ lastImu >= KeyTime(imuKey)
    \/ imuQ_ # << >> /\ Back(imuQ_) > KeyTime(imuKey)

KeyInv == FirstKey /\ EachFactor /\ EndOfKeyKnown

\* With a steady IMU there is a message before each key.
SteadyInv ==
  SteadyImu =>
    /\ pc = "remove old" => lastImu <= startTime
    /\ pc = "loop" => lastImu < KeyTime(imuKey)
    /\ pc = "integrate" => integrator # << >> \/ lastImu < KeyTime(imuKey)
    /\ pc = "gps" => integrator # << >>

-----------------------------------------------------------------------------
(* The poses.                                                              *)

\* The state that is published is of a time that messages have passed.
StateInThePast ==
  /\ doneFirstOpt_ <=> currentTime_ > 0
  /\ poseTime <= currentTime_
  /\ currentTime_ > 0 =>
       /\ imuKey > 1 /\ startTime < currentTime_ /\ currentTime_ <= KeyTime(imuKey - 1)
       /\ sentImu # << >> /\ currentTime_ <= Back(sentImu)

\* The callback holds the messages from the last pose's state on.
MeasuredSincePose ==
  /\ RestOf(imuMeasurements_, sentImu)
  /\ poseTime = 0 => Len(imuMeasurements_) = Len(sentImu)
  /\ poseTime > 0 =>
       /\ \A i \in 1..(Len(sentImu) - Len(imuMeasurements_)) : sentImu[i] < poseTime
       /\ \A i \in 1..Len(imuMeasurements_) : imuMeasurements_[i] >= poseTime

\* They are integrated, but for the one that is being handled.
IntegratedSincePose ==
  SteadyImu /\ poseTime > 0 =>
    imuMeasurements_ = IF inCallback THEN Append(imuIntegrator_, Back(imuMeasurements_))
                       ELSE imuIntegrator_

PoseInv == StateInThePast /\ MeasuredSincePose /\ IntegratedSincePose

-----------------------------------------------------------------------------
(* The streams are as they should be.                                      *)

\* What a queue holds are numbers.
LEMMA StampAt ==
  ASSUME NEW q \in Seq(Stamps)
  PROVE  /\ Len(q) \in Nat /\ (q # << >> => Len(q) > 0)
         /\ \A i \in 1..Len(q) : q[i] \in Nat
<1>1. \A i \in 1..Len(q) : q[i] \in Stamps
  BY ElementOfSeq
<1>2. Len(q) \in Nat /\ (q # << >> => Len(q) > 0)
  BY LenProperties, EmptySeq
<1>. QED
  BY <1>1, <1>2, StampsAreNumbers

\* A message that is sent and queued leaves the queue the rest of the stream.
LEMMA RestOfAppend ==
  ASSUME NEW q \in Seq(Stamps), NEW sent \in Seq(Stamps), NEW stamp \in Stamps,
         RestOf(q, sent)
  PROVE  RestOf(Append(q, stamp), Append(sent, stamp))
<1>1. Len(q) \in Nat /\ Len(sent) \in Nat /\ Len(q) <= Len(sent)
  BY LenProperties DEF RestOf
<1>2. /\ Len(Append(q, stamp)) = Len(q) + 1
      /\ \A i \in 1..Len(q) : Append(q, stamp)[i] = q[i]
      /\ Append(q, stamp)[Len(q) + 1] = stamp
  BY BackOfAppend
<1>3. /\ Len(Append(sent, stamp)) = Len(sent) + 1
      /\ \A i \in 1..Len(sent) : Append(sent, stamp)[i] = sent[i]
      /\ Append(sent, stamp)[Len(sent) + 1] = stamp
  BY BackOfAppend
<1>4. ASSUME NEW i \in 1..Len(q)
      PROVE  Append(q, stamp)[i] = Append(sent, stamp)[Len(sent) - Len(q) + i]
  BY <1>1, <1>2, <1>3 DEF RestOf
<1>. QED
  BY <1>1, <1>2, <1>3, <1>4 DEF RestOf

\* So does one that is taken, which is the next of the stream.
LEMMA RestOfTail ==
  ASSUME NEW q \in Seq(Stamps), NEW sent \in Seq(Stamps), q # << >>,
         RestOf(q, sent)
  PROVE  /\ RestOf(Tail(q), sent)
         /\ Len(sent) - Len(Tail(q)) = Len(sent) - Len(q) + 1
         /\ Head(q) = sent[Len(sent) - Len(q) + 1]
<1>1. Len(q) \in Nat \ {0} /\ Len(sent) \in Nat
  BY LenProperties, EmptySeq
<1>. QED
  BY <1>1, BackOfTail DEF RestOf

\* The queues start empty, before any message.
LEMMA InitStreams == Init => StreamInv
<1>1. Init => SentInOrder
  <2>. SUFFICES ASSUME sentImu = << >> PROVE SentInOrder
    BY DEF Init
  <2>. QED
    BY DEF SentInOrder
<1>2. Init => RestOf(imuQ_, sentImu) /\ Taken = 0
  <2>. SUFFICES ASSUME sentImu = << >>, imuQ_ = << >>
                PROVE  RestOf(imuQ_, sentImu) /\ Taken = 0
    BY DEF Init
  <2>. QED
    BY DEF RestOf, Taken
<1>. QED
  BY <1>1, <1>2 DEF Init, StreamInv, TakesInOrder, StartsAtFirstFix

\* A message that is sent is newer than all before it.
LEMMA SentAppend ==
  ASSUME TypeOK, SentInOrder, NEW stamp \in Stamps, NextImu(stamp),
         sentImu' = Append(sentImu, stamp)
  PROVE  /\ SentInOrder'
         /\ \A i \in 1..Len(sentImu) : sentImu[i] < stamp /\ sentImu'[i] = sentImu[i]
<1>1. /\ Len(sentImu) \in Nat /\ Len(sentImu') = Len(sentImu) + 1
      /\ \A i \in 1..Len(sentImu) : sentImu'[i] = sentImu[i]
      /\ sentImu'[Len(sentImu) + 1] = stamp
  BY BackOfAppend, LenProperties DEF TypeOK
<1>2. stamp \in Nat /\ \A i \in 1..Len(sentImu) : sentImu[i] \in Nat
  BY StampsAreNumbers, StampAt DEF TypeOK
<1>3. Len(sentImu) > 0 => stamp > sentImu[Len(sentImu)] /\ stamp <= sentImu[Len(sentImu)] + MaxGap
  BY EmptySeq DEF NextImu, Back
<1>4. \A i \in 1..Len(sentImu) : sentImu[i] < stamp
  <2>. SUFFICES ASSUME NEW i \in 1..Len(sentImu) PROVE sentImu[i] < stamp
    OBVIOUS
  <2>1. i = Len(sentImu) \/ sentImu[i] < sentImu[Len(sentImu)]
    BY <1>1 DEF SentInOrder
  <2>. QED
    BY <1>1, <1>2, <1>3, <2>1
<1>5. ASSUME NEW i \in 1..Len(sentImu'), NEW j \in 1..Len(sentImu'), i < j
      PROVE  sentImu'[i] < sentImu'[j]
  <2>1. CASE j = Len(sentImu) + 1
    BY <1>1, <1>4, <1>5, <2>1
  <2>2. CASE j \in 1..Len(sentImu)
    <3>1. i \in 1..Len(sentImu)
      BY <1>1, <1>5, <2>2
    <3>. QED
      BY <1>1, <1>5, <2>2, <3>1 DEF SentInOrder
  <2>. QED
    BY <1>1, <2>1, <2>2
<1>6. ASSUME NEW i \in 1..(Len(sentImu') - 1)
      PROVE  sentImu'[i + 1] <= sentImu'[i] + MaxGap
  <2>1. CASE i = Len(sentImu)
    BY <1>1, <1>3, <2>1
  <2>2. CASE i \in 1..(Len(sentImu) - 1)
    <3>1. i \in 1..Len(sentImu) /\ i + 1 \in 1..Len(sentImu)
      BY <1>1, <2>2
    <3>. QED
      BY <1>1, <2>2, <3>1 DEF SentInOrder
  <2>. QED
    BY <1>1, <2>1, <2>2
<1>. QED
  BY <1>1, <1>4, <1>5, <1>6 DEF SentInOrder

\* Every step keeps each queue the rest of its stream.
LEMMA StepStreams == TypeOK /\ StreamInv /\ [Next]_vars => StreamInv'
<1>. SUFFICES ASSUME TypeOK, StreamInv, [Next]_vars PROVE StreamInv'
  OBVIOUS
<1>. USE DEF StreamInv, shared, published, rosVars, optVars, sensorVars
<1>0. /\ Len(imuQ_) \in Nat /\ Len(sentImu) \in Nat
      /\ Taken \in Nat /\ Taken <= Len(sentImu)
  <2>1. Len(imuQ_) \in Nat /\ Len(sentImu) \in Nat
    BY StampAt DEF TypeOK
  <2>2. Len(imuQ_) <= Len(sentImu)
    BY DEF TakesInOrder, RestOf
  <2>. QED
    BY <2>1, <2>2 DEF Taken
<1>1. ASSUME NEW stamp \in Stamps, ImuCallback(stamp) PROVE StreamInv'
  <2>1. /\ sentImu' = Append(sentImu, stamp) /\ imuQ_' = Append(imuQ_, stamp)
        /\ UNCHANGED <<gpsQ_, pc, startTime, lastImu, sentFix>>
        /\ NextImu(stamp)
    BY <1>1 DEF ImuCallback
  <2>2. SentInOrder' /\ \A i \in 1..Len(sentImu) : sentImu'[i] = sentImu[i]
    BY <2>1, SentAppend
  <2>3. RestOf(imuQ_', sentImu')
    BY <2>1, RestOfAppend DEF TypeOK, TakesInOrder
  <2>4. Len(imuQ_') = Len(imuQ_) + 1 /\ Len(sentImu') = Len(sentImu) + 1
    BY <2>1, BackOfAppend DEF TypeOK
  <2>5. Taken' = Taken
    BY <1>0, <2>4 DEF Taken
  <2>6. TakesInOrder'
    <3>1. Taken > 0 => Taken \in 1..Len(sentImu)
      BY <1>0
    <3>. QED
      BY <2>1, <2>2, <2>3, <2>5, <3>1 DEF TakesInOrder
  <2>. QED
    BY <2>1, <2>2, <2>6 DEF StartsAtFirstFix
<1>2. ASSUME NEW stamp \in Stamps, GpsCallback(stamp) PROVE StreamInv'
  <2>1. /\ gpsQ_' = Append(gpsQ_, stamp) /\ sentFix' = Append(sentFix, stamp)
        /\ UNCHANGED <<imuQ_, sentImu, pc, startTime, lastImu>>
    BY <1>2 DEF GpsCallback
  <2>2. /\ Append(sentFix, stamp) # << >>
        /\ \A i \in 1..Len(sentFix) : Append(sentFix, stamp)[i] = sentFix[i]
    BY BackOfAppend DEF TypeOK
  <2>3. sentFix # << >> => 1 \in 1..Len(sentFix)
    BY StampAt DEF TypeOK
  <2>. QED
    BY <2>1, <2>2, <2>3 DEF StartsAtFirstFix, TakesInOrder, SentInOrder, Taken
<1>3. CASE FirstFix
  <2>1. /\ pc = "first fix" /\ pc' = "first imu" /\ gpsQ_ # << >>
        /\ startTime' = Head(gpsQ_)
        /\ UNCHANGED <<imuQ_, sentImu, sentFix, lastImu>>
    BY <1>3 DEF FirstFix
  <2>2. Head(gpsQ_) = gpsQ_[1]
    BY <2>1, BackOfTail DEF TypeOK
  <2>. QED
    BY <2>1, <2>2 DEF StartsAtFirstFix, TakesInOrder, SentInOrder, Taken
<1>4. ASSUME imuQ_ # << >>, lastImu' = Head(imuQ_), imuQ_' = Tail(imuQ_),
             pc # "first fix", pc' \notin {"first fix", "first imu"},
             UNCHANGED <<sentImu, sentFix, startTime>>
      PROVE  StreamInv'
  <2>1. /\ RestOf(imuQ_', sentImu') /\ Taken' = Taken + 1
        /\ lastImu' = sentImu[Taken + 1]
    BY <1>4, RestOfTail DEF TypeOK, TakesInOrder, Taken
  <2>2. Taken' > 0
    BY <1>0, <2>1
  <2>3. TakesInOrder'
    BY <1>4, <2>1, <2>2 DEF TakesInOrder
  <2>. QED
    BY <1>4, <2>3 DEF StartsAtFirstFix, SentInOrder
<1>5. ASSUME pc \notin {"first fix", "first imu"}, pc' \notin {"first fix", "first imu"},
             UNCHANGED <<imuQ_, lastImu, sentImu, sentFix, startTime>>
      PROVE  StreamInv'
  BY <1>5 DEF StartsAtFirstFix, SentInOrder, TakesInOrder, Taken
<1>6. CASE FirstImu
  BY <1>4, <1>6 DEF FirstImu
<1>7. CASE RemoveOld
  BY <1>4, <1>5, <1>7 DEF RemoveOld, OldMessage
<1>8. CASE IntegrateMeasurement
  BY <1>4, <1>8 DEF IntegrateMeasurement
<1>9. CASE BeginKey \/ AddKey \/ TakeFix \/ Update
  BY <1>5, <1>9 DEF BeginKey, AddKey, TakeFix, Update
<1>10. CASE Pose \/ UNCHANGED vars
  BY <1>10 DEF Pose, vars, StartsAtFirstFix, SentInOrder, TakesInOrder, Taken
<1>. QED
  BY <1>1, <1>2, <1>3, <1>6, <1>7, <1>8, <1>9, <1>10 DEF Next, Optimizer

-----------------------------------------------------------------------------
(* The factors hold what they should.                                      *)

\* How much of the stream has been taken, as a number.
LEMMA TakenType ==
  ASSUME TypeOK, StreamInv
  PROVE  /\ Len(sentImu) \in Nat /\ Len(imuQ_) \in Nat /\ Len(integrator) \in Nat
         /\ Taken \in Nat /\ Taken <= Len(sentImu)
         /\ Begun \in Int /\ Begun <= Taken
         /\ \A i \in 1..Len(sentImu) : sentImu[i] \in Nat
         /\ lastImu \in Nat /\ startTime \in Nat
<1>1. /\ Len(sentImu) \in Nat /\ Len(imuQ_) \in Nat /\ Len(integrator) \in Nat
      /\ \A i \in 1..Len(sentImu) : sentImu[i] \in Nat
  BY StampAt DEF TypeOK
<1>2. Len(imuQ_) <= Len(sentImu)
  BY DEF StreamInv, TakesInOrder, RestOf
<1>3. lastImu \in Nat /\ startTime \in Nat
  BY StampsAreNumbers DEF TypeOK
<1>. QED
  BY <1>1, <1>2, <1>3 DEF Taken, Begun

\* No key is completed at first.
LEMMA InitKeys == Init => KeyInv
<1>. SUFFICES ASSUME Init PROVE KeyInv
  OBVIOUS
<1>1. pc = "first fix" /\ imuKey = 1
  BY DEF Init
<1>. QED
  BY <1>1 DEF KeyInv, FirstKey, EachFactor, EndOfKeyKnown

\* What the keys depend on.
keyVars == <<sentImu, imuQ_, pc, startTime, lastImu, imuKey, integrator>>

\* What touches no key keeps them.
LEMMA KeysUnchanged == KeyInv /\ UNCHANGED keyVars => KeyInv'
BY DEF keyVars, KeyInv, FirstKey, EachFactor, EndOfKeyKnown, IsFirstFrom,
       FactorHoldsTaken, Begun, Taken, KeyTime, Back

\* A message that arrives does not change what was the first from a time on.
LEMMA KeysWhenSent ==
  ASSUME TypeOK, StreamInv, KeyInv, NEW stamp \in Stamps, ImuCallback(stamp)
  PROVE  KeyInv'
<1>. USE DEF shared, published, rosVars, optVars, sensorVars
<1>1. /\ sentImu' = Append(sentImu, stamp) /\ imuQ_' = Append(imuQ_, stamp)
      /\ UNCHANGED <<pc, startTime, lastImu, imuKey, integrator>>
      /\ NextImu(stamp)
  BY DEF ImuCallback
<1>2. /\ Len(sentImu') = Len(sentImu) + 1 /\ Len(imuQ_') = Len(imuQ_) + 1
      /\ \A i \in 1..Len(sentImu) : sentImu'[i] = sentImu[i]
  BY <1>1, BackOfAppend DEF TypeOK
<1>3. Taken' = Taken /\ Begun' = Begun
  BY <1>1, <1>2, TakenType DEF Taken, Begun
<1>4. \A k : KeyTime(k)' = KeyTime(k)
  BY <1>1 DEF KeyTime
<1>5. ASSUME NEW n, NEW t, IsFirstFrom(n, t) PROVE IsFirstFrom(n, t)'
  <2>1. /\ n \in 1..Len(sentImu) /\ sentImu[n] >= t
        /\ \A i \in 1..(n - 1) : sentImu[i] < t
    BY <1>5 DEF IsFirstFrom
  <2>2. n \in 1..Len(sentImu') /\ \A i \in 1..(n - 1) : i \in 1..Len(sentImu)
    BY <1>2, <2>1, TakenType
  <2>. QED
    BY <1>2, <2>1, <2>2 DEF IsFirstFrom
<1>6. \A i \in 1..(Taken - 1) : sentImu'[i] = sentImu[i]
  <2>1. \A i \in 1..(Taken - 1) : i \in 1..Len(sentImu)
    BY TakenType
  <2>. QED
    BY <1>2, <2>1
<1>7. FactorHoldsTaken => FactorHoldsTaken'
  <2>. SUFFICES ASSUME FactorHoldsTaken PROVE FactorHoldsTaken'
    OBVIOUS
  <2>1. \A i \in 1..Len(integrator) : Begun - 1 + i \in 1..Len(sentImu)
    BY TakenType DEF FactorHoldsTaken, Begun
  <2>. QED
    BY <1>1, <1>2, <1>3, <2>1 DEF FactorHoldsTaken
<1>8. FirstKey' /\ EachFactor'
  BY <1>1, <1>3, <1>4, <1>5, <1>6, <1>7 DEF KeyInv, FirstKey, EachFactor
<1>9. EndOfKeyKnown'
  <2>1. imuQ_' # << >> /\ Back(imuQ_') = stamp /\ stamp \in Nat
    <3>1. Append(imuQ_, stamp) # << >> /\ Back(Append(imuQ_, stamp)) = stamp
      BY BackOfAppend DEF TypeOK
    <3>. QED
      BY <1>1, <3>1, StampsAreNumbers
  <2>2. ASSUME imuQ_ # << >> PROVE Back(imuQ_) \in Nat /\ stamp > Back(imuQ_)
    <3>1. Len(imuQ_) \in 1..Len(imuQ_) /\ sentImu # << >>
      BY <2>2, StampAt, TakenType, EmptySeq DEF TypeOK, Taken
    <3>2. Back(imuQ_) = Back(sentImu)
      <4>1. imuQ_[Len(imuQ_)] = sentImu[Len(sentImu) - Len(imuQ_) + Len(imuQ_)]
        BY <3>1 DEF StreamInv, TakesInOrder, RestOf
      <4>. QED
        BY <4>1, TakenType DEF Back
    <3>. QED
      BY <1>1, <2>2, <3>1, <3>2, BackType, StampsAreNumbers DEF NextImu, TypeOK
  <2>3. KeyTime(imuKey) \in Nat
    BY KeyTimeType DEF TypeOK
  <2>4. Back(imuQ_) > KeyTime(imuKey) /\ imuQ_ # << >> => Back(imuQ_') > KeyTime(imuKey)
    BY <2>1, <2>2, <2>3
  <2>5. Back(imuQ_)' = Back(imuQ_')
    BY DEF Back
  <2>. QED
    BY <1>1, <1>4, <2>1, <2>4, <2>5 DEF KeyInv, EndOfKeyKnown
<1>. QED
  BY <1>8, <1>9 DEF KeyInv

\* The optimizer takes a message: the others move on by one.
LEMMA TakeMessage ==
  ASSUME TypeOK, StreamInv, imuQ_ # << >>, imuQ_' = Tail(imuQ_), UNCHANGED sentImu
  PROVE  /\ Taken' = Taken + 1 /\ Taken + 1 \in 1..Len(sentImu)
         /\ Head(imuQ_) = sentImu[Taken + 1] /\ Head(imuQ_) \in Nat
<1>1. Taken' = Taken + 1 /\ Head(imuQ_) = sentImu[Taken + 1]
  BY RestOfTail DEF TypeOK, StreamInv, TakesInOrder, Taken
<1>2. Len(imuQ_) > 0
  BY StampAt DEF TypeOK
<1>3. Taken + 1 \in 1..Len(sentImu)
  BY <1>2, TakenType DEF Taken
<1>. QED
  BY <1>1, <1>3, TakenType

\* The optimizer's steps keep the factor in its key's period.
LEMMA KeysWhenOptimized ==
  ASSUME TypeOK, StreamInv, StreamInv', KeyInv, Optimizer
  PROVE  KeyInv'
<1>. USE DEF shared, published, rosVars, optVars, sensorVars
<1>0. /\ imuKey \in Nat /\ imuKey > 0
      /\ \A i \in 1..(Taken - 1) : i \in 1..Len(sentImu) /\ sentImu[i] \in Nat
  BY TakenType DEF TypeOK
<1>1. CASE FirstFix
  <2>1. /\ pc = "first fix" /\ pc' = "first imu" /\ imuKey' = imuKey
    BY <1>1 DEF FirstFix
  <2>. QED
    BY <2>1 DEF KeyInv, FirstKey, EachFactor, EndOfKeyKnown
<1>2. CASE FirstImu
  <2>1. /\ pc = "first imu" /\ pc' = "remove old" /\ imuKey' = imuKey
        /\ imuQ_ # << >> /\ imuQ_' = Tail(imuQ_) /\ UNCHANGED sentImu
    BY <1>2 DEF FirstImu
  <2>2. Taken' = Taken + 1
    BY <2>1, TakeMessage
  <2>3. Taken = 0
    BY <2>1 DEF StreamInv, TakesInOrder
  <2>4. Taken' - 1 = 0
    BY <2>2, <2>3
  <2>5. 1..(Taken' - 1) = {}
    BY <2>4
  <2>. QED
    BY <2>1, <2>5 DEF KeyInv, FirstKey, EachFactor, EndOfKeyKnown
<1>3. CASE RemoveOld
  <2>1. /\ pc = "remove old" /\ pc' # "integrate" /\ pc' # "gps"
        /\ pc' \in {"remove old", "loop"}
        /\ imuKey = 1 /\ imuKey' = 1 /\ UNCHANGED <<sentImu, startTime>>
        /\ \A i \in 1..(Taken - 1) : sentImu[i] < startTime
    BY <1>3 DEF RemoveOld, KeyInv, FirstKey
  <2>2. \A i \in 1..(Taken' - 1) : sentImu[i] < startTime
    <3>1. CASE OldMessage /\ imuQ_' = Tail(imuQ_)
      <4>1. /\ Taken' = Taken + 1 /\ Taken + 1 \in 1..Len(sentImu)
            /\ sentImu[Taken + 1] < startTime
        BY <2>1, <3>1, TakeMessage DEF OldMessage
      <4>2. Taken > 0 => sentImu[Taken] < sentImu[Taken + 1]
        BY <4>1, TakenType DEF StreamInv, SentInOrder
      <4>3. Taken > 0 => sentImu[Taken] < startTime
        BY <4>1, <4>2, TakenType
      <4>4. Taken' - 1 = Taken
        BY <4>1, TakenType
      <4>5. ASSUME NEW i \in 1..Taken PROVE sentImu[i] < startTime
        <5>1. (i = Taken /\ Taken > 0) \/ i \in 1..(Taken - 1)
          BY TakenType
        <5>2. \A j \in 1..(Taken - 1) : sentImu[j] < startTime
          BY <2>1
        <5>. QED
          BY <4>3, <5>1, <5>2
      <4>. QED
        BY <4>4, <4>5
    <3>2. CASE UNCHANGED imuQ_
      BY <2>1, <3>2 DEF Taken
    <3>. QED
      BY <1>3, <3>1, <3>2 DEF RemoveOld
  <2>3. ~(imuKey' > 1)
    <3>1. imuKey' = 1
      BY <2>1
    <3>. QED
      BY <3>1
  <2>4. FirstKey'
    BY <2>1, <2>2 DEF FirstKey
  <2>5. EachFactor'
    BY <2>1, <2>3 DEF EachFactor
  <2>. QED
    BY <2>1, <2>4, <2>5 DEF KeyInv, EndOfKeyKnown
<1>4. CASE BeginKey
  <2>1. /\ pc = "loop" /\ pc' = "integrate" /\ KeyDue /\ integrator' = << >>
        /\ UNCHANGED <<sentImu, imuQ_, startTime, lastImu, imuKey>>
    BY <1>4 DEF BeginKey
  <2>2. Taken' = Taken /\ Begun' = Taken /\ Len(integrator') = 0
    BY <2>1, TakenType, EmptySeq DEF Taken, Begun
  <2>3. Taken > 0
    BY <2>1 DEF StreamInv, TakesInOrder
  <2>4. FactorHoldsTaken'
    <3>1. 1..Len(integrator') = {}
      BY <2>2
    <3>. QED
      BY <2>2, <2>3, <3>1 DEF FactorHoldsTaken
  <2>5. /\ KeyTime(imuKey) \in Nat /\ startTime < KeyTime(imuKey)
        /\ imuKey > 1 => KeyTime(imuKey - 1) < KeyTime(imuKey) /\ KeyTime(imuKey - 1) \in Nat
    <3>1. imuKey > 1 => imuKey - 1 \in Nat /\ (imuKey - 1) + 1 = imuKey
      BY <1>0
    <3>. QED
      BY <1>0, <3>1, KeyTimeType, ConstantsAssumption
  <2>6. \A i \in 1..(Taken - 1) : sentImu[i] < KeyTime(imuKey)
    <3>1. CASE imuKey = 1
      BY <1>0, <2>1, <2>5, <3>1, TakenType DEF KeyInv, FirstKey
    <3>2. CASE imuKey > 1
      <4>1. \A i \in 1..(Taken - 1) : sentImu[i] < KeyTime(imuKey - 1)
        BY <2>1, <3>2 DEF KeyInv, EachFactor, IsFirstFrom
      <4>. QED
        BY <1>0, <2>5, <3>2, <4>1
    <3>. QED
      BY <1>0, <3>1, <3>2
  <2>7. imuKey > 1 => IsFirstFrom(Taken, KeyTime(imuKey - 1))
    BY <2>1 DEF KeyInv, EachFactor
  <2>8. EachFactor'
    BY <2>1, <2>2, <2>4, <2>6, <2>7 DEF EachFactor, IsFirstFrom, KeyTime
  <2>9. FirstKey' /\ EndOfKeyKnown'
    BY <2>1 DEF FirstKey, EndOfKeyKnown, KeyDue, KeyTime, Back
  <2>. QED
    BY <2>8, <2>9 DEF KeyInv
<1>5. CASE IntegrateMeasurement
  <2>1. /\ pc = "integrate" /\ pc' = "integrate" /\ BeforeKey
        /\ integrator' = Append(integrator, lastImu)
        /\ imuQ_ # << >> /\ lastImu' = Head(imuQ_) /\ imuQ_' = Tail(imuQ_)
        /\ UNCHANGED <<sentImu, startTime, imuKey>>
    BY <1>5 DEF IntegrateMeasurement
  <2>2. /\ Taken' = Taken + 1 /\ Taken + 1 \in 1..Len(sentImu)
        /\ lastImu' \in Nat
    BY <2>1, TakeMessage
  <2>3. /\ Len(integrator') = Len(integrator) + 1
        /\ \A i \in 1..Len(integrator) : integrator'[i] = integrator[i]
        /\ integrator'[Len(integrator) + 1] = lastImu
    BY <2>1, BackOfAppend DEF TypeOK
  <2>4. Begun' = Begun
    BY <2>2, <2>3, TakenType DEF Begun
  <2>5. /\ FactorHoldsTaken
        /\ \A i \in 1..(Taken - 1) : sentImu[i] < KeyTime(imuKey)
        /\ imuKey > 1 => IsFirstFrom(Begun, KeyTime(imuKey - 1))
    BY <2>1 DEF KeyInv, EachFactor
  <2>6. Taken > 0 /\ lastImu = sentImu[Taken]
    BY <2>1 DEF StreamInv, TakesInOrder
  <2>7. FactorHoldsTaken'
    <3>1. ASSUME NEW i \in 1..Len(integrator') PROVE integrator'[i] = sentImu[Begun - 1 + i]
      <4>1. CASE i \in 1..Len(integrator)
        BY <2>3, <2>5, <4>1 DEF FactorHoldsTaken
      <4>2. CASE i = Len(integrator) + 1
        <5>1. Begun - 1 + i = Taken
          BY <4>2, TakenType DEF Begun
        <5>. QED
          BY <2>3, <2>6, <4>2, <5>1
      <4>. QED
        BY <2>3, <4>1, <4>2, TakenType
    <3>. QED
      BY <2>1, <2>4, <2>5, <3>1 DEF FactorHoldsTaken
  <2>8. lastImu < KeyTime(imuKey) /\ KeyTime(imuKey) \in Nat
    BY <1>0, <2>1, KeyTimeType DEF BeforeKey
  <2>9. \A i \in 1..(Taken' - 1) : sentImu[i] < KeyTime(imuKey)
    BY <2>2, <2>5, <2>6, <2>8, TakenType
  <2>10. EachFactor'
    BY <2>1, <2>4, <2>5, <2>7, <2>9 DEF EachFactor, IsFirstFrom, KeyTime
  <2>11. EndOfKeyKnown'
    <3>1. Back(imuQ_) > KeyTime(imuKey)
      BY <2>1, <2>8, TakenType DEF KeyInv, EndOfKeyKnown
    <3>2. CASE Tail(imuQ_) = << >>
      <4>1. lastImu' > KeyTime(imuKey)
        BY <2>1, <3>1, <3>2, BackOfTail DEF TypeOK
      <4>2. lastImu' >= KeyTime(imuKey)
        BY <2>2, <2>8, <4>1
      <4>. QED
        BY <2>1, <4>2 DEF EndOfKeyKnown, KeyTime
    <3>3. CASE Tail(imuQ_) # << >>
      <4>1. Back(Tail(imuQ_)) = Back(imuQ_)
        BY <2>1, <3>3, BackOfTail DEF TypeOK
      <4>. QED
        BY <2>1, <3>1, <3>3, <4>1 DEF EndOfKeyKnown, KeyTime, Back
    <3>. QED
      BY <3>2, <3>3
  <2>. QED
    BY <2>1, <2>10, <2>11 DEF KeyInv, FirstKey
<1>6. CASE AddKey
  <2>1. /\ pc = "integrate" /\ pc' = "gps" /\ ~BeforeKey /\ imuKey' = imuKey + 1
        /\ UNCHANGED <<sentImu, imuQ_, startTime, lastImu, integrator>>
    BY <1>6 DEF AddKey
  <2>2. Taken' = Taken /\ Begun' = Begun
    BY <2>1 DEF Taken, Begun
  <2>3. imuKey' > 1 /\ imuKey' - 1 = imuKey /\ imuKey' - 2 = imuKey - 1 /\ (imuKey' > 2 => imuKey > 1)
    BY <1>0, <2>1
  <2>4. /\ FactorHoldsTaken
        /\ \A i \in 1..(Taken - 1) : sentImu[i] < KeyTime(imuKey)
        /\ imuKey > 1 => IsFirstFrom(Begun, KeyTime(imuKey - 1))
    BY <2>1 DEF KeyInv, EachFactor
  <2>5. Taken \in 1..Len(sentImu) /\ sentImu[Taken] >= KeyTime(imuKey)
    <3>1. Taken > 0 /\ lastImu = sentImu[Taken]
      BY <2>1 DEF StreamInv, TakesInOrder
    <3>2. KeyTime(imuKey) \in Nat /\ lastImu >= KeyTime(imuKey)
      BY <1>0, <2>1, KeyTimeType, TakenType DEF BeforeKey
    <3>. QED
      BY <3>1, <3>2, TakenType
  <2>6. IsFirstFrom(Taken, KeyTime(imuKey))
    BY <2>4, <2>5 DEF IsFirstFrom
  <2>7. \A k : KeyTime(k)' = KeyTime(k)
    BY <2>1 DEF KeyTime
  <2>8. EachFactor'
    BY <2>1, <2>2, <2>3, <2>4, <2>6, <2>7 DEF EachFactor, IsFirstFrom, FactorHoldsTaken
  <2>. QED
    BY <2>1, <2>8 DEF KeyInv, FirstKey, EndOfKeyKnown
<1>7. CASE TakeFix
  BY <1>7, KeysUnchanged DEF TakeFix, keyVars
<1>8. CASE Update
  <2>1. /\ pc = "gps" /\ pc' = "loop"
        /\ UNCHANGED <<sentImu, imuQ_, startTime, lastImu, imuKey, integrator>>
    BY <1>8 DEF Update
  <2>2. imuKey > 1 /\ imuKey # 1
    BY <1>0, <2>1 DEF KeyInv, EachFactor
  <2>. QED
    BY <2>1, <2>2 DEF KeyInv, FirstKey, EachFactor, EndOfKeyKnown, IsFirstFrom, Taken, KeyTime
<1>. QED
  BY <1>1, <1>2, <1>3, <1>4, <1>5, <1>6, <1>7, <1>8 DEF Optimizer

\* Every step does.
LEMMA StepKeys == TypeOK /\ StreamInv /\ StreamInv' /\ KeyInv /\ [Next]_vars => KeyInv'
<1>. SUFFICES ASSUME TypeOK, StreamInv, StreamInv', KeyInv, [Next]_vars PROVE KeyInv'
  OBVIOUS
<1>1. CASE Pose \/ UNCHANGED vars
  BY <1>1, KeysUnchanged DEF Pose, vars, keyVars, shared, optVars, sensorVars
<1>2. ASSUME NEW stamp \in Stamps, GpsCallback(stamp) PROVE KeyInv'
  BY <1>2, KeysUnchanged DEF GpsCallback, keyVars, optVars
<1>. QED
  BY <1>1, <1>2, KeysWhenSent, KeysWhenOptimized DEF Next

-----------------------------------------------------------------------------
(* No factor is empty.                                                     *)

\* A steady IMU owes no message at first.
LEMMA InitSteady == Init => SteadyInv
BY DEF Init, SteadyInv

\* What the first messages were stays so.
LEMMA SteadyWhenSent ==
  ASSUME TypeOK, StreamInv, SteadyInv,
         \E stamp \in Stamps : ImuCallback(stamp) \/ GpsCallback(stamp)
  PROVE  SteadyInv'
<1>. USE DEF shared, published, rosVars, optVars, sensorVars
<1>1. UNCHANGED <<pc, startTime, lastImu, imuKey, integrator>>
  BY DEF ImuCallback, GpsCallback
<1>2. CASE sentImu = << >> \/ sentFix = << >>
  <2>1. sentImu = << >> => ~(Taken > 0)
    <3>1. sentImu = << >> => Len(sentImu) = 0
      BY EmptySeq
    <3>. QED
      BY <3>1, TakenType
  <2>2. pc \in {"first fix", "first imu"} \/ Taken > 0
    BY DEF StreamInv, TakesInOrder
  <2>3. pc = "first fix" \/ sentFix # << >>
    BY DEF StreamInv, StartsAtFirstFix
  <2>4. pc \in {"first fix", "first imu"}
    BY <1>2, <2>1, <2>2, <2>3
  <2>. QED
    BY <1>1, <2>4 DEF SteadyInv
<1>3. CASE sentImu # << >> /\ sentFix # << >>
  <2>1. /\ UNCHANGED sentImu \/ \E stamp \in Stamps : sentImu' = Append(sentImu, stamp)
        /\ UNCHANGED sentFix \/ \E stamp \in Stamps : sentFix' = Append(sentFix, stamp)
    BY DEF ImuCallback, GpsCallback
  <2>2. ASSUME NEW q \in Seq(Stamps), q # << >>, NEW stamp \in Stamps
        PROVE  Append(q, stamp)[1] = q[1]
    <3>1. 1 \in 1..Len(q)
      BY <2>2, EmptySeq, LenProperties
    <3>. QED
      BY <3>1, BackOfAppend
  <2>3. sentImu'[1] = sentImu[1] /\ sentFix'[1] = sentFix[1]
    BY <1>3, <2>1, <2>2 DEF TypeOK
  <2>4. SteadyImu' => SteadyImu
    BY <1>3, <2>3 DEF SteadyImu
  <2>5. \A k : KeyTime(k)' = KeyTime(k)
    BY <1>1 DEF KeyTime
  <2>. QED
    BY <1>1, <2>4, <2>5 DEF SteadyInv
<1>. QED
  BY <1>2, <1>3

\* With a steady IMU the optimizer's steps find a message before each key.
LEMMA SteadyWhenOptimized ==
  ASSUME TypeOK, StreamInv, KeyInv, SteadyInv, Optimizer
  PROVE  SteadyInv'
<1>. USE DEF shared, published, rosVars, optVars, sensorVars
<1>1. UNCHANGED sensorVars
  BY DEF Optimizer, FirstFix, FirstImu, RemoveOld, BeginKey, IntegrateMeasurement,
         AddKey, TakeFix, Update
<1>. SUFFICES ASSUME SteadyImu' PROVE SteadyInv'
  BY DEF SteadyInv
<1>2. SteadyImu
  BY <1>1 DEF SteadyImu
<1>3. imuKey \in Nat /\ imuKey > 0 /\ KeyTime(imuKey) \in Nat /\ startTime < KeyTime(imuKey)
  <2>1. imuKey \in Nat /\ imuKey > 0
    BY DEF TypeOK
  <2>. QED
    BY <2>1, KeyTimeType
<1>4. CASE FirstFix
  BY <1>4 DEF FirstFix, SteadyInv
<1>5. CASE FirstImu
  <2>1. /\ pc = "first imu" /\ pc' = "remove old" /\ UNCHANGED <<startTime, sentImu>>
        /\ imuQ_ # << >> /\ lastImu' = Head(imuQ_) /\ imuQ_' = Tail(imuQ_)
    BY <1>5 DEF FirstImu
  <2>2. Taken = 0 /\ startTime = sentFix[1]
    BY <2>1 DEF StreamInv, TakesInOrder, StartsAtFirstFix
  <2>3. lastImu' = sentImu[1]
    <3>1. lastImu' = sentImu[Taken + 1]
      BY <2>1, TakeMessage
    <3>2. Taken + 1 = 1
      BY <2>2
    <3>. QED
      BY <3>1, <3>2
  <2>4. lastImu' <= startTime
    BY <1>2, <2>2, <2>3 DEF SteadyImu
  <2>. QED
    BY <2>1, <2>4 DEF SteadyInv
<1>6. CASE RemoveOld
  <2>1. /\ pc = "remove old" /\ UNCHANGED <<startTime, imuKey>> /\ lastImu <= startTime
    BY <1>2, <1>6 DEF RemoveOld, SteadyInv
  <2>2. CASE pc' = pc /\ OldMessage /\ lastImu' = Head(imuQ_)
    <3>1. Head(imuQ_) \in Nat /\ Head(imuQ_) < startTime
      BY <2>2, BackOfTail, StampsAreNumbers DEF OldMessage, TypeOK
    <3>2. lastImu' <= startTime
      BY <2>2, <3>1, TakenType
    <3>. QED
      BY <2>1, <2>2, <3>2 DEF SteadyInv
  <2>3. CASE pc' = "loop" /\ UNCHANGED lastImu
    <3>1. lastImu < KeyTime(imuKey)
      <4>1. lastImu <= startTime
        BY <2>1
      <4>. QED
        BY <1>3, <4>1, TakenType
    <3>2. KeyTime(imuKey)' = KeyTime(imuKey)
      BY <2>1 DEF KeyTime
    <3>. QED
      BY <2>3, <3>1, <3>2 DEF SteadyInv
  <2>. QED
    BY <1>6, <2>2, <2>3 DEF RemoveOld
<1>7. CASE BeginKey
  <2>1. /\ pc = "loop" /\ pc' = "integrate"
        /\ UNCHANGED <<startTime, lastImu, imuKey>>
    BY <1>7 DEF BeginKey
  <2>2. lastImu < KeyTime(imuKey) /\ KeyTime(imuKey)' = KeyTime(imuKey)
    BY <1>2, <2>1 DEF SteadyInv, KeyTime
  <2>. QED
    BY <2>1, <2>2 DEF SteadyInv
<1>8. CASE IntegrateMeasurement
  <2>1. Append(integrator, lastImu) # << >>
    <3>1. integrator \in Seq(Stamps) /\ lastImu \in Stamps
      BY DEF TypeOK
    <3>. QED
      BY <3>1, BackOfAppend
  <2>2. pc' = "integrate" /\ integrator' # << >>
    BY <1>8, <2>1 DEF IntegrateMeasurement
  <2>. QED
    BY <2>2 DEF SteadyInv
<1>9. CASE AddKey
  <2>1. integrator # << >>
    BY <1>2, <1>9 DEF AddKey, BeforeKey, SteadyInv
  <2>. QED
    BY <1>9, <2>1 DEF AddKey, SteadyInv
<1>10. CASE TakeFix
  BY <1>2, <1>10 DEF TakeFix, SteadyInv
<1>11. CASE Update
  <2>1. /\ pc = "gps" /\ pc' = "loop" /\ integrator # << >>
        /\ UNCHANGED <<startTime, lastImu, imuKey>>
    BY <1>2, <1>11 DEF Update, SteadyInv
  <2>2. /\ imuKey > 1 /\ Begun > 0 /\ IsFirstFrom(Taken, KeyTime(imuKey - 1))
        /\ lastImu = sentImu[Taken]
    BY <2>1 DEF KeyInv, EachFactor, FactorHoldsTaken, StreamInv, TakesInOrder
  <2>3. Len(integrator) > 0
    BY <2>1, EmptySeq, TakenType DEF TypeOK
  <2>4. Taken - 1 \in 1..(Taken - 1) /\ Taken \in 1..Len(sentImu)
    BY <2>2, <2>3, TakenType DEF Begun, IsFirstFrom
  <2>5. sentImu[Taken - 1] < KeyTime(imuKey - 1)
    BY <2>2, <2>4 DEF IsFirstFrom
  <2>6. sentImu[Taken] <= sentImu[Taken - 1] + MaxGap
    <3>1. Taken - 1 \in 1..(Len(sentImu) - 1) /\ (Taken - 1) + 1 = Taken
      BY <2>4, TakenType
    <3>2. sentImu[(Taken - 1) + 1] <= sentImu[Taken - 1] + MaxGap
      BY <3>1 DEF StreamInv, SentInOrder
    <3>. QED
      BY <3>1, <3>2
  <2>7. KeyTime(imuKey - 1) \in Nat /\ KeyTime(imuKey) = KeyTime(imuKey - 1) + Period
    <3>1. imuKey - 1 \in Nat /\ (imuKey - 1) + 1 = imuKey
      BY <1>3, <2>2
    <3>2. KeyTime((imuKey - 1) + 1) = KeyTime(imuKey - 1) + Period /\ KeyTime(imuKey - 1) \in Nat
      BY <3>1, KeyTimeType
    <3>. QED
      BY <3>1, <3>2
  <2>8. MaxGap <= Period /\ MaxGap \in Nat /\ Period \in Nat
    BY <1>2, ConstantsAssumption DEF SteadyImu
  <2>9. sentImu[Taken - 1] \in Nat /\ sentImu[Taken] \in Nat
    BY <2>4, TakenType
  <2>10. lastImu < KeyTime(imuKey)
    <3>1. sentImu[Taken] < KeyTime(imuKey)
      BY <1>3, <2>5, <2>6, <2>7, <2>8, <2>9
    <3>. QED
      BY <2>2, <3>1
  <2>11. KeyTime(imuKey)' = KeyTime(imuKey)
    BY <2>1 DEF KeyTime
  <2>. QED
    BY <2>1, <2>10, <2>11 DEF SteadyInv
<1>. QED
  BY <1>4, <1>5, <1>6, <1>7, <1>8, <1>9, <1>10, <1>11 DEF Optimizer

\* Every step does.
LEMMA StepSteady == TypeOK /\ StreamInv /\ KeyInv /\ SteadyInv /\ [Next]_vars => SteadyInv'
<1>. SUFFICES ASSUME TypeOK, StreamInv, KeyInv, SteadyInv, [Next]_vars PROVE SteadyInv'
  OBVIOUS
<1>1. CASE Pose \/ UNCHANGED vars
  BY <1>1 DEF Pose, vars, shared, optVars, sensorVars, SteadyInv, SteadyImu, KeyTime
<1>. QED
  BY <1>1, SteadyWhenSent, SteadyWhenOptimized DEF Next

-----------------------------------------------------------------------------
(* The pose is predicted from its state.                                   *)

\* Times are numbers.
LEMMA TimesType ==
  ASSUME TypeOK
  PROVE  /\ currentTime_ \in Nat /\ poseTime \in Nat /\ startTime \in Nat
         /\ imuKey \in Nat /\ imuKey > 0
         /\ Len(sentImu) \in Nat /\ Len(imuMeasurements_) \in Nat
         /\ \A i \in 1..Len(sentImu) : sentImu[i] \in Nat
         /\ sentImu # << >> => Len(sentImu) \in 1..Len(sentImu) /\ Back(sentImu) \in Nat
<1>1. /\ currentTime_ \in Nat /\ poseTime \in Nat /\ imuKey \in Nat /\ imuKey > 0
      /\ startTime \in Stamps /\ sentImu \in Seq(Stamps) /\ imuMeasurements_ \in Seq(Stamps)
  BY DEF TypeOK
<1>2. /\ Len(sentImu) \in Nat /\ Len(imuMeasurements_) \in Nat
      /\ \A i \in 1..Len(sentImu) : sentImu[i] \in Nat
      /\ sentImu # << >> => Len(sentImu) > 0
  BY <1>1, StampAt
<1>3. sentImu # << >> => Len(sentImu) \in 1..Len(sentImu)
  BY <1>2
<1>. QED
  BY <1>1, <1>2, <1>3, StampsAreNumbers DEF Back

\* No pose is published at first.
LEMMA InitPoses == Init => PoseInv
<1>. SUFFICES ASSUME Init PROVE PoseInv
  OBVIOUS
<1>1. /\ doneFirstOpt_ = FALSE /\ currentTime_ = 0 /\ poseTime = 0
      /\ sentImu = << >> /\ imuMeasurements_ = << >>
  BY DEF Init
<1>2. StateInThePast
  BY <1>1 DEF StateInThePast
<1>3. RestOf(imuMeasurements_, sentImu)
  BY <1>1 DEF RestOf
<1>. QED
  BY <1>1, <1>2, <1>3 DEF PoseInv, MeasuredSincePose, IntegratedSincePose

\* The last message sent is not before any other.
LEMMA BackIsLast ==
  ASSUME TypeOK, StreamInv, NEW i \in 1..Len(sentImu)
  PROVE  sentImu[i] <= Back(sentImu)
<1>1. Len(sentImu) \in 1..Len(sentImu)
  BY TimesType
<1>2. i = Len(sentImu) \/ i < Len(sentImu)
  BY TimesType
<1>3. CASE i = Len(sentImu)
  BY <1>1, <1>3, TimesType DEF Back
<1>4. CASE i < Len(sentImu)
  <2>1. sentImu[i] < sentImu[Len(sentImu)]
    BY <1>1, <1>4 DEF StreamInv, SentInOrder
  <2>. QED
    BY <1>1, <2>1, TimesType DEF Back
<1>. QED
  BY <1>2, <1>3, <1>4

\* A new state is of the key before the last message that was taken.
LEMMA PastWhenUpdated ==
  ASSUME TypeOK, StreamInv, KeyInv, StateInThePast, Update
  PROVE  StateInThePast'
<1>. USE DEF shared, published, rosVars, optVars, sensorVars
<1>1. pc = "gps" /\ UNCHANGED <<sentImu, startTime, imuKey, poseTime>>
  BY DEF Update
<1>2. KeyTime(imuKey - 1)' = KeyTime(imuKey - 1) /\ Back(sentImu)' = Back(sentImu)
  BY <1>1 DEF KeyTime, Back
<1>3. CASE UNCHANGED <<doneFirstOpt_, currentTime_>>
  BY <1>1, <1>2, <1>3 DEF StateInThePast
<1>4. CASE currentTime_' = KeyTime(imuKey - 1) /\ doneFirstOpt_' = TRUE
  <2>1. imuKey > 1 /\ IsFirstFrom(Taken, KeyTime(imuKey - 1))
    BY <1>1 DEF KeyInv, EachFactor
  <2>2. imuKey - 1 \in Nat /\ imuKey - 1 > 0
    BY <2>1, TimesType
  <2>3. KeyTime(imuKey - 1) \in Nat /\ startTime < KeyTime(imuKey - 1)
    BY <2>2, KeyTimeType
  <2>4. KeyTime(imuKey - 1) > 0
    BY <2>3, TimesType
  <2>5. /\ Taken \in 1..Len(sentImu) /\ sentImu[Taken] >= KeyTime(imuKey - 1)
    BY <2>1 DEF IsFirstFrom
  <2>6. sentImu # << >>
    BY <2>5, TimesType, EmptySeq
  <2>7. KeyTime(imuKey - 1) <= Back(sentImu)
    <3>1. sentImu[Taken] <= Back(sentImu)
      BY <2>5, BackIsLast
    <3>. QED
      BY <2>3, <2>5, <2>6, <3>1, TimesType
  <2>8. poseTime <= KeyTime(imuKey - 1)
    <3>1. /\ poseTime <= currentTime_
          /\ currentTime_ > 0 => currentTime_ <= KeyTime(imuKey - 1)
      BY DEF StateInThePast
    <3>. QED
      BY <2>3, <3>1, TimesType
  <2>9. KeyTime(imuKey - 1) <= KeyTime(imuKey - 1)
    BY <2>3
  <2>. QED
    BY <1>1, <1>2, <1>4, <2>1, <2>3, <2>4, <2>6, <2>7, <2>8, <2>9 DEF StateInThePast
<1>. QED
  BY <1>3, <1>4 DEF Update

\* The other steps of the optimizer leave the state where it is.
LEMMA PastWhenOptimized ==
  ASSUME TypeOK, StreamInv, KeyInv, StateInThePast, Optimizer
  PROVE  StateInThePast'
<1>. USE DEF shared, published, rosVars, optVars, sensorVars
<1>1. CASE FirstFix
  <2>1. pc = "first fix" /\ UNCHANGED <<doneFirstOpt_, currentTime_, poseTime>>
    BY <1>1 DEF FirstFix
  <2>2. ~(imuKey > 1)
    <3>1. imuKey = 1
      BY <2>1 DEF KeyInv, FirstKey
    <3>. QED
      BY <3>1
  <2>. QED
    BY <2>1, <2>2 DEF StateInThePast
<1>2. CASE AddKey
  <2>1. /\ imuKey' = imuKey + 1
        /\ UNCHANGED <<doneFirstOpt_, currentTime_, poseTime, sentImu, startTime>>
    BY <1>2 DEF AddKey
  <2>2. /\ imuKey - 1 \in Nat /\ imuKey' - 1 = (imuKey - 1) + 1
        /\ imuKey > 1 => imuKey' > 1
    BY <2>1, TimesType
  <2>3. /\ Back(sentImu)' = Back(sentImu)
        /\ KeyTime(imuKey - 1)' = KeyTime((imuKey - 1) + 1)
    BY <2>1, <2>2 DEF KeyTime, Back
  <2>4. KeyTime((imuKey - 1) + 1) >= KeyTime(imuKey - 1) /\ KeyTime(imuKey - 1) \in Nat
    BY <2>2, KeyTimeType, ConstantsAssumption
  <2>5. currentTime_ <= KeyTime(imuKey - 1) => currentTime_ <= KeyTime(imuKey - 1)'
    <3>1. KeyTime((imuKey - 1) + 1) \in Nat
      BY <2>2, KeyTimeType
    <3>. QED
      BY <2>3, <2>4, <3>1, TimesType
  <2>. QED
    BY <2>1, <2>2, <2>3, <2>5 DEF StateInThePast
<1>3. CASE FirstImu \/ RemoveOld \/ BeginKey \/ IntegrateMeasurement \/ TakeFix
  <2>1. UNCHANGED <<doneFirstOpt_, currentTime_, poseTime, sentImu, startTime, imuKey>>
    BY <1>3 DEF FirstImu, RemoveOld, BeginKey, IntegrateMeasurement, TakeFix
  <2>. QED
    BY <2>1 DEF StateInThePast, KeyTime, Back
<1>. QED
  BY <1>1, <1>2, <1>3, PastWhenUpdated DEF Optimizer

\* A message that arrives is after the state, and is integrated only by the
\* rest of the callback.
LEMMA PosesWhenMeasured ==
  ASSUME TypeOK, StreamInv, KeyInv, PoseInv, NEW stamp \in Stamps, ImuCallback(stamp)
  PROVE  PoseInv'
<1>. USE DEF shared, published, rosVars, optVars, sensorVars
<1>1. /\ sentImu' = Append(sentImu, stamp)
      /\ imuMeasurements_' = Append(imuMeasurements_, stamp)
      /\ ~inCallback /\ inCallback' /\ NextImu(stamp)
      /\ UNCHANGED <<doneFirstOpt_, currentTime_, poseTime, imuIntegrator_,
                     imuKey, startTime, sentFix>>
  BY DEF ImuCallback
<1>2. /\ sentImu \in Seq(Stamps) /\ imuMeasurements_ \in Seq(Stamps) /\ stamp \in Nat
  BY StampsAreNumbers DEF TypeOK
<1>3. /\ Append(sentImu, stamp) # << >> /\ Back(Append(sentImu, stamp)) = stamp
      /\ Len(Append(sentImu, stamp)) = Len(sentImu) + 1
      /\ \A i \in 1..Len(sentImu) : Append(sentImu, stamp)[i] = sentImu[i]
  BY <1>2, BackOfAppend
<1>4. /\ Back(Append(imuMeasurements_, stamp)) = stamp
      /\ Len(Append(imuMeasurements_, stamp)) = Len(imuMeasurements_) + 1
      /\ \A i \in 1..Len(imuMeasurements_) :
           Append(imuMeasurements_, stamp)[i] = imuMeasurements_[i]
      /\ Append(imuMeasurements_, stamp)[Len(imuMeasurements_) + 1] = stamp
  BY <1>2, BackOfAppend
<1>5. /\ Back(sentImu)' = stamp /\ Back(imuMeasurements_)' = stamp /\ sentImu' # << >>
      /\ Len(sentImu') = Len(sentImu) + 1
      /\ Len(imuMeasurements_') = Len(imuMeasurements_) + 1
  BY <1>1, <1>3, <1>4 DEF Back
<1>6. sentImu # << >> => Back(sentImu) < stamp /\ Back(sentImu) \in Nat
  BY <1>1, <1>2, TimesType DEF NextImu
<1>7. currentTime_ > 0 => sentImu # << >> /\ currentTime_ <= Back(sentImu)
  BY DEF PoseInv, StateInThePast
<1>8. /\ currentTime_ > 0 => currentTime_ <= stamp
      /\ poseTime > 0 => poseTime <= stamp /\ currentTime_ > 0
  <2>1. poseTime <= currentTime_
    BY DEF PoseInv, StateInThePast
  <2>. QED
    BY <1>2, <1>6, <1>7, <2>1, TimesType
<1>9. StateInThePast'
  <2>1. KeyTime(imuKey - 1)' = KeyTime(imuKey - 1)
    BY <1>1 DEF KeyTime
  <2>. QED
    BY <1>1, <1>5, <1>8, <2>1 DEF PoseInv, StateInThePast
<1>10. MeasuredSincePose'
  <2>1. RestOf(imuMeasurements_', sentImu')
    BY <1>1, <1>2, RestOfAppend DEF PoseInv, MeasuredSincePose
  <2>2. Len(sentImu') - Len(imuMeasurements_') = Len(sentImu) - Len(imuMeasurements_)
    BY <1>5, TimesType
  <2>3. poseTime = 0 => Len(imuMeasurements_') = Len(sentImu')
    BY <1>5 DEF PoseInv, MeasuredSincePose
  <2>4. ASSUME poseTime > 0, NEW i \in 1..(Len(sentImu) - Len(imuMeasurements_))
        PROVE  sentImu'[i] < poseTime
    <3>1. i \in 1..Len(sentImu)
      BY <2>4, TimesType
    <3>2. sentImu[i] < poseTime
      BY <2>4 DEF PoseInv, MeasuredSincePose
    <3>. QED
      BY <1>1, <1>3, <3>1, <3>2
  <2>5. ASSUME poseTime > 0, NEW i \in 1..Len(imuMeasurements_')
        PROVE  imuMeasurements_'[i] >= poseTime
    <3>1. i \in 1..Len(imuMeasurements_) \/ i = Len(imuMeasurements_) + 1
      BY <1>5, TimesType
    <3>2. CASE i \in 1..Len(imuMeasurements_)
      BY <1>1, <1>4, <2>5, <3>2 DEF PoseInv, MeasuredSincePose
    <3>3. CASE i = Len(imuMeasurements_) + 1
      <4>1. imuMeasurements_'[i] = stamp
        BY <1>1, <1>4, <3>3
      <4>. QED
        BY <1>2, <1>8, <2>5, <4>1, TimesType
    <3>. QED
      BY <3>1, <3>2, <3>3
  <2>. QED
    BY <1>1, <2>1, <2>2, <2>3, <2>4, <2>5 DEF MeasuredSincePose
<1>11. ASSUME SteadyImu', poseTime > 0 PROVE SteadyImu
  <2>1. sentImu # << >>
    BY <1>7, <1>8, <1>11
  <2>2. sentImu'[1] = sentImu[1]
    <3>1. 1 \in 1..Len(sentImu)
      BY <2>1, TimesType
    <3>. QED
      BY <1>1, <1>3, <3>1
  <2>. QED
    BY <1>1, <1>11, <2>1, <2>2 DEF SteadyImu
<1>12. IntegratedSincePose'
  <2>. SUFFICES ASSUME SteadyImu', poseTime > 0
                PROVE  imuMeasurements_' = Append(imuIntegrator_', Back(imuMeasurements_)')
    BY <1>1 DEF IntegratedSincePose
  <2>1. imuMeasurements_ = imuIntegrator_
    BY <1>1, <1>11 DEF PoseInv, IntegratedSincePose
  <2>. QED
    BY <1>1, <1>5, <2>1
<1>. QED
  BY <1>9, <1>10, <1>12 DEF PoseInv

\* Messages that come after one that is not before the state are not either.
LEMMA KeptSince ==
  ASSUME TypeOK, StreamInv, RestOf(imuMeasurements_, sentImu),
         NEW n \in 1..Len(imuMeasurements_), imuMeasurements_[n] >= currentTime_,
         NEW m \in 1..Len(imuMeasurements_), n <= m
  PROVE  imuMeasurements_[m] >= currentTime_
<1>. DEFINE before == Len(sentImu) - Len(imuMeasurements_)
<1>1. Len(imuMeasurements_) <= Len(sentImu)
  BY DEF RestOf
<1>2. before + n \in 1..Len(sentImu) /\ before + m \in 1..Len(sentImu)
  BY <1>1, TimesType
<1>3. imuMeasurements_[n] = sentImu[before + n] /\ imuMeasurements_[m] = sentImu[before + m]
  BY DEF RestOf
<1>4. n = m \/ before + n < before + m
  BY <1>1, TimesType
<1>. HIDE DEF before
<1>5. n = m \/ sentImu[before + n] < sentImu[before + m]
  BY <1>2, <1>4 DEF StreamInv, SentInOrder
<1>6. sentImu[before + n] \in Nat /\ sentImu[before + m] \in Nat
  BY <1>2, TimesType
<1>7. CASE n = m
  BY <1>7
<1>8. CASE sentImu[before + n] < sentImu[before + m]
  BY <1>3, <1>6, <1>8, TimesType
<1>. QED
  BY <1>5, <1>7, <1>8

\* A pose drops the messages before the state.
LEMMA MeasuredWhenPosed ==
  ASSUME TypeOK, StreamInv, PoseInv,
         imuMeasurements_' = NotOlder(imuMeasurements_, currentTime_),
         poseTime' = currentTime_, currentTime_ > 0, UNCHANGED sentImu
  PROVE  MeasuredSincePose'
<1>. DEFINE n == FirstFrom(imuMeasurements_, currentTime_)
            kept == NotOlder(imuMeasurements_, currentTime_)
            before == Len(sentImu) - Len(imuMeasurements_)
<1>1. /\ n \in 1..(Len(imuMeasurements_) + 1)
      /\ \A i \in 1..(n - 1) : imuMeasurements_[i] < currentTime_
      /\ n <= Len(imuMeasurements_) => imuMeasurements_[n] >= currentTime_
      /\ Len(kept) = Len(imuMeasurements_) - n + 1
      /\ \A i \in 1..Len(kept) : kept[i] = imuMeasurements_[n - 1 + i]
  BY TimesType, NotOlderProperties DEF TypeOK
<1>. HIDE DEF n, kept
<1>2. /\ RestOf(imuMeasurements_, sentImu) /\ before \in Nat /\ before <= Len(sentImu)
      /\ poseTime <= currentTime_
      /\ poseTime = 0 => Len(imuMeasurements_) = Len(sentImu)
      /\ poseTime > 0 => \A i \in 1..before : sentImu[i] < poseTime
  <2>1. /\ RestOf(imuMeasurements_, sentImu) /\ Len(imuMeasurements_) <= Len(sentImu)
        /\ poseTime <= currentTime_
        /\ poseTime = 0 => Len(imuMeasurements_) = Len(sentImu)
        /\ poseTime > 0 => \A i \in 1..before : sentImu[i] < poseTime
    BY DEF PoseInv, MeasuredSincePose, StateInThePast, RestOf
  <2>. QED
    BY <2>1, TimesType
<1>3. Len(kept) \in Nat /\ Len(sentImu) - Len(kept) = before + (n - 1)
  BY <1>1, TimesType
<1>4. RestOf(kept, sentImu)
  <2>1. Len(kept) <= Len(sentImu)
    BY <1>2, <1>3, TimesType, <1>1
  <2>2. ASSUME NEW i \in 1..Len(kept)
        PROVE  kept[i] = sentImu[Len(sentImu) - Len(kept) + i]
    <3>1. n - 1 + i \in 1..Len(imuMeasurements_)
      BY <1>1, TimesType
    <3>2. kept[i] = imuMeasurements_[n - 1 + i]
      BY <1>1
    <3>3. imuMeasurements_[n - 1 + i] = sentImu[before + (n - 1 + i)]
      BY <1>2, <3>1 DEF RestOf
    <3>4. before + (n - 1 + i) = Len(sentImu) - Len(kept) + i
      BY <1>1, <1>2, <1>3
    <3>. QED
      BY <3>2, <3>3, <3>4
  <2>. QED
    BY <2>1, <2>2 DEF RestOf
<1>5. ASSUME NEW i \in 1..(Len(sentImu) - Len(kept)) PROVE sentImu[i] < currentTime_
  <2>1. CASE i \in 1..before
    <3>1. before # 0
      BY <2>1
    <3>2. poseTime > 0
      <4>1. poseTime # 0
        BY <1>2, <3>1, TimesType
      <4>. QED
        BY <4>1, TimesType
    <3>3. sentImu[i] < poseTime
      BY <1>2, <2>1, <3>2
    <3>4. sentImu[i] \in Nat
      BY <1>2, <2>1, TimesType
    <3>. QED
      BY <1>2, <3>3, <3>4, TimesType
  <2>2. CASE i \notin 1..before
    <3>1. i - before \in 1..(n - 1) /\ i - before \in 1..Len(imuMeasurements_)
          /\ before + (i - before) = i
      BY <1>1, <1>2, <1>3, <2>2, TimesType
    <3>2. imuMeasurements_[i - before] = sentImu[before + (i - before)]
      BY <1>2, <3>1 DEF RestOf
    <3>. QED
      BY <1>1, <3>1, <3>2
  <2>. QED
    BY <2>1, <2>2
<1>6. ASSUME NEW i \in 1..Len(kept) PROVE kept[i] >= currentTime_
  <2>1. /\ n \in 1..Len(imuMeasurements_) /\ n <= n - 1 + i
        /\ n - 1 + i \in 1..Len(imuMeasurements_)
    BY <1>1, TimesType
  <2>2. imuMeasurements_[n] >= currentTime_
    BY <1>1, <2>1
  <2>3. imuMeasurements_[n - 1 + i] >= currentTime_
    BY <1>2, <2>1, <2>2, KeptSince
  <2>. QED
    BY <1>1, <2>3
<1>7. imuMeasurements_' = kept
  BY DEF kept
<1>8. ~(currentTime_ = 0)
  BY TimesType
<1>. QED
  BY <1>4, <1>5, <1>6, <1>7, <1>8 DEF MeasuredSincePose

\* With a steady IMU the first pose drops the first message.
LEMMA IntegratedWhenPosed ==
  ASSUME TypeInv, StreamInv, KeyInv, PoseInv, Pose, doneFirstOpt_, SteadyImu,
         imuMeasurements_' = NotOlder(imuMeasurements_, currentTime_),
         imuIntegrator_' = Integrate(NotOlder(imuMeasurements_, currentTime_))
  PROVE  imuMeasurements_' = imuIntegrator_'
<1>. DEFINE kept == NotOlder(imuMeasurements_, currentTime_)
<1>0. TypeOK
  BY DEF TypeInv
<1>1. CASE kept # imuMeasurements_
  BY <1>1 DEF Integrate
<1>2. CASE kept = imuMeasurements_
  <2>1. currentTime_ > 0 /\ startTime < currentTime_ /\ imuKey > 1
    BY DEF PoseInv, StateInThePast
  <2>2. poseTime > 0
    <3>. SUFFICES ASSUME poseTime = 0 PROVE FALSE
      BY <1>0, TimesType
    <3>1. imuMeasurements_ # << >> /\ imuMeasurements_ \in Seq(Stamps)
      BY DEF TypeInv, Pose, TypeOK
    <3>2. 1 \in 1..Len(imuMeasurements_)
      BY <3>1, StampAt
    <3>3. imuMeasurements_[1] = sentImu[1]
      <4>1. /\ imuMeasurements_[1] = sentImu[Len(sentImu) - Len(imuMeasurements_) + 1]
            /\ Len(imuMeasurements_) = Len(sentImu)
        BY <3>2 DEF PoseInv, MeasuredSincePose, RestOf
      <4>2. Len(sentImu) - Len(imuMeasurements_) + 1 = 1
        BY <1>0, <4>1, TimesType
      <4>. QED
        BY <4>1, <4>2
    <3>4. FirstFrom(imuMeasurements_, currentTime_) = 1
      BY <1>0, <1>2, <3>1, TimesType, NotOlderProperties
    <3>5. imuMeasurements_[1] >= currentTime_
      BY <1>0, <3>1, <3>2, <3>4, TimesType, NotOlderProperties
    <3>6. startTime = sentFix[1]
      <4>1. ~(imuKey = 1)
        BY <2>1
      <4>. QED
        BY <4>1 DEF KeyInv, FirstKey, StreamInv, StartsAtFirstFix
    <3>7. sentImu[1] <= startTime
      BY <3>6 DEF SteadyImu
    <3>8. sentImu[1] \in Nat
      <4>1. Len(imuMeasurements_) <= Len(sentImu)
        BY DEF PoseInv, MeasuredSincePose, RestOf
      <4>2. 1 \in 1..Len(sentImu)
        BY <1>0, <3>2, <4>1, TimesType
      <4>. QED
        BY <1>0, <4>2, TimesType
    <3>. QED
      BY <1>0, <2>1, <3>3, <3>5, <3>7, <3>8, TimesType
  <2>3. imuMeasurements_ = Append(imuIntegrator_, Back(imuMeasurements_))
    BY <2>2 DEF PoseInv, IntegratedSincePose, Pose
  <2>. QED
    BY <1>2, <2>3 DEF Integrate
<1>. QED
  BY <1>1, <1>2

\* A pose is built on the last state and the messages since.
LEMMA PosesWhenPosed ==
  ASSUME TypeInv, StreamInv, KeyInv, PoseInv, Pose
  PROVE  PoseInv'
<1>. USE DEF shared, published, rosVars, optVars, sensorVars
<1>0. TypeOK
  BY DEF TypeInv
<1>1. /\ inCallback /\ ~inCallback'
      /\ UNCHANGED <<doneFirstOpt_, currentTime_, imuKey, startTime, sentImu, sentFix>>
  BY DEF Pose
<1>2. /\ KeyTime(imuKey - 1)' = KeyTime(imuKey - 1) /\ Back(sentImu)' = Back(sentImu)
      /\ SteadyImu' => SteadyImu
  BY <1>1 DEF KeyTime, Back, SteadyImu
<1>3. CASE ~doneFirstOpt_ /\ UNCHANGED <<imuMeasurements_, imuIntegrator_, poseTime>>
  <2>1. ~(poseTime > 0)
    <3>1. ~(currentTime_ > 0) /\ poseTime <= currentTime_
      BY <1>3 DEF PoseInv, StateInThePast
    <3>. QED
      BY <1>0, <3>1, TimesType
  <2>2. IntegratedSincePose'
    BY <1>3, <2>1 DEF IntegratedSincePose
  <2>3. StateInThePast'
    BY <1>1, <1>2, <1>3 DEF PoseInv, StateInThePast
  <2>4. MeasuredSincePose'
    BY <1>1, <1>3 DEF PoseInv, MeasuredSincePose, RestOf
  <2>. QED
    BY <2>2, <2>3, <2>4 DEF PoseInv
<1>4. CASE /\ doneFirstOpt_
           /\ imuMeasurements_' = NotOlder(imuMeasurements_, currentTime_)
           /\ imuIntegrator_' = Integrate(NotOlder(imuMeasurements_, currentTime_))
           /\ poseTime' = currentTime_
  <2>1. currentTime_ > 0
    BY <1>4 DEF PoseInv, StateInThePast
  <2>2. MeasuredSincePose'
    BY <1>0, <1>1, <1>4, <2>1, MeasuredWhenPosed
  <2>3. IntegratedSincePose'
    BY <1>1, <1>2, <1>4, IntegratedWhenPosed DEF IntegratedSincePose
  <2>4. currentTime_ <= currentTime_
    BY <1>0, TimesType
  <2>5. StateInThePast'
    BY <1>1, <1>2, <1>4, <2>4 DEF PoseInv, StateInThePast
  <2>. QED
    BY <2>2, <2>3, <2>5 DEF PoseInv
<1>. QED
  BY <1>3, <1>4 DEF Pose

\* Every step keeps the window of poses.
LEMMA StepPoses == TypeInv /\ StreamInv /\ KeyInv /\ PoseInv /\ [Next]_vars => PoseInv'
<1>. SUFFICES ASSUME TypeInv, StreamInv, KeyInv, PoseInv, [Next]_vars PROVE PoseInv'
  OBVIOUS
<1>. USE DEF shared, published, rosVars, optVars, sensorVars
<1>0. TypeOK
  BY DEF TypeInv
<1>1. ASSUME StateInThePast', UNCHANGED <<rosVars, sentImu>>, SteadyImu' /\ poseTime > 0 => SteadyImu
      PROVE  PoseInv'
  BY <1>1 DEF PoseInv, MeasuredSincePose, IntegratedSincePose, RestOf, Back
<1>2. ASSUME NEW stamp \in Stamps, GpsCallback(stamp) PROVE PoseInv'
  <2>1. /\ sentFix' = Append(sentFix, stamp)
        /\ UNCHANGED <<doneFirstOpt_, currentTime_, rosVars, pc, imuKey, startTime, sentImu>>
    BY <1>2 DEF GpsCallback
  <2>2. StateInThePast'
    BY <2>1 DEF PoseInv, StateInThePast, KeyTime, Back
  <2>3. ASSUME SteadyImu', poseTime > 0 PROVE SteadyImu
    <3>1. sentFix # << >>
      <4>1. currentTime_ > 0
        BY <1>0, <2>3, TimesType DEF PoseInv, StateInThePast
      <4>2. ~(imuKey = 1)
        <5>1. imuKey > 1
          BY <4>1 DEF PoseInv, StateInThePast
        <5>. QED
          BY <5>1
      <4>. QED
        BY <4>2 DEF KeyInv, FirstKey, StreamInv, StartsAtFirstFix
    <3>2. sentFix'[1] = sentFix[1]
      <4>1. sentFix \in Seq(Stamps)
        BY <1>0 DEF TypeOK
      <4>2. 1 \in 1..Len(sentFix)
        BY <3>1, <4>1, StampAt
      <4>. QED
        BY <2>1, <4>1, <4>2, BackOfAppend
    <3>. QED
      BY <2>1, <2>3, <3>1, <3>2 DEF SteadyImu
  <2>. QED
    BY <1>1, <2>1, <2>2, <2>3
<1>3. CASE Optimizer
  <2>1. StateInThePast'
    BY <1>0, <1>3, PastWhenOptimized DEF PoseInv
  <2>2. UNCHANGED <<rosVars, sensorVars>>
    BY <1>3 DEF Optimizer, FirstFix, FirstImu, RemoveOld, BeginKey,
                IntegrateMeasurement, AddKey, TakeFix, Update
  <2>. QED
    BY <1>1, <2>1, <2>2 DEF SteadyImu
<1>4. CASE UNCHANGED vars
  BY <1>4, <1>1 DEF vars, PoseInv, StateInThePast, SteadyImu, KeyTime, Back
<1>. QED
  BY <1>0, <1>2, <1>3, <1>4, PosesWhenMeasured, PosesWhenPosed DEF Next

-----------------------------------------------------------------------------
(* The theorems.                                                           *)

IInv == TypeInv /\ StreamInv /\ KeyInv /\ SteadyInv /\ PoseInv

\* All of this always holds.
LEMMA InvariantHolds == Spec => []IInv
<1>1. Init => IInv
  BY InitTypes, InitStreams, InitKeys, InitSteady, InitPoses DEF IInv
<1>2. IInv /\ [Next]_vars => IInv'
  <2>. SUFFICES ASSUME IInv, [Next]_vars PROVE IInv'
    OBVIOUS
  <2>0. TypeOK
    BY DEF IInv, TypeInv
  <2>1. TypeInv' /\ StreamInv'
    BY <2>0, StepTypes, StepStreams DEF IInv
  <2>2. KeyInv'
    BY <2>0, <2>1, StepKeys DEF IInv
  <2>3. SteadyInv' /\ PoseInv'
    BY <2>0, StepSteady, StepPoses DEF IInv
  <2>. QED
    BY <2>1, <2>2, <2>3 DEF IInv
<1>. QED
  BY <1>1, <1>2, PTL DEF Spec

\* The inner loop never blocks on the queue: the message newer than the key,
\* seen before the key was begun, is still in the queue or is the one in hand.
THEOREM NotStuck == Spec => []NeverStuckInKey
<1>1. IInv => NeverStuckInKey
  <2>. SUFFICES ASSUME IInv, pc = "integrate", BeforeKey PROVE imuQ_ # << >>
    BY DEF NeverStuckInKey
  <2>1. KeyTime(imuKey) \in Nat /\ lastImu \in Nat
    BY TimesType, TakenType, KeyTimeType DEF IInv, TypeInv
  <2>. QED
    BY <2>1 DEF IInv, KeyInv, EndOfKeyKnown, BeforeKey
<1>. QED
  BY <1>1, InvariantHolds, PTL

\* The part of the stream that begins at m and holds as many messages as s
\* is s, when they agree one by one.
LEMMA PartOfStream ==
  ASSUME TypeOK, NEW s \in Seq(Stamps), NEW m \in Nat \ {0},
         m + Len(s) <= Len(sentImu) + 1,
         \A i \in 1..Len(s) : s[i] = sentImu[m - 1 + i]
  PROVE  SubSeq(sentImu, m, m - 1 + Len(s)) = s
<1>. DEFINE part == SubSeq(sentImu, m, m - 1 + Len(s))
<1>1. Len(s) \in Nat /\ sentImu \in Seq(Stamps) /\ Len(sentImu) \in Nat
  BY StampAt DEF TypeOK
<1>2. \A i \in m..(m - 1 + Len(s)) : sentImu[i] \in Stamps
  <2>. SUFFICES ASSUME NEW i \in m..(m - 1 + Len(s)) PROVE sentImu[i] \in Stamps
    OBVIOUS
  <2>1. i \in 1..Len(sentImu)
    BY <1>1
  <2>. QED
    BY <1>1, <2>1, ElementOfSeq
<1>3. /\ part \in Seq(Stamps)
      /\ Len(part) = IF m <= m - 1 + Len(s) THEN (m - 1 + Len(s)) - m + 1 ELSE 0
      /\ \A i \in 1..((m - 1 + Len(s)) - m + 1) : part[i] = sentImu[m + i - 1]
  BY <1>1, <1>2, SubSeqProperties
<1>. HIDE DEF part
<1>4. Len(part) = Len(s) /\ (m - 1 + Len(s)) - m + 1 = Len(s)
  BY <1>1, <1>3
<1>5. \A i \in 1..Len(part) : part[i] = s[i]
  <2>. SUFFICES ASSUME NEW i \in 1..Len(s) PROVE part[i] = s[i]
    BY <1>4
  <2>1. m + i - 1 = m - 1 + i
    BY <1>1
  <2>2. part[i] = sentImu[m + i - 1]
    BY <1>3, <1>4
  <2>. QED
    BY <2>1, <2>2
<1>6. part = s
  BY <1>3, <1>4, <1>5, SeqEqual
<1>. QED
  BY <1>6 DEF part

\* There is only one first message from a time on.
LEMMA FirstFromInStream ==
  ASSUME TypeOK, NEW n, NEW t \in Nat, IsFirstFrom(n, t)
  PROVE  FirstFrom(sentImu, t) = n
<1>1. sentImu \in Seq(Nat) /\ Len(sentImu) \in Nat
  BY SeqMonotonic, StampsAreNumbers, StampAt DEF TypeOK
<1>2. /\ n \in 1..(Len(sentImu) + 1)
      /\ \A i \in 1..(n - 1) : sentImu[i] < t
      /\ n <= Len(sentImu) => sentImu[n] >= t
  BY <1>1 DEF IsFirstFrom
<1>. QED
  BY <1>1, <1>2, FirstFromIs

\* A factor holds the messages from one key to the next, once and in order.
THEOREM FactorsHoldTheirPeriods == Spec => []FactorHoldsItsPeriod
<1>1. IInv => FactorHoldsItsPeriod
  <2>. SUFFICES ASSUME IInv, pc = "gps", imuKey > 2
                PROVE  integrator = Since(KeyTime(imuKey - 2), KeyTime(imuKey - 1))
    BY DEF FactorHoldsItsPeriod
  <2>1. TypeOK /\ StreamInv /\ integrator \in Seq(Stamps)
    BY DEF IInv, TypeInv, TypeOK
  <2>2. /\ FactorHoldsTaken
        /\ IsFirstFrom(Taken, KeyTime(imuKey - 1))
        /\ IsFirstFrom(Begun, KeyTime(imuKey - 2))
    BY DEF IInv, KeyInv, EachFactor
  <2>3. KeyTime(imuKey - 1) \in Nat /\ KeyTime(imuKey - 2) \in Nat
    <3>1. imuKey - 1 \in Nat /\ imuKey - 2 \in Nat
      BY <2>1, TimesType
    <3>. QED
      BY <2>1, <3>1, KeyTimeType
  <2>4. /\ FirstFrom(sentImu, KeyTime(imuKey - 1)) = Taken
        /\ FirstFrom(sentImu, KeyTime(imuKey - 2)) = Begun
    BY <2>1, <2>2, <2>3, FirstFromInStream
  <2>5. /\ Begun \in Nat \ {0} /\ Begun + Len(integrator) <= Len(sentImu) + 1
        /\ Begun - 1 + Len(integrator) = Taken - 1
        /\ \A i \in 1..Len(integrator) : integrator[i] = sentImu[Begun - 1 + i]
    <3>1. Begun > 0 /\ \A i \in 1..Len(integrator) : integrator[i] = sentImu[Begun - 1 + i]
      BY <2>2 DEF FactorHoldsTaken
    <3>. QED
      BY <2>1, <3>1, TakenType DEF Begun
  <2>6. SubSeq(sentImu, Begun, Begun - 1 + Len(integrator)) = integrator
    BY <2>1, <2>5, PartOfStream
  <2>. QED
    BY <2>4, <2>5, <2>6 DEF Since
<1>. QED
  BY <1>1, InvariantHolds, PTL

\* With a steady IMU every factor has a measurement.
THEOREM FactorsAreNotEmpty == Spec => []NoEmptyFactor
<1>1. IInv => NoEmptyFactor
  BY DEF IInv, SteadyInv, NoEmptyFactor
<1>. QED
  BY <1>1, InvariantHolds, PTL

\* With a steady IMU a pose is predicted from its state with the messages
\* since the time of the state, whenever the optimizer published it.
THEOREM PosesSinceTheirState == Spec => []PoseSinceItsState
<1>1. IInv => PoseSinceItsState
  <2>. SUFFICES ASSUME IInv, SteadyImu, ~inCallback, poseTime > 0
                PROVE  imuIntegrator_ = NotOlder(sentImu, poseTime)
    BY DEF PoseSinceItsState
  <2>. DEFINE n == Len(sentImu) - Len(imuMeasurements_) + 1
  <2>1. TypeOK /\ imuMeasurements_ \in Seq(Stamps)
    BY DEF IInv, TypeInv, TypeOK
  <2>2. /\ imuMeasurements_ = imuIntegrator_
        /\ Len(imuMeasurements_) <= Len(sentImu)
        /\ \A i \in 1..Len(imuMeasurements_) :
             imuMeasurements_[i] = sentImu[Len(sentImu) - Len(imuMeasurements_) + i]
        /\ \A i \in 1..(Len(sentImu) - Len(imuMeasurements_)) : sentImu[i] < poseTime
        /\ \A i \in 1..Len(imuMeasurements_) : imuMeasurements_[i] >= poseTime
    BY DEF IInv, PoseInv, IntegratedSincePose, MeasuredSincePose, RestOf
  <2>3. /\ n \in Nat \ {0} /\ n \in 1..(Len(sentImu) + 1)
        /\ n + Len(imuMeasurements_) <= Len(sentImu) + 1
        /\ n - 1 = Len(sentImu) - Len(imuMeasurements_)
        /\ n - 1 + Len(imuMeasurements_) = Len(sentImu)
        /\ n <= Len(sentImu) => 1 \in 1..Len(imuMeasurements_)
    BY <2>1, <2>2, TimesType
  <2>4. n <= Len(sentImu) => sentImu[n] >= poseTime
    <3>. SUFFICES ASSUME n <= Len(sentImu) PROVE sentImu[n] >= poseTime
      OBVIOUS
    <3>1. imuMeasurements_[1] = sentImu[n] /\ imuMeasurements_[1] >= poseTime
      BY <2>2, <2>3
    <3>. QED
      BY <3>1
  <2>. HIDE DEF n
  <2>5. FirstFrom(sentImu, poseTime) = n
    <3>1. sentImu \in Seq(Nat) /\ poseTime \in Nat
      BY <2>1, SeqMonotonic, StampsAreNumbers DEF TypeOK
    <3>2. \A i \in 1..(n - 1) : sentImu[i] < poseTime
      BY <2>2, <2>3
    <3>. QED
      BY <2>3, <2>4, <3>1, <3>2, FirstFromIs
  <2>6. SubSeq(sentImu, n, n - 1 + Len(imuMeasurements_)) = imuMeasurements_
    <3>1. \A i \in 1..Len(imuMeasurements_) : imuMeasurements_[i] = sentImu[n - 1 + i]
      BY <2>2, <2>3
    <3>. QED
      BY <2>1, <2>3, <3>1, PartOfStream
  <2>. QED
    BY <2>2, <2>3, <2>5, <2>6 DEF NotOlder
<1>. QED
  BY <1>1, InvariantHolds, PTL

==============================================================================
