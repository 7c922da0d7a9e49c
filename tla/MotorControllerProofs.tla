------------------------- MODULE MotorControllerProofs -------------------------
(***************************************************************************)
(* Theorems about MotorController: types, the lockstep with the board, and *)
(* the handshake that comes before the first speed.                        *)
(***************************************************************************)
EXTENDS MotorController, SequenceTheorems, TLAPS

-----------------------------------------------------------------------------
(* What a read leaves of the responses.                                    *)

\* Reading n pieces leaves the later ones, in their order.
LEMMA ConsumeLemma ==
  ASSUME responses \in Seq(Piece), NEW n \in Arrived, Consume(n)
  PROVE  /\ responses' \in Seq(Piece)
         /\ Len(responses') = Len(responses) - n
         /\ \A i \in DOMAIN responses' : responses'[i] = responses[i + n]
         /\ \A i \in DOMAIN responses' : i + n \in DOMAIN responses
<1> DEFINE m == Len(responses)
<1>1. m \in Nat /\ n \in 1..m
  BY DEF Arrived
<1>2. responses' = SubSeq(responses, n + 1, m)
  BY DEF Consume
<1>3. Len(responses') = m - n /\ DOMAIN responses' = 1..(m - n)
  BY <1>1, <1>2
<1>4. \A i \in 1..(m - n) : responses'[i] = responses[i + n] /\ i + n \in 1..m
  BY <1>1, <1>2
<1>5. responses' \in Seq(Piece)
  BY <1>1, <1>2
<1> QED
  BY <1>1, <1>3, <1>4, <1>5

\* The board appends the pieces of one response.
LEMMA AnswerLemma ==
  ASSUME responses \in Seq(Piece), NEW g \in GainValues
  PROVE  /\ Append(responses, Whole(g)) \in Seq(Piece)
         /\ Len(Append(responses, Whole(g))) = Len(responses) + 1
         /\ LET both == <<Part("head", g), Part("tail", g)>>
            IN  /\ responses \o both \in Seq(Piece)
                /\ Len(responses \o both) = Len(responses) + 2
<1>1. /\ Whole(g) \in Piece
      /\ Part("head", g) \in Piece
      /\ Part("tail", g) \in Piece
  BY DEF Whole, Part, Piece
<1>2. <<Part("head", g), Part("tail", g)>> \in Seq(Piece)
  BY <1>1
<1> QED
  BY <1>1, <1>2

-----------------------------------------------------------------------------
(* Types.                                                                  *)

\* The node starts with values of the right types.
LEMMA InitType == Init => TypeOK
<1> SUFFICES ASSUME Init PROVE TypeOK
  OBVIOUS
<1> USE ConstantsAssumption
<1>1. motors \in Seq(Commands) /\ Len(motors) <= 1
  BY DEF Init
<1>2. requests \in Seq(Commands \union {Gains}) /\ responses \in Seq(Piece)
  BY DEF Init
<1>3. mbed \in [gains : GainValues, speed : Commands]
  BY DEF Init
<1> QED
  BY <1>1, <1>2, <1>3 DEF Init, TypeOK

\* A request is sent behind those under way.
LEMMA SendType ==
  ASSUME TypeOK, NEW r \in Commands \union {Gains}, SendMessage(r)
  PROVE  /\ requests' \in Seq(Commands \union {Gains})
         /\ Len(requests') <= Len(requests) + 1
         /\ \A i \in DOMAIN requests' :
              \/ requests'[i] = r
              \/ i \in DOMAIN requests /\ requests'[i] = requests[i]
<1>1. requests \in Seq(Commands \union {Gains})
  BY DEF TypeOK
<1>2. CASE connection = "up"
  <2>1. requests' = Append(requests, r)
    BY <1>2 DEF SendMessage
  <2> QED
    BY <1>1, <2>1
<1>3. CASE connection # "up"
  <2>1. requests' = requests
    BY <1>3 DEF SendMessage
  <2> QED
    BY <1>1, <2>1
<1> QED
  BY <1>2, <1>3

\* The board takes the first request and answers at most once, in one piece or two.
LEMMA MbedType ==
  ASSUME TypeOK, Mbed
  PROVE  /\ requests' \in Seq(Commands \union {Gains})
         /\ Len(requests') = Len(requests) - 1
         /\ \A i \in DOMAIN requests' :
              i + 1 \in DOMAIN requests /\ requests'[i] = requests[i + 1]
         /\ mbed' \in [gains : GainValues, speed : Commands]
         /\ responses' \in Seq(Piece)
         /\ torn' \in 0..MaxTorn
         /\ Len(responses') <= Len(responses) + 1 + (torn' - torn)
<1> USE ConstantsAssumption
<1>1. requests \in Seq(Commands \union {Gains}) /\ requests # << >>
  BY DEF TypeOK, Mbed
<1>2. requests' = Tail(requests)
  BY DEF Mbed
<1>3. /\ requests' \in Seq(Commands \union {Gains})
      /\ Len(requests') = Len(requests) - 1
      /\ \A i \in DOMAIN requests' :
           i + 1 \in DOMAIN requests /\ requests'[i] = requests[i + 1]
  BY <1>1, <1>2
<1>4. Head(requests) \in Commands \union {Gains}
  BY <1>1
<1>5. mbed' \in [gains : GainValues, speed : Commands]
  <2>1. mbed \in [gains : GainValues, speed : Commands]
    BY DEF TypeOK
  <2>2. CASE Head(requests) = Gains
    BY <2>1, <2>2 DEF Mbed, GainValues
  <2>3. CASE Head(requests) # Gains
    BY <1>4, <2>1, <2>3 DEF Mbed
  <2> QED
    BY <2>2, <2>3
<1>6. mbed'.gains \in GainValues
  BY <1>5
<1>7. torn \in 0..MaxTorn /\ MaxTorn \in Nat /\ responses \in Seq(Piece)
  BY DEF TypeOK
<1>8. /\ responses' \in Seq(Piece)
      /\ torn' \in 0..MaxTorn
      /\ Len(responses') <= Len(responses) + 1 + (torn' - torn)
  <2>1. Len(responses) \in Nat
    BY <1>7
  <2>2. CASE responses' = Append(responses, Whole(mbed'.gains)) /\ torn' = torn
    <3>1. responses' \in Seq(Piece) /\ Len(responses') = Len(responses) + 1
      BY <1>6, <1>7, <2>2, AnswerLemma
    <3> QED
      BY <1>7, <2>1, <2>2, <3>1
  <2>3. CASE /\ torn < MaxTorn
             /\ torn' = torn + 1
             /\ responses' = responses \o <<Part("head", mbed'.gains),
                                            Part("tail", mbed'.gains)>>
    <3>1. responses' \in Seq(Piece) /\ Len(responses') = Len(responses) + 2
      BY <1>6, <1>7, <2>3, AnswerLemma
    <3>2. torn' \in 0..MaxTorn /\ torn' - torn = 1
      BY <1>7, <2>3
    <3> QED
      BY <2>1, <3>1, <3>2
  <2> QED
    BY <2>2, <2>3 DEF Mbed
<1> QED
  BY <1>3, <1>5, <1>8

\* Every step keeps the types.
LEMMA StepType == TypeOK /\ [Next]_vars => TypeOK'
<1> SUFFICES ASSUME TypeOK, [Next]_vars PROVE TypeOK'
  OBVIOUS
<1> USE ConstantsAssumption
<1>1. CASE SendGains
  <2>1. requests' \in Seq(Commands \union {Gains})
    BY <1>1, SendType DEF SendGains
  <2> QED
    BY <1>1, <2>1 DEF SendGains, TypeOK, command
<1>2. CASE ReadGains
  <2>1. responses' \in Seq(Piece)
    BY <1>2, ConsumeLemma DEF ReadGains, TypeOK
  <2>2. pc' \in {"loop", "setPID"} /\ ros_ok' \in BOOLEAN
    BY <1>2 DEF ReadGains, Decoded, TypeOK
  <2> QED
    BY <1>2, <2>1, <2>2 DEF ReadGains, TypeOK, command
<1>3. CASE SendRequest
  <2>1. requests' \in Seq(Commands \union {Gains})
    BY <1>3, SendType DEF SendRequest, TypeOK
  <2> QED
    BY <1>3, <2>1 DEF SendRequest, TypeOK, command
<1>4. CASE RecieveResponse
  <2>1. responses' \in Seq(Piece)
    BY <1>4, ConsumeLemma DEF RecieveResponse, TypeOK
  <2>2. ros_ok' \in BOOLEAN
    BY <1>4 DEF RecieveResponse, Decoded, TypeOK
  <2> QED
    BY <1>4, <2>1, <2>2 DEF RecieveResponse, TypeOK, command
<1>5. CASE ReadClosed
  BY <1>5 DEF ReadClosed, TypeOK, command
<1>6. CASE ReadThrows
  BY <1>6 DEF ReadThrows, TypeOK, command
<1>7. CASE SpinOnce
  <2>1. current_motor_command_' \in Commands
    BY <1>7 DEF SpinOnce, TypeOK
  <2>2. last_motors_message_' \in 0..WatchdogDelay + 1
    BY <1>7 DEF SpinOnce, TypeOK
  <2>3. motors' \in Seq(Commands) /\ Len(motors') <= 1
    <3>1. motors' = motors \/ motors' = << >>
      BY <1>7 DEF SpinOnce
    <3>2. CASE motors' = motors
      BY <3>2 DEF TypeOK
    <3>3. CASE motors' = << >>
      <4>1. Len(motors') = 0
        BY <3>3
      <4>2. motors' \in Seq(Commands)
        BY <3>3
      <4> QED
        BY <4>1, <4>2
    <3> QED
      BY <3>1, <3>2, <3>3
  <2> QED
    BY <1>7, <2>1, <2>2, <2>3 DEF SpinOnce, TypeOK
<1>8. CASE Return
  BY <1>8 DEF Return, TypeOK, command
<1>9. CASE \E c \in Commands : Command(c)
  <2>1. motors' \in Seq(Commands) /\ Len(motors') <= 1
    BY <1>9 DEF Command, Enqueue
  <2> QED
    BY <1>9, <2>1 DEF Command, TypeOK
<1>10. CASE Mbed
  BY <1>10, MbedType DEF Mbed, TypeOK, command
<1>11. CASE Disconnect
  BY <1>11 DEF Disconnect, TypeOK, command
<1>12. CASE Interrupt
  BY <1>12 DEF Interrupt, TypeOK, command
<1>13. CASE UNCHANGED vars
  BY <1>13 DEF vars, TypeOK
<1> QED
  BY <1>1, <1>2, <1>3, <1>4, <1>5, <1>6, <1>7, <1>8, <1>9, <1>10, <1>11, <1>12,
     <1>13 DEF Next, Node

(* Types: the command queue never outgrows one message, and the pieces of  *)
(* responses and the board's state keep their form.                        *)
THEOREM TypeCorrect == Spec => []TypeOK
  BY InitType, StepType, PTL DEF Spec

-----------------------------------------------------------------------------
(* The lockstep.  A request goes out only where InStep leaves room for it: *)
(* after a read, unless ROS has shut down, when none goes out any more.    *)

Answered == ros_ok /\ pc \in {"setPID", "loop", "spin"}

Balance ==
  /\ InStep
  /\ Answered => Len(requests) + Len(responses) <= torn

\* Every step keeps requests, answers and the reader in balance.
LEMMA StepBalance == TypeOK /\ Balance /\ [Next]_vars => Balance'
<1> SUFFICES ASSUME TypeOK, Balance, [Next]_vars PROVE Balance'
  OBVIOUS
<1> USE ConstantsAssumption
<1>1. Len(requests) \in Nat /\ Len(responses) \in Nat /\ torn \in Nat
  BY DEF TypeOK
<1>2. Len(requests') \in Nat /\ Len(responses') \in Nat /\ torn' \in Nat
  BY StepType DEF TypeOK
<1>3. CASE SendGains \/ SendRequest
  <2>1. PICK r \in Commands \union {Gains} : SendMessage(r)
    BY <1>3 DEF SendGains, SendRequest, TypeOK
  <2>2. Len(requests') <= Len(requests) + 1
    BY <2>1, SendType
  <2>3. responses' = responses /\ torn' = torn /\ Answered /\ ~Answered'
    BY <1>3 DEF SendGains, SendRequest, Answered
  <2> QED
    BY <1>1, <1>2, <2>2, <2>3 DEF Balance, InStep
<1>4. CASE ReadGains \/ RecieveResponse
  <2>1. PICK n \in Arrived : Consume(n)
    BY <1>4 DEF ReadGains, RecieveResponse
  <2>2. Len(responses') = Len(responses) - n
    BY <2>1, ConsumeLemma DEF TypeOK
  <2>3. n \in Int /\ n >= 1
    BY <1>1, <2>1 DEF Arrived
  <2>4. requests' = requests /\ torn' = torn
    BY <1>4 DEF ReadGains, RecieveResponse
  <2> QED
    BY <1>1, <1>2, <2>2, <2>3, <2>4 DEF Balance, InStep
<1>5. CASE Mbed
  <2>1. Len(requests') = Len(requests) - 1
    BY <1>5, MbedType
  <2>2. Len(responses') <= Len(responses) + 1 + (torn' - torn)
    BY <1>5, MbedType
  <2>3. Answered' = Answered
    BY <1>5 DEF Mbed, Answered
  <2> QED
    BY <1>1, <1>2, <2>1, <2>2, <2>3 DEF Balance, InStep
<1>6. ASSUME /\ requests' = requests /\ responses' = responses /\ torn' = torn
             /\ Answered' => Answered
      PROVE  Balance'
  BY <1>6 DEF Balance, InStep
<1>7. CASE ReadClosed \/ ReadThrows
  BY <1>6, <1>7 DEF ReadClosed, ReadThrows, Answered
<1>8. CASE SpinOnce
  BY <1>6, <1>8 DEF SpinOnce, Answered
<1>9. CASE Return \/ \E c \in Commands : Command(c)
  BY <1>6, <1>9 DEF Return, Command, Answered
<1>10. CASE Disconnect \/ Interrupt
  BY <1>6, <1>10 DEF Disconnect, Interrupt, Answered
<1>11. CASE UNCHANGED vars
  BY <1>6, <1>11 DEF vars, Answered
<1> QED
  BY <1>3, <1>4, <1>5, <1>7, <1>8, <1>9, <1>10, <1>11 DEF Next, Node

(* Whatever TCP does to the responses and however slow the board is, what  *)
(* is under way between the node and the board is one exchange, and one    *)
(* piece more for each response that came in parts.                        *)
THEOREM StaysInStep == Spec => []InStep
<1>1. Init => Balance
  BY DEF Init, Balance, InStep
<1>2. Balance => InStep
  BY DEF Balance
<1> QED
  BY <1>1, <1>2, InitType, StepType, StepBalance, PTL DEF Spec

-----------------------------------------------------------------------------
(* The handshake.  The board keeps the configured gains once it has them,  *)
(* so a response that reports them can be believed, and the main loop is   *)
(* reached with ROS running only past such a response.                     *)

Confirmed == mbed.gains = "configured"

Reported ==
  \A i \in DOMAIN responses :
    /\ responses[i].part = "whole"
    /\ responses[i].gains = "configured" => Confirmed

SpeedsAsked == \E i \in DOMAIN requests : requests[i] # Gains

Handshake ==
  torn = 0 =>
    /\ Reported
    /\ pc \in {"loop", "response", "spin"} /\ ros_ok => Confirmed
    /\ mbed.speed # Stop \/ SpeedsAsked => Confirmed

\* While nothing is torn, every step keeps the speeds behind the confirmed gains.
LEMMA StepHandshake == TypeOK /\ Handshake /\ [Next]_vars => Handshake'
<1> SUFFICES ASSUME TypeOK, Handshake, [Next]_vars, torn' = 0 PROVE Handshake'
  BY DEF Handshake
<1> USE ConstantsAssumption
<1> DEFINE InLoop == pc \in {"loop", "response", "spin"} /\ ros_ok
<1>1. torn = 0
  <2>1. torn \in Nat
    BY DEF TypeOK
  <2>2. CASE Mbed
    BY <2>1, <2>2 DEF Mbed
  <2>3. CASE ~Mbed
    BY <2>3 DEF Next, Node, SendGains, ReadGains, SendRequest,
       RecieveResponse, ReadClosed, ReadThrows, SpinOnce, Return, Command,
       Disconnect, Interrupt, vars
  <2> QED
    BY <2>2, <2>3
<1>2. /\ Reported
      /\ InLoop => Confirmed
      /\ mbed.speed # Stop \/ SpeedsAsked => Confirmed
  BY <1>1 DEF Handshake
<1>3. SUFFICES /\ Reported'
               /\ InLoop' => Confirmed'
               /\ mbed'.speed # Stop \/ SpeedsAsked' => Confirmed'
  BY DEF Handshake
<1>4. ASSUME /\ requests' = requests /\ responses' = responses /\ mbed' = mbed
             /\ InLoop' => InLoop
      PROVE  /\ Reported'
             /\ InLoop' => Confirmed'
             /\ mbed'.speed # Stop \/ SpeedsAsked' => Confirmed'
  BY <1>2, <1>4 DEF Reported, Confirmed, SpeedsAsked
<1>5. CASE SendGains
  <2>1. SendMessage(Gains) /\ responses' = responses /\ mbed' = mbed /\ ~InLoop'
    BY <1>5 DEF SendGains
  <2>2. SpeedsAsked' => SpeedsAsked
    BY <2>1, SendType DEF SpeedsAsked
  <2> QED
    BY <1>2, <2>1, <2>2 DEF Reported, Confirmed
<1>6. CASE SendRequest
  <2>1. responses' = responses /\ mbed' = mbed
    BY <1>6 DEF SendRequest
  <2>2. Confirmed
    BY <1>2, <1>6 DEF SendRequest
  <2> QED
    BY <1>2, <2>1, <2>2 DEF Reported, Confirmed
<1>7. ASSUME NEW n \in Arrived, Consume(n)
      PROVE  Chunk(n)[Len(Chunk(n))] = responses[n] /\ ~Torn(Chunk(n))
  <2>1. responses \in Seq(Piece) /\ n \in 1..Len(responses)
    BY <1>7 DEF TypeOK, Arrived
  <2>2. /\ Len(Chunk(n)) = n
        /\ Chunk(n)[1] = responses[1]
        /\ Chunk(n)[n] = responses[n]
    BY <2>1 DEF Chunk
  <2>3. responses[1].part = "whole" /\ responses[n].part = "whole"
    BY <1>2, <2>1 DEF Reported
  <2> QED
    BY <2>2, <2>3 DEF Torn
<1>8. ASSUME NEW n \in Arrived, Consume(n), mbed' = mbed
      PROVE  Reported'
  <2>1. \A i \in DOMAIN responses' :
          i + n \in DOMAIN responses /\ responses'[i] = responses[i + n]
    BY <1>8, ConsumeLemma DEF TypeOK
  <2> QED
    BY <1>2, <1>8, <2>1 DEF Reported, Confirmed
<1>9. CASE ReadGains
  <2>1. PICK n \in Arrived :
          /\ Consume(n)
          /\ Decoded(Chunk(n))
          /\ \E gains \in DecodedGains(Chunk(n)) :
               pc' = IF ValidValues(gains) THEN "loop" ELSE "setPID"
    BY <1>9 DEF ReadGains
  <2>2. DecodedGains(Chunk(n)) = {responses[n].gains}
    BY <1>7, <2>1 DEF DecodedGains
  <2>3. n \in DOMAIN responses
    BY <2>1 DEF Arrived, TypeOK
  <2>4. pc' = "loop" => Confirmed
    BY <1>2, <2>1, <2>2, <2>3 DEF ValidValues, Reported
  <2>5. pc' \in {"loop", "setPID"}
    BY <2>1
  <2>6. requests' = requests /\ mbed' = mbed
    BY <1>9 DEF ReadGains
  <2> QED
    BY <1>2, <1>8, <2>1, <2>4, <2>5, <2>6 DEF Confirmed, SpeedsAsked
<1>10. CASE RecieveResponse
  <2>1. PICK n \in Arrived : Consume(n) /\ Decoded(Chunk(n))
    BY <1>10 DEF RecieveResponse
  <2>2. requests' = requests /\ mbed' = mbed /\ pc = "response"
    BY <1>10 DEF RecieveResponse
  <2>3. ros_ok' = ros_ok
    BY <1>7, <2>1 DEF Decoded
  <2> QED
    BY <1>2, <1>8, <2>1, <2>2, <2>3 DEF Confirmed, SpeedsAsked
<1>11. CASE Mbed
  <2>1. mbed \in [gains : GainValues, speed : Commands] /\ responses \in Seq(Piece)
    BY DEF TypeOK
  <2>2. Confirmed => Confirmed'
    BY <1>11, <2>1 DEF Mbed, Confirmed
  <2>3. SpeedsAsked' => SpeedsAsked
    BY <1>11, MbedType DEF SpeedsAsked
  <2>4. mbed'.speed # Stop => mbed.speed # Stop \/ SpeedsAsked
    <3>1. requests \in Seq(Commands \union {Gains}) /\ requests # << >>
      BY <1>11 DEF Mbed, TypeOK
    <3>2. Head(requests) = requests[1] /\ 1 \in DOMAIN requests
      BY <3>1
    <3>3. CASE Head(requests) = Gains
      BY <1>11, <2>1, <3>3 DEF Mbed
    <3>4. CASE Head(requests) # Gains
      BY <3>2, <3>4 DEF SpeedsAsked
    <3> QED
      BY <3>3, <3>4
  <2>5. Reported'
    <3>1. responses' = Append(responses, Whole(mbed'.gains))
      BY <1>1, <1>11 DEF Mbed, TypeOK
    <3>2. \A i \in DOMAIN responses' :
            \/ responses'[i] = Whole(mbed'.gains)
            \/ i \in DOMAIN responses /\ responses'[i] = responses[i]
      BY <2>1, <3>1
    <3> QED
      BY <1>2, <2>2, <3>2 DEF Reported, Confirmed, Whole
  <2>6. InLoop' => InLoop
    BY <1>11 DEF Mbed
  <2> QED
    BY <1>2, <2>2, <2>3, <2>4, <2>5, <2>6
<1>12. CASE ReadClosed \/ ReadThrows
  BY <1>4, <1>12 DEF ReadClosed, ReadThrows
<1>13. CASE SpinOnce \/ Return
  BY <1>4, <1>13 DEF SpinOnce, Return
<1>14. CASE \E c \in Commands : Command(c)
  BY <1>4, <1>14 DEF Command
<1>15. CASE Disconnect \/ Interrupt \/ UNCHANGED vars
  BY <1>4, <1>15 DEF Disconnect, Interrupt, vars
<1> QED
  BY <1>5, <1>6, <1>9, <1>10, <1>11, <1>12, <1>13, <1>14, <1>15 DEF Next, Node

(* The board is never given a speed before it runs with the configured     *)
(* gains, however the handshake ends, if responses come in one piece.      *)
THEOREM GainsComeFirst == Spec => []GainsBeforeSpeed
<1>1. Init => Handshake
  <2> SUFFICES ASSUME Init PROVE Handshake
    OBVIOUS
  <2>1. DOMAIN responses = {} /\ DOMAIN requests = {}
    BY DEF Init
  <2>2. mbed.speed = Stop /\ pc = "setPID"
    BY DEF Init
  <2> QED
    BY <2>1, <2>2 DEF Handshake, Reported, SpeedsAsked
<1>2. Handshake => GainsBeforeSpeed
  BY DEF Handshake, GainsBeforeSpeed, SpeedsAsked, Confirmed
<1> QED
  BY <1>1, <1>2, InitType, StepType, StepHandshake, PTL DEF Spec

=============================================================================
