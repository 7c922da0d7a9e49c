---------------------------- MODULE MotorController ----------------------------
(***************************************************************************)
(* The motor_controller node (motor_controller.cpp) and the socket it uses *)
(* (EthernetSocket.cpp).  One thread sets the PID gains on the mbed board, *)
(* then sends it the last /motors command and reads its response, period   *)
(* after period.                                                           *)
(*                                                                         *)
(* External and modelled from how the node uses them: the board, which     *)
(* answers every request with its state, TCP, which keeps the order of     *)
(* bytes but not the bounds of messages, and the publishers of /motors.    *)
(* Speeds are members of Commands, the gains are the configured ones or    *)
(* others; battery, encoder and diagnostic values are left out.            *)
(***************************************************************************)
EXTENDS Integers, Sequences

CONSTANTS
  Commands,      \* the speeds that /motors may carry
  Stop,          \* the speed of a command that was never set: zero
  Gains,         \* the request that carries the gains
  WatchdogDelay, \* the parameter watchdog_delay, in periods of the loop
  MaxTorn        \* bound: responses that TCP delivers in two parts

ASSUME ConstantsAssumption ==
  /\ Stop \in Commands
  /\ Gains \notin Commands
  /\ WatchdogDelay \in Nat
  /\ MaxTorn \in Nat

VARIABLES
  pc,                      \* where the thread is
  ros_ok,                  \* ros::ok()
  current_motor_command_,
  last_motors_message_,    \* its age in periods, up to WatchdogDelay + 1
  motors,                  \* the subscriber's queue, one message long
  wanted,                  \* the last command published on /motors
  connection,
  requests,                \* sent and not yet read by the board
  responses,               \* what the board sent and the node has not read
  mbed,                    \* the board's gains and speed
  torn                     \* responses that came in two parts

vars == <<pc, ros_ok, current_motor_command_, last_motors_message_, motors,
          wanted, connection, requests, responses, mbed, torn>>

\* Only the callback of /motors assigns these.
command == <<current_motor_command_, last_motors_message_, motors>>

GainValues == {"configured", "other"}

\* A response, or the part of one that arrived by itself.
Piece == [part : {"whole", "head", "tail"}, gains : GainValues]
Whole(g) == [part |-> "whole", gains |-> g]
Part(p, g) == [part |-> p, gains |-> g]

Init ==
  /\ pc = "setPID"
  /\ ros_ok = TRUE
  /\ current_motor_command_ = Stop
  /\ last_motors_message_ = WatchdogDelay + 1
  /\ motors = << >>
  /\ wanted = Stop
  /\ connection = "up"
  /\ requests = << >>
  /\ responses = << >>
  /\ mbed \in [gains : GainValues, speed : {Stop}]
  /\ torn = 0

-----------------------------------------------------------------------------
(* The socket.                                                             *)

\* sendMessage: an error is ignored, the message is lost.
SendMessage(r) ==
  requests' = IF connection = "up" THEN Append(requests, r) ELSE requests

\* readMessage returns what has arrived, one piece or more.
Arrived == 1..Len(responses)
Chunk(n) == SubSeq(responses, 1, n)
Consume(n) == responses' = SubSeq(responses, n + 1, Len(responses))

\* The bytes begin or end inside a response.
Torn(chunk) == chunk[1].part = "tail" \/ chunk[Len(chunk)].part = "head"

\* The last of several responses overrides the fields of those before it; a
\* torn one lacks fields, which then hold zero, whatever the board holds.
DecodedGains(chunk) ==
  IF Torn(chunk) THEN GainValues ELSE {chunk[Len(chunk)].gains}

\* The fields of a torn response may not even decode, which shuts ROS down.
Decoded(chunk) ==
  \/ UNCHANGED ros_ok
  \/ Torn(chunk) /\ ros_ok' = FALSE

\* The board closed the connection: zero bytes read shut ROS down.  What the
\* node still publishes has no effect after that.
ReadClosed ==
  /\ pc \in {"awaitGains", "response"}
  /\ connection = "closed"
  /\ responses = << >>
  /\ ros_ok' = FALSE
  /\ pc' = "loop"
  /\ UNCHANGED <<command, wanted, connection, requests, responses, mbed, torn>>

\* Any other error is thrown and ends the process.
ReadThrows ==
  /\ pc \in {"awaitGains", "response"}
  /\ connection = "lost"
  /\ pc' = "stopped"
  /\ UNCHANGED <<ros_ok, command, wanted, connection, requests, responses,
                 mbed, torn>>

-----------------------------------------------------------------------------
(* The node.                                                               *)

\* setPID, once per round of its loop.
SendGains ==
  /\ pc = "setPID"
  /\ ros_ok
  /\ SendMessage(Gains)
  /\ pc' = "awaitGains"
  /\ UNCHANGED <<ros_ok, command, wanted, connection, responses, mbed, torn>>

\* Variant: any answer will do.
ValidValues_Any(gains) == TRUE

\* valid_values: the board reports the gains that were sent.
ValidValues(gains) == gains = "configured"

ReadGains ==
  /\ pc = "awaitGains"
  /\ \E n \in Arrived :
       /\ Consume(n)
       /\ Decoded(Chunk(n))
       /\ \E gains \in DecodedGains(Chunk(n)) :
            pc' = IF ValidValues(gains) THEN "loop" ELSE "setPID"
  /\ UNCHANGED <<command, wanted, connection, requests, mbed, torn>>

\* Variant: the request does not carry the command.
SendRequest_AlwaysStop ==
  /\ pc = "loop"
  /\ ros_ok
  /\ SendMessage(Stop)
  /\ pc' = "response"
  /\ UNCHANGED <<ros_ok, command, wanted, connection, responses, mbed, torn>>

\* The age of the command is not looked at: that code is commented out.
SendRequest ==
  /\ pc = "loop"
  /\ ros_ok
  /\ SendMessage(current_motor_command_)
  /\ pc' = "response"
  /\ UNCHANGED <<ros_ok, command, wanted, connection, responses, mbed, torn>>

\* Variant: the read does not wait for the response.
RecieveResponse_DoesNotWait ==
  /\ pc = "response"
  /\ pc' = "spin"
  /\ UNCHANGED <<ros_ok, command, wanted, connection, requests, responses, mbed,
                 torn>>

RecieveResponse ==
  /\ pc = "response"
  /\ \E n \in Arrived : Consume(n) /\ Decoded(Chunk(n))
  /\ pc' = "spin"
  /\ UNCHANGED <<command, wanted, connection, requests, mbed, torn>>

\* spinOnce runs cmdCallback if a command is queued; then a period goes by.
SpinOnce ==
  /\ pc = "spin"
  /\ \/ /\ ros_ok
        /\ motors # << >>
        /\ current_motor_command_' = Head(motors)
        /\ last_motors_message_' = 0
        /\ motors' = << >>
     \/ /\ ~ros_ok \/ motors = << >>
        /\ last_motors_message_' = IF last_motors_message_ > WatchdogDelay
                                   THEN last_motors_message_
                                   ELSE last_motors_message_ + 1
        /\ UNCHANGED <<current_motor_command_, motors>>
  /\ pc' = "loop"
  /\ UNCHANGED <<ros_ok, wanted, connection, requests, responses, mbed, torn>>

\* Both loops end when ROS has shut down, and so does the node.
Return ==
  /\ pc \in {"setPID", "loop"}
  /\ ~ros_ok
  /\ pc' = "stopped"
  /\ UNCHANGED <<ros_ok, command, wanted, connection, requests, responses, mbed,
                 torn>>

Node ==
  \/ SendGains
  \/ ReadGains
  \/ SendRequest
  \/ RecieveResponse
  \/ ReadClosed
  \/ ReadThrows
  \/ SpinOnce
  \/ Return

-----------------------------------------------------------------------------
(* The environment.                                                        *)

\* Variant: the queue keeps the older message as well.
Enqueue_KeepsOld(c) == Append(motors, c)

\* The queue holds one message: a new one takes the place of the old.
Enqueue(c) == <<c>>

Command(c) ==
  /\ motors' = Enqueue(c)
  /\ wanted' = c
  /\ UNCHANGED <<pc, ros_ok, current_motor_command_, last_motors_message_,
                 connection, requests, responses, mbed, torn>>

\* The board takes the next request and answers with what it then holds; it
\* may fail to take over gains.
Mbed ==
  /\ connection = "up"
  /\ requests # << >>
  /\ requests' = Tail(requests)
  /\ mbed' \in IF Head(requests) = Gains
               THEN {mbed, [mbed EXCEPT !.gains = "configured"]}
               ELSE {[mbed EXCEPT !.speed = Head(requests)]}
  /\ \/ /\ responses' = Append(responses, Whole(mbed'.gains))
        /\ UNCHANGED torn
     \/ /\ torn < MaxTorn
        /\ torn' = torn + 1
        /\ responses' = responses \o <<Part("head", mbed'.gains),
                                       Part("tail", mbed'.gains)>>
  /\ UNCHANGED <<pc, ros_ok, command, wanted, connection>>

\* The board closes the connection, or it breaks.
Disconnect ==
  /\ connection = "up"
  /\ connection' \in {"closed", "lost"}
  /\ UNCHANGED <<pc, ros_ok, command, wanted, requests, responses, mbed, torn>>

\* The user or a required node ends the launch.
Interrupt ==
  /\ ros_ok
  /\ ros_ok' = FALSE
  /\ UNCHANGED <<pc, command, wanted, connection, requests, responses, mbed,
                 torn>>

Next ==
  \/ Node
  \/ \E c \in Commands : Command(c)
  \/ Mbed
  \/ Disconnect
  \/ Interrupt

Spec == Init /\ [][Next]_vars

\* The node is scheduled, and the board answers while it is connected.
FairSpec == Spec /\ WF_vars(Node) /\ WF_vars(Mbed)

-----------------------------------------------------------------------------
(* The queue holds one command at most, the age is capped, and only TCP    *)
(* decides how the pieces of responses look.                               *)
TypeOK ==
  /\ pc \in {"setPID", "awaitGains", "loop", "response", "spin", "stopped"}
  /\ ros_ok \in BOOLEAN
  /\ current_motor_command_ \in Commands
  /\ last_motors_message_ \in 0..WatchdogDelay + 1
  /\ motors \in Seq(Commands) /\ Len(motors) <= 1
  /\ wanted \in Commands
  /\ connection \in {"up", "closed", "lost"}
  /\ requests \in Seq(Commands \union {Gains})
  /\ responses \in Seq(Piece)
  /\ mbed \in [gains : GainValues, speed : Commands]
  /\ torn \in 0..MaxTorn

(* The node and the board keep in step: what is under way between them is  *)
(* one request or its response, and one piece more for each response that  *)
(* came in parts.  So a response read is that old at most, and commands do *)
(* not queue up in front of a board that is slow.                          *)
InStep == Len(requests) + Len(responses) <= 1 + torn

(* The handshake: the board is never given a speed before it runs with the *)
(* configured gains, however the handshake ends (confirmed, interrupted,   *)
(* connection closed), as long as every response comes in one piece.       *)
GainsBeforeSpeed ==
  /\ torn = 0
  /\ mbed.speed # Stop \/ \E i \in DOMAIN requests : requests[i] # Gains
  => mbed.gains = "configured"

(* Once the gains are confirmed, the board runs at the last command that   *)
(* was published, although the queue drops older ones, unless the node     *)
(* stops or the connection ends.                                           *)
LastCommandArrives ==
  \A c \in Commands :
    wanted = c /\ pc \in {"loop", "response", "spin"}
    ~> wanted # c \/ mbed.speed = c \/ ~ros_ok \/ connection # "up"

(* Header: seconds to wait before stopping if no new motors command comes  *)
(* in.  So a request after that time asks for zero speed.                  *)
StopsWithoutCommand ==
  [][pc = "loop" /\ last_motors_message_ > WatchdogDelay
     /\ Len(requests') > Len(requests)
     => requests'[Len(requests')] = Stop]_vars

=============================================================================
