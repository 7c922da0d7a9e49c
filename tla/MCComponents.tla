---------------------------- MODULE MCComponents ----------------------------
(***************************************************************************)
(* The parts of the software that do not work on each other's data, side   *)
(* by side: a behaviour chooses one of them and moves nothing else.        *)
(***************************************************************************)
EXTENDS Codec, GraphSearch, YostLabDriver, Costmaps, LocalCostmap, NavigationClient, Driving

CONSTANT Parts                 \* those of a run

ConfigurationSpacesMC == {0, 3, 5}
QueueNodesMC == {<<0, 0>>, <<0, 1>>, <<1, 1>>}

\* The corners of a map of 4 by 3 cells, and two sights of a camera in it.
PluginsMC == <<"traversability", "line">>
MinOccupancyMC == -1
SlopeMapsMC == {[p \in {<<3, 2>>, <<1, 1>>} |-> TRUE], [p \in {<<3, 2>>, <<4, 2>>} |-> FALSE]}
ImagesMC == {[camera |-> <<0, 0>>, lines |-> {<<0, 0>>, <<2, 0>>}, freespace |-> {<<0, 0>>}],
             [camera |-> <<1, 0>>, lines |-> {}, freespace |-> {<<0, 0>>}]}
UninitialisedMC == {NoWindow, [min |-> <<0, 0>>, max |-> <<1, 1>>]}

OriginsMC == (1..3) \X (1..2)
GlobalMapsMC == {[i \in 0..29 |-> IF i % 4 = 0 THEN 100 ELSE IF i % 3 = 0 THEN -1 ELSE 0],
                 [i \in 0..29 |-> IF i % 5 = 0 THEN 100 ELSE 99]}
OffsetsMC == -4..7

Decimal(seconds) == [dms |-> FALSE, numbers |-> <<seconds>>, apostrophe |-> FALSE, direction |-> "none"]
Dms(numbers, apostrophe, direction) ==
  [dms |-> TRUE, numbers |-> numbers, apostrophe |-> apostrophe, direction |-> direction]
Line(tokens) == [comment |-> FALSE, tokens |-> tokens]
Comment == [comment |-> TRUE, tokens |-> <<>>]
North == Dms(<<33, 46, 24>>, TRUE, "N")
West  == Dms(<<84, 24, 36>>, TRUE, "W")
WaypointFilesMC ==
  {<<Comment, Line(<<Decimal(5), Decimal(-7)>>), Line(<<>>), Line(<<North, West>>), Line(<<Decimal(5), West>>)>>,
   <<Line(<<North, West>>), Line(<<Decimal(5)>>), Line(<<Dms(<<33, 46>>, TRUE, "N"), West>>)>>,
   <<Line(<<Decimal(5), Decimal(-7)>>), Line(<<Dms(<<33, 46>>, TRUE, "N"), West>>), Line(<<Decimal(5)>>)>>,
   <<Line(<<Dms(<<33, 46>>, FALSE, "S"), West>>), Line(<<North, West>>)>>}

SpeedsMC == {-8, 6}
RotationsMC == {4}
AxesMC == {-100, 30}

-----------------------------------------------------------------------------
(* The codec: messages of two levels at most.                              *)

NoEncode(o, descriptor, m) == FailedO(o)
NoDefault(f, cell) == FALSE
NoDefaults(descriptor) == <<>>
NoDecode(s, descriptor, m) == Read(FailedI(s), m)
Inner == INSTANCE Nanopb WITH encode_nested <- NoEncode, is_default_nested <- NoDefault,
                              defaults_nested <- NoDefaults, decode_nested <- NoDecode
InnerEncode(o, descriptor, m) == Inner!pb_encode(o, descriptor, m)
InnerIsDefault(f, cell) == Inner!pb_check_proto3_default_value(f, cell)
InnerDefaults(descriptor) == Inner!pb_message_set_to_defaults(descriptor)
InnerDecode(s, descriptor, m) == Inner!pb_decode_noinit(s, descriptor, m)

\* A descriptor with every kind of field that the robot's messages do not use.
Sub_fields == << PB_FIELD(1, "UVARINT", "REQUIRED", "x", 1, {}) >>
Every_fields ==
  << PB_FIELD(1, "SVARINT", "REQUIRED", "s", 2, {}),
     PB_FIELD(2, "BYTES", "OPTIONAL", "b", 3, {}),
     PB_SINGULAR_STATIC(PB_FIELD(3, "STRING", "OPTIONAL", "t", 3, {})),
     PB_REPEATED_STATIC(PB_FIELD(4, "FIXED64", "REPEATED", "p", 8, {}), 2),
     PB_REPEATED_STATIC(PB_FIELD(5, "STRING", "REPEATED", "u", 2, {}), 2),
     PB_FIELD(6, "SUBMESSAGE", "OPTIONAL", "m", 0, Sub_fields),
     PB_FIELD(7, "VARINT", "ONEOF", "o", 8, {}),
     PB_FIELD(8, "SUBMESSAGE", "ONEOF", "o", 0, Sub_fields),
     PB_FIELD(9, "FIXED_LENGTH_BYTES", "OPTIONAL", "f", 2, {}),
     PB_REPEATED_FIXED_COUNT(PB_FIELD(10, "UVARINT", "REPEATED", "c", 1, {}), 2),
     PB_SINGULAR_STATIC(PB_FIELD(11, "VARINT", "OPTIONAL", "v", 1, {})) >>

Items(v) == [size |-> 0, data |-> v]
Empty(f) == pb_message_set_to_defaults(f)
Minus1 == 0..15

SubOf(v) == [x |-> [size |-> FALSE, data |-> v]]
OtherMessagesMC ==
  {[fields |-> Every_fields, msg |-> m] : m \in
    {[Empty(Every_fields) EXCEPT !.s = [size |-> FALSE, data |-> Minus1], !.t.data = <<{0}>>,
                                 !.c = Items(<<{}, {0}>>)],
     [Empty(Every_fields) EXCEPT !.s = [size |-> FALSE, data |-> {0, 9}], !.b = Has(<<{}, {7}>>),
                                 !.p = Items(<<{0, 63}, {}>>), !.u = Items(<<<<{1}>>, <<>>>>),
                                 !.c = Items(<<{7}, {0, 1}>>), !.v.data = 0..7],
     [Empty(Every_fields) EXCEPT !.m = Has(SubOf({7})), !.o = [size |-> 7, data |-> Word64],
                                 !.f = Has(<<{1}, {}>>), !.c = Items(<<{}, {}>>)],
     [Empty(Every_fields) EXCEPT !.o = [size |-> 8, data |-> SubOf({})], !.c = Items(<<{1}, {1}>>)]}}

\* Messages of the robot: some fields set, each to zero or to some other value.
RobotMessagesMC ==
  {[fields |-> f, msg |-> [x \in Slots(f) |-> IF x \in {f[i].slot : i \in set} THEN Has(v)
                                              ELSE Empty(f)[x]]] :
     f \in {RequestMessage_fields, ResponseMessage_fields},
     set \in {{}, {1}, {2, 7}, {7, 8}, 1..10}, v \in {{}, {0}}}
  \cup {[fields |-> ResponseMessage_fields,
         msg |-> [x \in Slots(ResponseMessage_fields) |-> Has(v)]] : v \in {{}, {0}}}

\* Fields that neither descriptor knows, of every wire type.
UnknownFieldsMC ==
  {[tag |-> 257, wire |-> WT_VARINT, value |-> {0}],
   [tag |-> 257, wire |-> WT_64BIT, value |-> [i \in 1..8 |-> {i - 1}]],
   [tag |-> 257, wire |-> WT_STRING, value |-> <<{3}, {3}>>],
   [tag |-> 257, wire |-> WT_32BIT, value |-> [i \in 1..4 |-> {3}]]}

\* Bits near the borders of a varint's groups, of 32 and of 64 bits.
WordBitsMC == {{0}, {6}, {7}, {27}, {28}, {30}, {31}, 32..62, {34}, {35}, {63}}

VARIABLE part                  \* the part that moves

-----------------------------------------------------------------------------
\* A part that does not move begins in some state of its own.
Init ==
  /\ part \in Parts
  /\ CodecInit /\ (part # "codec" => fields = RequestMessage_fields /\ msg = Empty(fields))
  /\ WordInit
  /\ GraphInit /\ EmptyQueue /\ ImuInit /\ CostmapInit
  /\ RollingInit /\ (part # "rolling" => origin = <<1, 1>> /\ received[1] = 0)
  /\ UnrollingInit /\ (part # "unrolling" => update.x = 0 /\ update.y = 0 /\ update.length_x = 1 /\ update.length_y = 1)
  /\ ClientInit /\ (part # "client" => reading_from_file_ = FALSE)
  /\ DrivingInit /\ (part # "driving" => obstacle = obstacle_distance_)

vars == <<part, codecVars, word, graphVars, queueVars, imuVars, costmapVars,
          rollingVars, update, clientVars, drivingVars>>

Next ==
  \/ /\ part = "codec" /\ CodecNext
     /\ UNCHANGED <<part, word, graphVars, queueVars, imuVars, costmapVars, rollingVars, update, clientVars, drivingVars>>
  \/ /\ part = "varint" /\ SetBits
     /\ UNCHANGED <<part, codecVars, graphVars, queueVars, imuVars, costmapVars, rollingVars, update, clientVars, drivingVars>>
  \/ /\ part = "graph" /\ GraphNext
     /\ UNCHANGED <<part, codecVars, word, queueVars, imuVars, costmapVars, rollingVars, update, clientVars, drivingVars>>
  \/ /\ part = "queue" /\ QueueNext
     /\ UNCHANGED <<part, codecVars, word, graphVars, imuVars, costmapVars, rollingVars, update, clientVars, drivingVars>>
  \/ /\ part = "imu" /\ ImuNext
     /\ UNCHANGED <<part, codecVars, word, graphVars, queueVars, costmapVars, rollingVars, update, clientVars, drivingVars>>
  \/ /\ part = "costmaps" /\ CostmapNext
     /\ UNCHANGED <<part, codecVars, word, graphVars, queueVars, imuVars, rollingVars, update, clientVars, drivingVars>>
  \/ /\ part = "rolling" /\ RollingNext
     /\ UNCHANGED <<part, codecVars, word, graphVars, queueVars, imuVars, costmapVars, update, clientVars, drivingVars>>
  \/ /\ part = "client" /\ ClientNext
     /\ UNCHANGED <<part, codecVars, word, graphVars, queueVars, imuVars, costmapVars, rollingVars, update, drivingVars>>
  \/ /\ part = "driving" /\ DrivingNext
     /\ UNCHANGED <<part, codecVars, word, graphVars, queueVars, imuVars, costmapVars, rollingVars, update, clientVars>>
Spec == Init /\ [][Next]_vars

=============================================================================
