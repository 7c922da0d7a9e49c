SPECIFICATION Spec
CONSTANTS
  Parts = {"codec", "varint", "graph", "queue", "imu", "costmaps", "rolling", "unrolling", "client", "driving"}
  encode_nested <- InnerEncode
  is_default_nested <- InnerIsDefault
  defaults_nested <- InnerDefaults
  decode_nested <- InnerDecode
  RobotMessages <- RobotMessagesMC
  OtherMessages <- OtherMessagesMC
  UnknownFields <- UnknownFieldsMC
  MaxSwaps = 1
  MaxForeign = 1
  WordBits <- WordBitsMC
  length_ = 2
  width_ = 4
  resolution_ = 2
  ConfigurationSpaces <- ConfigurationSpacesMC
  Unit = 2
  CellValues = {0, 100, 255}
  MaxMarked = 2
  QueueNodes <- QueueNodesMC
  KeyParts = {1, 2}
  MaxMessages = 3
  MaxTorn = 2
  Plugins <- PluginsMC
  SizeX = 4
  SizeY = 3
  MinOccupancy <- MinOccupancyMC
  MaxOccupancy = 1
  SlopeMaps <- SlopeMapsMC
  Images <- ImagesMC
  BufferSize = 3
  ClosingSize = 1
  MaxSquaredDistance = 4
  MaxScans = 2
  Uninitialised <- UninitialisedMC
  GlobalX = 6
  GlobalY = 5
  LocalX = 3
  LocalY = 2
  Origins <- OriginsMC
  GlobalMaps <- GlobalMapsMC
  Excess = 1
  Offsets <- OffsetsMC
  Lengths = {1, 3}
  WaypointFiles <- WaypointFilesMC
  Unreadable = Unreadable
  RvizPoses = {r1, r2}
  Transforms = {1, 2}
  MaxRviz = 2
  threshold_distance_ = 2
  obstacle_distance_ = 2
  velocity_ = 2
  QueueSize = 2
  StepLength = 1
  MaxCoast = 1
  max_vel_ = 5
  Speeds <- SpeedsMC
  Rotations <- RotationsMC
  absoluteMaxVel = 8
  maxVelIncr = 4
  InitialMaxVel = 16
  Axes <- AxesMC
INVARIANTS
  RoundTrip
  TruncationNoticed
  VarintsAgree
  KeepsClearance
  CostsAreConsistent
  NeighboursAgree
  
  QueueInOrder
  PublishedFromOneMessage
  WholeMessagesArePublished
  LagsOnlyWhereDirty
  MasterShowsMaps
  LocalShowsGlobal
  UnrollsInPlace
  GoalsFollowFile
  RecoveryEndsStopped
  WheelLimits
CHECK_DEADLOCK FALSE
