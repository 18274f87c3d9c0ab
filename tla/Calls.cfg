SPECIFICATION MCSpec
CONSTANTS
  Samplers = {s1, s2, s3}
  Tracers = {t1, t2}
  TheCounter = TheCounter
  Exps = {1, 2, 60}
  TooBig = {60}
  Progs = {1, 2, 3}
  MaxProgs = 3
  Bits = 3
  BufLens <- AllLens
  Wraps = TRUE
  Types = {5, 0}
  Breakpoint = 5
  Configs = {0, 1}
  BpTypes = {1, 2}
  Placeable <- SomePlaceable
  Levels = {400, 403, 407, 412, 507, 513, 619}
  LeaderAsks <- SomeLeaders
  SiblingAsks <- SomeSiblings
  WithSibling <- SomeWithSibling
  LeaderFormats <- AllFormats
  SiblingFormats <- FullSiblingFormat
  MaxSiblings = 2
  MaxMoves = 2
  Bases = {0}
  FlagSets <- MCSets
  EmptyStacks = FALSE
  UserRegs = 3
  IntrRegs = 2
  Kinds <- MCKinds
  Lengths = {1, 3, 7, 8, 9}
  NamespacesWithId = FALSE
  Width = 6
  MaxMarker = 15
  Contexts <- MCContexts
  Known <- MCKnown
  Marker <- MCMarker
  Ips = {0, 7, 48}
  Cookies = {0, 61}
  MaxStack = 4
  MaxContexts = 8
INVARIANTS
  OneLiveSampler RefusedOnlyWhenActive AuxRefusedOnlyForTracers
  WritesFit AnswerIsExact
  OkMeansSwitched RefusedForItself
  OnlyDroppedIgnored
  BufferFits ParseInBounds StatIsExact
  FieldsAreExact StaysInRecord ChainsAreExact
PROPERTY UpgradeKeeps
CHECK_DEADLOCK FALSE
