SPECIFICATION ScenarioSpec
CONSTANTS
  Streams = {1, 3}
  InitWindow = 1
  ClientWindows = {0, 1}
  MaxWindow = 8
  ConnChannel = 2
  StreamChannel = 2
  ClientFrames <- AnyFrame
  Scenarios <- TrafficScenarios
  MaxFrames = 4
  ReaderChannel = 1
  Permits = 1
  Sizes = {2}
  HeaderOutcomes = {"plain", "trailer", "malformed"}
  TrailerOutcomes = {"fields", "empty"}
  GoawayIds = 4
  MaxFrameSize = 10
  MaxStreams = 3
  CountModulus = 8
INVARIANTS TypeOK ContextFaithful ShortIdsCovered ResponseInOrder CreditRespected
PROPERTIES SilentAfterGoaway KeepsContract
CHECK_DEADLOCK FALSE
