SPECIFICATION ScenarioSpec
CONSTANTS
  Streams = {1, 3}
  InitWindow = 2
  ClientWindows = {1, 2}
  MaxWindow = 8
  ConnChannel = 2
  StreamChannel = 2
  ClientFrames <- AnyFrame
  MaxFrames = 2
  Scenarios <- SmallScenarios
  ReaderChannel = 1
  Permits = 1
  Sizes = {2}
  HeaderOutcomes = {"plain", "malformed"}
  TrailerOutcomes = {"fields"}
  GoawayIds = 4
  MaxFrameSize = 10
  MaxStreams = 4
  CountModulus = 8
INVARIANTS AllowanceRespected
CHECK_DEADLOCK FALSE
