SPECIFICATION ScenarioFairSpec
CONSTANTS
  Streams = {1, 3}
  InitWindow = 1
  ClientWindows = {1}
  MaxWindow = 8
  ConnChannel = 2
  StreamChannel = 2
  ClientFrames <- AnyFrame
  Scenarios <- ProgressScenarios
  MaxFrames = 4
  ReaderChannel = 1
  Permits = 1
  Sizes = {2}
  HeaderOutcomes = {"plain", "trailer"}
  TrailerOutcomes = {"fields", "malformed"}
  GoawayIds = 4
  MaxFrameSize = 10
  MaxStreams = 3
  CountModulus = 8
PROPERTIES EveryTaskEnds RequestsAnswered
CHECK_DEADLOCK FALSE
