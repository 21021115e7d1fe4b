SPECIFICATION FairSpec
CONSTANTS
  Streams = {1, 3}
  InitWindow = 1
  MaxWindow = 8
  ConnChannel = 1
  StreamChannel = 1
  ClientFrames <- ContendingFrames
  MaxFrames = 3
  ReaderChannel = 1
  Permits = 1
  Sizes = {2}
  HeaderOutcomes = {"plain", "malformed"}
  TrailerOutcomes = {"fields"}
  GoawayIds = 4
  MaxFrameSize = 10
  MaxStreams = 4
  CountModulus = 8
PROPERTIES ChannelIsRead
CHECK_DEADLOCK FALSE
