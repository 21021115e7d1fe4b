SPECIFICATION OrderSpec
CONSTANTS
  Streams = {1, 3}
  InitWindow = 1
  MaxWindow = 8
  ConnChannel = 2
  StreamChannel = 2
  ClientFrames <- RequestFrames
  MaxFrames = 2
  ReaderChannel = 1
  Permits = 1
  Sizes = {2}
  HeaderOutcomes = {"plain", "malformed"}
  TrailerOutcomes = {"fields"}
  GoawayIds = 4
  MaxFrameSize = 10
  MaxStreams = 4
  CountModulus = 8
INVARIANTS DecodedInOrder
CHECK_DEADLOCK FALSE
