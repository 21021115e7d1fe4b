SPECIFICATION MCSpec
CONSTANTS
  Streams = {1}
  InitWindow = 1
  MaxWindow = 4
  ConnChannel = 2
  StreamChannel = 3
  Frames <- MCFrames
  Sizes = {0, 2}
  MaxFrames = 4
  MostInOrder = 5
INVARIANTS TypeOK NoPanic TrailersInOrder TrailersWereAnnounced HeaderDecoderInStep DispatchedOnce WholeHeaderBlocks ServerClosesLast TasksInStep TrailersInStep
PROPERTIES AnsweredForGood
CHECK_DEADLOCK FALSE
