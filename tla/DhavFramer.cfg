SPECIFICATION FairSpec
CONSTANTS
  MaxLen = 10
  MaxRead = 3
  MaxDst = 10
  MaxPieces = 3
  Streams <- MCStreams
INVARIANTS TypeOK HoldsTail FramesInOrder FailsOnLargeFrame
PROPERTIES EveryFrameDelivered
