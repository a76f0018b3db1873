SPECIFICATION FairSpec
CONSTANTS
  MaxLen = 18
  MaxRead = 3
  MaxDst = 18
  MaxPieces = 3
  Streams <- MCStreams
INVARIANTS FramesInOrder
PROPERTIES EveryFrameDelivered
