SPECIFICATION FairSpec
CONSTANTS
  RxBufNb = 3
  PoolSize = 1
  MaxFrames = 5
  BadFrames = {}
PROPERTIES EveryFrameServed
CHECK_DEADLOCK FALSE
