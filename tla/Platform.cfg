SPECIFICATION PlatformSpec
CONSTANTS
  RxBufNb = 3
  PoolSize = 2
  MaxFrames = 6
  BadFrames = {5}
  TxBufNb = 3
  Parts = 2
  TxFrames = 6
  Contexts = {"main"}
  MemSize = 14
  HdrSize = 1
  MinSize = 2
  PoolPbufs = 3
  BufSize = 2
  HeaderLen = 1
  MaxLen = 4
  MaxOwners = 2
  Timers = 3
  Period <- MCPeriod
  Tick = 3
  LoopWrap = 32
  Lag = 2
  Recurring = {"reass", "arp"}
  OneShot = {"user"}
  TcpTimer = "tcp"
  Interval <- MCInterval
  Delays = {1, 3}
  NumTimeouts = 4
  NowWrap = 8
  MaxGap = 4
INVARIANTS RingInTurn PoolConserved TxInTurn OnlyFullRingOverwrites HeapSound FailsOnlyWhenFull RefsSound LengthsSound NotLate ArmedOnce
PROPERTIES ImplementsChannel IrqServesRing ImplementsQueue GivenFrameSent ImplementsAllocator NotEarly ImplementsTimerSet
CHECK_DEADLOCK FALSE
