SPECIFICATION Spec
CONSTANTS
  StreamLen = 5
  Sizes = {2, 3}
  Copies = {TRUE}
  Msses = {2}
  Wnd = 4
  SndBuf = 4
  SndQueueLen = 4
  MaxRtx = 2
  RtxModulus = 4
  SeqModulus = 32
  Iss = 30
  MaxFaults = 1
  Passive = FALSE
PROPERTY Delivered
CHECK_DEADLOCK FALSE
