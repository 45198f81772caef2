SPECIFICATION Spec
CONSTANTS
  NumPcbs = 2
  MaxRtx = 2
  SynMaxRtx = 1
  RtxModulus = 3
  FinWait = 1
  SynRcvd = 1
  Msl2 = 1
  CallbacksChange = TRUE
INVARIANT FirstPcb
CHECK_DEADLOCK FALSE
