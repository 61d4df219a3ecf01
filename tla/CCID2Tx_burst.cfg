CONSTANTS
  SeqLen = 10
  NumDupAck = 3
  InitSsthresh = 10
  InitAckRatios = {1}
  SMP = FALSE
  MaxSeq = 8
  MaxCwnd = 5
  MaxRunLen = 0
  MaxVecLen = 3
  MaxCoverage = 3
  MaxHandlers = 1
  AckStates = {"Received", "NotReceived"}
SPECIFICATION Spec
PROPERTY SlowStartBurstBounded
