CONSTANTS
  SeqLen = 5
  NumDupAck = 3
  InitSsthresh = 10
  InitAckRatios = {1}
  SMP = FALSE
  MaxSeq = 4
  MaxCwnd = 3
  MaxRunLen = 1
  MaxVecLen = 1
  MaxCoverage = 3
  MaxHandlers = 1
  AckStates = {"Received", "NotReceived"}
SPECIFICATION Spec
INVARIANT ScanAcksReported
