CONSTANTS
  SeqLen = 5
  NumDupAck = 3
  InitSsthresh = 10
  InitAckRatios = {1}
  SMP = FALSE
  MaxSeq = 7
  MaxCwnd = 4
  MaxRunLen = 1
  MaxVecLen = 2
  MaxCoverage = 3
  MaxHandlers = 1
  AckStates = {"Received", "EcnMarked", "NotReceived"}
SPECIFICATION Spec
INVARIANT NoWindowOverflow
