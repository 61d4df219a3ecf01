CONSTANTS
  SeqLen = 5
  NumDupAck = 3
  InitSsthresh = 10
  InitAckRatios = {1}
  SMP = FALSE
  MaxSeq = 7
  MaxCwnd = 3
  MaxRunLen = 4
  MaxVecLen = 1
  MaxCoverage = 5
  MaxHandlers = 1
  AckStates = {"Received", "NotReceived"}
SPECIFICATION Spec
PROPERTY AcksOnlyLiveRecords
