CONSTANTS
  DEF_TIMEOUT = 3
  RETRIES = 2
  PACKET_SIZE = 2
  WRITE_ADDR = 66
  READ_ADDR = 67
  Acks <- MCAcksTwo
  Msgs <- MCMsgs
  SreadLens = {2}
SPECIFICATION Spec
INVARIANT DataAtMsgAddress
