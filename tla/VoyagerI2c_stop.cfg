CONSTANTS
  DEF_TIMEOUT = 3
  RETRIES = 2
  PACKET_SIZE = 2
  WRITE_ADDR = 66
  READ_ADDR = 67
  Acks = {66, 67}
  Msgs <- MCMsgs
  SreadLens = {2}
SPECIFICATION Spec
INVARIANT StoppedWhenIdle
