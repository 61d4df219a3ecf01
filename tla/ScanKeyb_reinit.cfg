CONSTANTS
  hp620 = hp620
  hp680 = hp680
  pA = pA
  pB = pB
  pUnused = pUnused
  NoKbd = NoKbd
  Kbds <- MCTwoKbds
  Positions <- MCSmallPositions
  Code <- MCCode
SPECIFICATION Spec
INVARIANT NoTimerReinit
