CONSTANTS
  Cap = 4
  Sizes = {3}
  Period = 2
  MaxFrames = 3
  Sockets = {0}
  States <- CoreStates
  DeadSocket <- CoreDead
  PREEMPT = FALSE
SPECIFICATION Spec
INVARIANT TypeOK
INVARIANT PendingPlays
INVARIANT GpadrFollowsDrivers
