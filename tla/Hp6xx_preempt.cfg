CONSTANTS
  Cap = 4
  Sizes = {3}
  Period = 2
  MaxFrames = 3
  Sockets = {0}
  States <- CoreStates
  DeadSocket <- CoreDead
  PREEMPT = TRUE
SPECIFICATION Spec
INVARIANT GpadrFollowsDrivers
