\* CSCIER against the core's csc_mask across a platform suspend and resume.
CONSTANTS
  Sockets = {0}
  States <- CoreStates
  DeadSocket <- CoreDead
SPECIFICATION Spec
INVARIANT IerFollowsState
