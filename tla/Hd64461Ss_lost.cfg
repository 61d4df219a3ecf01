CONSTANTS
  Sockets = {0}
  States <- CoreStates
  DeadSocket <- CoreDead
SPECIFICATION Spec
INVARIANT NoLostChange
