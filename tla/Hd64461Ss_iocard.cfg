CONSTANTS
  Sockets = {0, 1}
  States <- CoreStates
  DeadSocket <- CoreDead
SPECIFICATION Spec
INVARIANT CardTypeAgrees
