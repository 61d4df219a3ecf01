\* Socket 0 under the core's init, set_socket and card suspend, the
\* platform suspend, resume and remove, and the card's interrupts.
CONSTANTS
  Sockets = {0}
  States <- CoreStates
  DeadSocket <- CoreDead
SPECIFICATION Spec
INVARIANT TypeOK
INVARIANT PowerReported
INVARIANT IerCoversState
