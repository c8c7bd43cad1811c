SPECIFICATION Spec
CONSTANTS
  QueuePairs = 1
  MaxGen = 2
  MaxUpdates = 0
  MaxRxPost = 0
  MaxTxPost = 0
  MaxPkts = 0
  TxCanFail = FALSE
  NoTap = NoTap
  CtrlVq = FALSE
  MaxCtrl = 0
  CtrlSync = TRUE
  CtrlCmds <- MCCtrlCmds
INVARIANTS
  NoLoopError
CHECK_DEADLOCK FALSE
