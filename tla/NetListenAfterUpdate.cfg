SPECIFICATION Spec
CONSTANTS
  QueuePairs = 1
  MaxGen = 1
  MaxUpdates = 1
  MaxRxPost = 2
  MaxTxPost = 0
  MaxPkts = 2
  TxCanFail = FALSE
  NoTap = NoTap
  CtrlVq = FALSE
  MaxCtrl = 0
  CtrlSync = TRUE
  CtrlCmds <- MCCtrlCmds
INVARIANTS
  ListeningMatchesRegistry
CHECK_DEADLOCK FALSE
