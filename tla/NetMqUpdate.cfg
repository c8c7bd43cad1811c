SPECIFICATION Spec
CONSTANTS
  QueuePairs = 2
  MaxGen = 1
  MaxUpdates = 1
  MaxRxPost = 0
  MaxTxPost = 0
  MaxPkts = 0
  TxCanFail = FALSE
  NoTap = NoTap
  CtrlVq = FALSE
  MaxCtrl = 0
  CtrlSync = TRUE
  CtrlCmds <- MCCtrlCmds
PROPERTIES
  UpdateSendsEveryPairATap
CHECK_DEADLOCK FALSE
