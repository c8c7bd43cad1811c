SPECIFICATION Spec
CONSTANTS
  QueuePairs = 1
  MaxGen = 1
  MaxUpdates = 2
  MaxRxPost = 0
  MaxTxPost = 0
  MaxPkts = 0
  TxCanFail = FALSE
  NoTap = NoTap
  CtrlVq = FALSE
  MaxCtrl = 0
  CtrlSync = TRUE
  CtrlCmds <- MCCtrlCmds
INVARIANTS
  ChannelDrained
CHECK_DEADLOCK FALSE
