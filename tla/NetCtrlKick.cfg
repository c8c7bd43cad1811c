\* A driver that posts a second control command before the first is
\* answered, each with its own kick: the kicks coalesce in the ctrl queue
\* eventfd and handle_ctrl pops one command per callback.
SPECIFICATION Spec
CONSTANTS
  QueuePairs = 1
  MaxGen = 1
  MaxUpdates = 0
  MaxRxPost = 0
  MaxTxPost = 0
  MaxPkts = 0
  TxCanFail = FALSE
  NoTap = NoTap
  CtrlVq = TRUE
  MaxCtrl = 2
  CtrlSync = FALSE
  CtrlCmds <- MCCtrlCmds
PROPERTIES
  CtrlProgress
CHECK_DEADLOCK FALSE
