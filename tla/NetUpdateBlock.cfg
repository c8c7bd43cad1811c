\* One queue pair, one update_config and two activations: a deactivate
\* and a re-activate before the iothread has handled the update leave
\* update_evt readable for the new handler, whose channel is empty.
SPECIFICATION Spec
CONSTANTS
  QueuePairs = 1
  MaxGen = 2
  MaxUpdates = 1
  MaxRxPost = 0
  MaxTxPost = 0
  MaxPkts = 0
  TxCanFail = FALSE
  NoTap = NoTap
  CtrlVq = FALSE
  MaxCtrl = 0
  CtrlSync = TRUE
  CtrlCmds <- MCCtrlCmds
INVARIANTS
  NoBlockingRecv
CHECK_DEADLOCK FALSE
