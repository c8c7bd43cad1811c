\* One queue pair, two update_config calls (with and without a tap) around
\* an activation, deactivation, guest tx and rx traffic: the tx used ring
\* across tap changes, beside a control queue whose synchronous driver
\* posts valid and rejected commands.
SPECIFICATION Spec
CONSTANTS
  QueuePairs = 1
  MaxGen = 1
  MaxUpdates = 2
  MaxRxPost = 1
  MaxTxPost = 1
  MaxPkts = 1
  TxCanFail = FALSE
  NoTap = NoTap
  CtrlVq = TRUE
  MaxCtrl = 2
  CtrlSync = TRUE
  CtrlCmds <- MCCtrlCmds
INVARIANTS
  TxBuffersConserved
  NoSilentDrop
CHECK_DEADLOCK FALSE
