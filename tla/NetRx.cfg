\* One queue pair, one activation, no hot reconfiguration: the rx
\* backpressure path (Park / Resume) and the tx path without errors.
SPECIFICATION Spec
CONSTANTS
  QueuePairs = 1
  MaxGen = 1
  MaxUpdates = 0
  MaxRxPost = 2
  MaxTxPost = 1
  MaxPkts = 2
  TxCanFail = FALSE
  NoTap = NoTap
  CtrlVq = FALSE
  MaxCtrl = 0
  CtrlSync = TRUE
  CtrlCmds <- MCCtrlCmds
INVARIANTS
  TypeOK
  RxBuffersConserved
  ListeningMatchesRegistry
PROPERTIES
  RxProgress
  RxServiceRefined
CHECK_DEADLOCK FALSE
