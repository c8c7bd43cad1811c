CONSTANTS
  NoMac = NoMac
  NoTaps = NoTaps
  NoConf = NoConf
  MaxSteps = 4
  Cfgs <- MCCfgs
  InitCfg <- MCInitCfg
  DriverWrites <- MCDriverWrites
  ConfigWrites <- MCConfigWrites
SPECIFICATION Spec
INVARIANT DriverSubsetOfDevice
CHECK_DEADLOCK FALSE
