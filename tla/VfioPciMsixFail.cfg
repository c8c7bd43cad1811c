\* One device whose MSI-X table sits at the start of BAR0, realized, then
\* up to four guest writes with vfio_enable_msix / vfio_disable_msix free
\* to fail at the host.
CONSTANTS
  PageSize = 4
  BarSizes = {8}
  TableOffsets = {0}
  TableSizeFields = {0}
  TableBirs = {0}
  CapOff = 64
  ConfigSize = 256
  BarSize = 4096
  MaxWrites = 4
  WriteRegionCanFail = FALSE
  MsixCanFail = TRUE
  Unmapped = Unmapped
  Writes <- MCWrites
  InitialConfigs <- MCInitialConfigs
SPECIFICATION VfioSpec
INVARIANTS
  MsixHostAgrees
CHECK_DEADLOCK FALSE
