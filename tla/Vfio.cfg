\* Tables inside BARs of two and four pages, at every unit offset, of one
\* to three entries; BIRs naming a BAR and the reserved BIR 6.  Then up to
\* four guest writes with the host free to reject any.
CONSTANTS
  PageSize = 4
  BarSizes = {8, 16}
  TableOffsets = {0, 1, 2, 3, 4, 5, 6, 7}
  TableSizeFields = {0, 1, 2}
  TableBirs = {0, 2, 6}
  CapOff = 64
  ConfigSize = 256
  BarSize = 4096
  MaxWrites = 4
  WriteRegionCanFail = TRUE
  MsixCanFail = FALSE
  Unmapped = Unmapped
  Writes <- MCWrites
  InitialConfigs <- MCInitialConfigs
SPECIFICATION VfioSpec
INVARIANTS
  VfioTypeOK
  ReferenceCarve
  MsixHostAgrees
CHECK_DEADLOCK FALSE
