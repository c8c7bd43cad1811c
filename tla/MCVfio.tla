------------------------------- MODULE MCVfio -------------------------------
(***************************************************************************)
(* One VfioPciDevice from realize to guest config writes, in the order of *)
(* VfioPciDevice::realize (vfio_pci.rs 289-321): pci_config_reset         *)
(* (VfioPci's Realize), then get_msix_info and bar_region_info with       *)
(* fixup_msix_region (VfioMsix), and only once realize has returned, the  *)
(* guest's write_config calls (VfioPci's WriteConfig).  A failed step     *)
(* fails realize and nothing after it runs.                               *)
(*                                                                         *)
(* The config space is that of a device whose MSI-X capability is at      *)
(* CapOff and whose 4 KiB memory BAR0 the host left programmed at         *)
(* 0xfebf0000 with MSE and BM on; the writes are those of a driver        *)
(* probing it.                                                            *)
(***************************************************************************)
EXTENDS VfioPci

CONSTANTS PageSize, BarSizes, TableOffsets, TableSizeFields, TableBirs

VARIABLES mstage, dev, msix, bars

mvars == <<mstage, dev, msix, bars>>

M == INSTANCE VfioMsix WITH stage <- mstage

\* COMMAND = MSE | BM, STATUS = capability list, BAR0 = 0xfebf0000,
\* MSI-X Message Control = 7 vectors, Enable clear.
MCInitialConfigs ==
  { [o \in CfgOffsets |->
       CASE o = COMMAND      -> 6
         [] o = COMMAND + 2  -> 16
         [] o = BAR_0 + 2    -> 191
         [] o = BAR_0 + 3    -> 254
         [] o = CapOff + 2   -> 6
         [] OTHER            -> 0] }

\* Writes of a driver: COMMAND with and without MSE, COMMAND's high byte,
\* a STATUS write-1-to-clear, BAR0 at two bases and the sizing probe,
\* MSI-X Enable on, off and on with Function Mask, and a write past the
\* end of config space.
MCWrites ==
  { [offset |-> COMMAND,    data |-> <<2, 0>>],
    [offset |-> COMMAND,    data |-> <<0, 0>>],
    [offset |-> COMMAND + 1, data |-> <<4>>],
    [offset |-> COMMAND + 2, data |-> <<0, 255>>],
    [offset |-> BAR_0,      data |-> <<0, 0, 0, 192>>],
    [offset |-> BAR_0,      data |-> <<0, 16, 0, 192>>],
    [offset |-> BAR_0,      data |-> <<255, 255, 255, 255>>],
    [offset |-> CapOff + 2, data |-> <<0, 128>>],
    [offset |-> CapOff + 2, data |-> <<0, 0>>],
    [offset |-> CapOff + 2, data |-> <<0, 192>>],
    [offset |-> ConfigSize - 2, data |-> <<0, 0, 0, 0>>] }

VfioInit == Init /\ M!Init

\* realize's order: the config reset, then the MSI-X and BAR steps once
\* it succeeded; guest writes only after bar_region_info returned Ok.
VfioNext ==
  \/ Realize /\ mstage = "config" /\ UNCHANGED mvars
  \/ M!Next /\ stage = "ready" /\ UNCHANGED vars
  \/ \E w \in Writes : WriteConfig(w) /\ mstage = "bars" /\ UNCHANGED mvars

VfioSpec == VfioInit /\ [][VfioNext]_<<vars, mvars>>

VfioTypeOK == TypeOK /\ M!TypeOK

\* vfio_pci.rs fixup_msix_region: a whole-region mmap is carved to exactly
\* the BAR units outside the page-aligned table span.
ReferenceCarve == M!ReferenceCarve

====
