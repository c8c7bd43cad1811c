------------------------------- MODULE VfioPci -------------------------------
(***************************************************************************)
(* The emulated PCI config space of a VFIO passthrough device and the     *)
(* guest's config writes (src/vfio/src/vfio_pci.rs): pci_config_reset at  *)
(* realize, then write_config, which forwards each write to the host      *)
(* device and then, depending on the registers it overlaps, updates the   *)
(* BAR mapping or enables/disables MSI-X at the host.                     *)
(*                                                                         *)
(* The config space is a function from byte offsets to bytes, over the    *)
(* registers write_config looks at: COMMAND and STATUS (4..7, with 8..11   *)
(* so that a dword read at any of them is defined), BAR0 (0x10..0x13) and  *)
(* the MSI-X capability's Message Control word (CapOff+2, CapOff+3).       *)
(* pci_config.write applies the write masks of spec.md 4.6; the BAR        *)
(* mapping is the address update_bar_mapping gave BAR0's region.          *)
(***************************************************************************)
EXTENDS Integers, Sequences, FiniteSets, Bitwise

CONSTANTS
  CapOff,          \* msix_cap_offset
  ConfigSize,      \* config_size, from the config region info
  BarSize,         \* size of BAR0 (a 32-bit memory BAR)
  Writes,          \* config writes the guest may issue: [offset, data]
  MaxWrites,       \* bound on the number of config writes
  WriteRegionCanFail, \* whether the host rejects a forwarded write
  MsixCanFail,     \* whether vfio_enable_msix / vfio_disable_msix may fail
  InitialConfigs,  \* config spaces the host device may present at realize
  Unmapped         \* model value: BAR_SPACE_UNMAPPED

ASSUME CapOff \in Nat /\ ConfigSize \in Nat /\ BarSize \in Nat \ {0}
ASSUME MaxWrites \in Nat /\ {WriteRegionCanFail, MsixCanFail} \subseteq BOOLEAN

COMMAND == 4
BAR_0 == 16
BAR_5 == 36
REG_SIZE == 4
MSIX_CAP_SIZE == 12
CfgOffsets == (COMMAND .. COMMAND + 7) \cup (BAR_0 .. BAR_0 + 3) \cup {CapOff + 2, CapOff + 3}
Byte == 0 .. 255

VARIABLES
  stage,     \* "realize" before pci_config_reset, "ready" after
  cfg,       \* self.pci_config.config over CfgOffsets
  mapped,    \* address of BAR0's region in the guest memory space
  hostMsix,  \* MSI-X vectors enabled at the host (irqfds and SET_IRQS)
  writes     \* number of write_config calls so far

vars == <<stage, cfg, mapped, hostMsix, writes>>

-----------------------------------------------------------------------------
(* Helpers of util::byte_code / util::num_ops and pci::config (spec 4.6). *)

\* A byte of config space (0 outside the modelled bytes).  Dwords such as
\* BAR values stay little-endian byte tuples: TLC's integers are 32-bit
\* signed, and a test of one bit of le_read_u32 is a test of one byte.
At(c, o) == IF o \in DOMAIN c THEN c[o] ELSE 0
LeBytes(c, o, n) == [i \in 1 .. n |-> At(c, o + i - 1)]

\* ranges_overlap(start, end, range_start, range_end), half-open ranges.
RangesOverlap(s, e, rs, re) == s < re /\ rs < e

\* Write mask and write-clear mask of each modelled byte: COMMAND's IO,
\* MEM, BM, parity, SERR and INTx-disable bits; STATUS's error bits clear
\* on a write of 1; BAR0's base bits above its size; MSI-X Enable and
\* Function Mask.
\* Byte i of !(BarSize - 1), the BAR's base-address bits.
Bit32Mask(i) == 255 - (((BarSize - 1) \div (256 ^ i)) % 256)

WriteMask(o) ==
  CASE o = COMMAND                       -> 71
    [] o = COMMAND + 1                   -> 5
    [] o \in BAR_0 .. BAR_0 + 3          -> (Bit32Mask(o - BAR_0))
    [] o = CapOff + 3                    -> 192
    [] OTHER                             -> 0
WriteClearMask(o) == IF o = COMMAND + 3 THEN 249 ELSE 0

\* pci_config.write(offset, data, dev_id): for each byte,
\* new = (old & ~wmask) | (in & wmask), then new &= ~(in & wclear).
PciWrite(c, offset, data) ==
  [o \in DOMAIN c |->
     IF o \in offset .. offset + Len(data) - 1
     THEN LET in  == data[o - offset + 1]
              new == (c[o] & (255 - WriteMask(o))) | (in & WriteMask(o))
          IN new & (255 - (in & WriteClearMask(o)))
     ELSE c[o]]

\* Bit 1 (COMMAND_MEMORY_SPACE) of the dword read at offset o.
MseBitAt(c, o) == (At(c, o) \div 2) % 2 = 1
MemorySpace(c) == MseBitAt(c, COMMAND)
\* le_read_u32(BAR_0) & MEM_BASE_ADDR_MASK, as bytes.
BarBase(c) == [LeBytes(c, BAR_0, 4) EXCEPT ![1] = @ - (@ % 16)]

\* update_bar_mapping: BAR0's region is mapped at the address in the BAR
\* while memory decoding is on, and unmapped otherwise.
GetBarAddress(c) == IF MemorySpace(c) THEN BarBase(c) ELSE Unmapped

\* is_msix_enabled: the MSI-X Enable bit (bit 15 of Message Control).
IsMsixEnabled(c) == At(c, CapOff + 3) \div 128 = 1

-----------------------------------------------------------------------------
(* VfioPciDevice.                                                          *)

\* pci_config_reset: clear COMMAND's IO, MEM, BM and INTx-disable bits
\* (in the emulated config and, by write_region, at the device), then
\* keep only the type bits of each BAR (here BAR0, a memory BAR).
PciConfigResetSub(c) ==
  [c EXCEPT ![COMMAND] = @ - 7, ![COMMAND + 1] = @ - 4,
            ![BAR_0 + 1] = 0, ![BAR_0 + 2] = 0, ![BAR_0 + 3] = 0,
            ![BAR_0] = @ % 16]

PciConfigReset(c) ==
  [c EXCEPT ![COMMAND] = @ & 248, ![COMMAND + 1] = @ & 251,
            ![BAR_0 + 1] = 0, ![BAR_0 + 2] = 0, ![BAR_0 + 3] = 0,
            ![BAR_0] = @ % 16]

\* The write_config branches.  s is [cfg, mapped, hostMsix]; `fail` says
\* whether the host call of the branch fails (its error is only logged).

\* COMMAND overlapped: write, then if the dword read at the write's
\* offset has COMMAND_MEMORY_SPACE, update_bar_mapping (and
\* setup_bars_mmap, which only re-creates the host mmaps of the BARs).
CommandWrite(s, w) ==
  LET c == PciWrite(s.cfg, w.offset, w.data) IN
  IF MseBitAt(c, w.offset)
  THEN [s EXCEPT !.cfg = c, !.mapped = GetBarAddress(c)]
  ELSE [s EXCEPT !.cfg = c]

\* A BAR overlapped: write, then update_bar_mapping unless the write is
\* the 4-byte all-ones sizing probe.
BarWrite(s, w) ==
  LET c == PciWrite(s.cfg, w.offset, w.data) IN
  IF Len(w.data) = 4 /\ \E i \in 1 .. 4 : w.data[i] # 255
  THEN [s EXCEPT !.cfg = c, !.mapped = GetBarAddress(c)]
  ELSE [s EXCEPT !.cfg = c]

\* Mutant of MsixCapWrite: was_enable read after the write.
MsixCapWriteLate(s, w, fail) ==
  LET c   == PciWrite(s.cfg, w.offset, w.data)
      was == IsMsixEnabled(c)
      is  == IsMsixEnabled(c)
  IN IF ~was /\ is THEN [s EXCEPT !.cfg = c, !.hostMsix = IF fail THEN s.hostMsix ELSE TRUE]
     ELSE IF was /\ ~is THEN [s EXCEPT !.cfg = c, !.hostMsix = IF fail THEN s.hostMsix ELSE FALSE]
     ELSE [s EXCEPT !.cfg = c]

\* The MSI-X capability overlapped: write, then vfio_enable_msix on a
\* disabled-to-enabled edge of the Enable bit, vfio_disable_msix on an
\* enabled-to-disabled one.  A failed call is logged and returns; the
\* Enable bit written stays in the emulated config.
MsixCapWrite(s, w, fail) ==
  LET c   == PciWrite(s.cfg, w.offset, w.data)
      was == IsMsixEnabled(s.cfg)
      is  == IsMsixEnabled(c)
  IN IF ~was /\ is THEN [s EXCEPT !.cfg = c, !.hostMsix = IF fail THEN s.hostMsix ELSE TRUE]
     ELSE IF was /\ ~is THEN [s EXCEPT !.cfg = c, !.hostMsix = IF fail THEN s.hostMsix ELSE FALSE]
     ELSE [s EXCEPT !.cfg = c]

\* write_config after the host accepted the write (write_region).
WriteBranches(s, w, fail) ==
  LET end == w.offset + Len(w.data) IN
  IF RangesOverlap(w.offset, end, COMMAND, COMMAND + 4) THEN CommandWrite(s, w)
  ELSE IF RangesOverlap(w.offset, end, BAR_0, BAR_5 + REG_SIZE) THEN BarWrite(s, w)
  ELSE IF RangesOverlap(w.offset, end, CapOff, CapOff + MSIX_CAP_SIZE) THEN MsixCapWrite(s, w, fail)
  ELSE [s EXCEPT !.cfg = PciWrite(s.cfg, w.offset, w.data)]

-----------------------------------------------------------------------------
\* get_pci_config has read the device's config space.
Init ==
  /\ stage = "realize"
  /\ cfg \in InitialConfigs
  /\ mapped = Unmapped
  /\ hostMsix = FALSE
  /\ writes = 0

\* realize: pci_config_reset; a failed write_region fails realize.
Realize ==
  /\ stage = "realize"
  /\ \E rejected \in IF WriteRegionCanFail THEN BOOLEAN ELSE {FALSE} :
       IF rejected THEN stage' = "failed" /\ UNCHANGED cfg
       ELSE stage' = "ready" /\ cfg' = PciConfigReset(cfg)
  /\ UNCHANGED <<mapped, hostMsix, writes>>

\* write_config(offset, data): a write past config_size or wider than 4
\* bytes, or one the host rejects, is logged and changes nothing.
WriteConfig(w) ==
  /\ stage = "ready"
  /\ writes < MaxWrites
  /\ writes' = writes + 1
  /\ \E rejected \in IF WriteRegionCanFail THEN BOOLEAN ELSE {FALSE},
        fail \in IF MsixCanFail THEN BOOLEAN ELSE {FALSE} :
       IF w.offset + Len(w.data) > ConfigSize \/ Len(w.data) > 4 \/ rejected
       THEN UNCHANGED <<cfg, mapped, hostMsix>>
       ELSE LET r == WriteBranches([cfg |-> cfg, mapped |-> mapped, hostMsix |-> hostMsix], w, fail)
            IN cfg' = r.cfg /\ mapped' = r.mapped /\ hostMsix' = r.hostMsix
  /\ UNCHANGED stage

Next == Realize \/ \E w \in Writes : WriteConfig(w)

Spec == Init /\ [][Next]_vars

-----------------------------------------------------------------------------
TypeOK ==
  /\ stage \in {"realize", "ready", "failed"}
  /\ cfg \in [CfgOffsets -> Byte]
  /\ mapped \in [1 .. 4 -> Byte] \cup {Unmapped}
  /\ hostMsix \in BOOLEAN
  /\ writes \in 0 .. MaxWrites

\* The MSI-X Enable bit the guest reads back says whether the host has
\* the vectors enabled: write_config's edge detection on the Enable bit
\* keeps vfio_enable_msix / vfio_disable_msix in step with the guest.
MsixHostAgrees ==
  stage = "ready" => (IsMsixEnabled(cfg) <=> hostMsix)

====
