------------------------------ MODULE VfioMsix ------------------------------
(***************************************************************************)
(* The MSI-X discovery and BAR carving steps of VfioPciDevice::realize    *)
(* (src/vfio/src/vfio_pci.rs): get_msix_info reads the MSI-X capability,  *)
(* bar_region_info classifies the six BARs and fixup_msix_region removes  *)
(* the page-aligned MSI-X table from the host mmap list of its BAR, so    *)
(* that guest accesses to the table trap to the VMM.                      *)
(*                                                                         *)
(* Sizes and offsets are in units of 8 bytes, the granularity of the     *)
(* table offset (MSIX_TABLE_OFFSET masks the low three bits): an MSI-X    *)
(* table entry is 2 units and PageSize is the host page in units.         *)
(***************************************************************************)
EXTENDS Integers, Sequences, FiniteSets

CONSTANTS
  PageSize,       \* host_page_size(), in units
  BarSizes,       \* sizes the VFIO region of the table's BAR may have
  TableOffsets,   \* values of the table-offset field of the MSI-X Table dword
  TableSizeFields,\* values of the Table Size field of Message Control (N - 1)
  TableBirs       \* values of the BIR field of the MSI-X Table dword (0..7)

ASSUME PageSize \in Nat \ {0}
ASSUME BarSizes \subseteq Nat \ {0}
ASSUME TableOffsets \subseteq Nat /\ TableSizeFields \subseteq 0 .. 2047
ASSUME TableBirs \subseteq 0 .. 7

NumBars == 6                          \* PCI_ROM_SLOT
EntrySize == 2                        \* MSIX_TABLE_ENTRY_SIZE, 16 bytes
RegionTypes == {"Io", "Mem32Bit", "Mem64Bit"}
Mmap == [offset : Nat, size : Nat]    \* MmapInfo

VARIABLES
  stage,    \* realize step reached: "config", "msix", "bars" or "failed"
  dev,      \* what the device reports: MSI-X fields, BAR dwords, regions
  msix,     \* self.msix_info
  bars      \* self.vfio_bars: per BAR its region type, size and mmaps

vars == <<stage, dev, msix, bars>>

-----------------------------------------------------------------------------
\* The page-aligned span of an MSI-X table at `off` of `len` units.
SpanLo(off) == (off \div PageSize) * PageSize
SpanHi(off, len) == ((off + len + PageSize - 1) \div PageSize) * PageSize

\* A region as VFIO_DEVICE_GET_REGION_INFO reports it: mmappable as a
\* whole (the case fixup works on), not mmappable, or with the kernel's
\* sparse mmap capability, which already leaves out the table's pages.
RegionInfos(size, off, len) ==
  LET lo == SpanLo(off)
      hi == SpanHi(off, len)
      sparse == SelectSeq(<< [offset |-> 0, size |-> lo],
                              [offset |-> hi, size |-> size - hi] >>,
                          LAMBDA mm : mm.size > 0 /\ mm.offset < size)
  IN { [size |-> size, mmaps |-> m] :
         m \in { << [offset |-> 0, size |-> size] >>, << >>, sparse } }

\* The BAR dword low bits: bit 0 I/O space, bit 2 64-bit memory.
BarTypeBits == {0, 1, 4}

\* get_msix_info: table BIR, table offset and table size from the MSI-X
\* capability; enteries = (ctrl & 0x7ff) + 1.
GetMsixInfo(d) ==
  LET enteries == d.tableSizeField + 1 IN
  [table_bar |-> d.bir, table_offset |-> d.tableOffset,
   table_size |-> enteries * EntrySize, enteries |-> enteries]

\* bar_region_info: the region type from the raw BAR dword.
RegionTypeOf(pciBar) ==
  IF pciBar % 2 = 1 THEN "Io"
  ELSE IF (pciBar \div 4) % 2 = 1 THEN "Mem64Bit" ELSE "Mem32Bit"

\* `x & (0 - page_size)`: x rounded down to a page boundary.
PageDown(x) == (x \div PageSize) * PageSize

\* Mutants of FixupMsixRegion: no check of end against the region size
\* when the table starts the BAR; the end not rounded up to a page; and
\* `end > region.size` for `end >= region.size`.
FixupNoEndCheck(region, info) ==
  LET start == PageDown(info.table_offset)
      end   == PageDown(info.table_offset + info.table_size + (PageSize - 1))
      m     == region.mmaps
  IN IF Len(m) # 1 \/ m[1].offset # 0 \/ region.size # m[1].size THEN region
     ELSE IF start = 0 THEN [region EXCEPT !.mmaps = << [offset |-> end, size |-> region.size - end] >>]
     ELSE IF end >= region.size THEN [region EXCEPT !.mmaps = << [m[1] EXCEPT !.size = start] >>]
     ELSE [region EXCEPT !.mmaps = << [offset |-> 0, size |-> start], [offset |-> end, size |-> region.size - end] >>]

FixupEndGt(region, info) ==
  LET start == PageDown(info.table_offset)
      end   == PageDown(info.table_offset + info.table_size + (PageSize - 1))
      m     == region.mmaps
  IN IF Len(m) # 1 \/ m[1].offset # 0 \/ region.size # m[1].size THEN region
     ELSE IF start = 0
          THEN IF end > region.size THEN [region EXCEPT !.mmaps = << >>]
               ELSE [region EXCEPT !.mmaps = << [offset |-> end, size |-> region.size - end] >>]
     ELSE IF end > region.size THEN [region EXCEPT !.mmaps = << [m[1] EXCEPT !.size = start] >>]
     ELSE [region EXCEPT !.mmaps = << [offset |-> 0, size |-> start], [offset |-> end, size |-> region.size - end] >>]

\* fixup_msix_region on one region: the table's page-aligned span
\* [start, end) is cut out of a single whole-region mmap.
FixupMsixRegion(region, info) ==
  LET start == PageDown(info.table_offset)
      end   == PageDown(info.table_offset + info.table_size + (PageSize - 1))
      m     == region.mmaps
  IN
  IF Len(m) # 1 \/ m[1].offset # 0 \/ region.size # m[1].size THEN region
  ELSE IF start = 0
       THEN IF end >= region.size THEN [region EXCEPT !.mmaps = << >>]
            ELSE [region EXCEPT !.mmaps = << [offset |-> end, size |-> region.size - end] >>]
  ELSE IF end >= region.size
       THEN [region EXCEPT !.mmaps = << [m[1] EXCEPT !.size = start] >>]
  ELSE [region EXCEPT !.mmaps = << [offset |-> 0, size |-> start],
                                   [offset |-> end, size |-> region.size - end] >>]

-----------------------------------------------------------------------------
\* get_pci_config has read the config space; the device is any one whose
\* MSI-X capability and regions lie in the bounded input sets.
Init ==
  /\ stage = "config"
  /\ msix = [table_bar |-> 0, table_offset |-> 0, table_size |-> 0, enteries |-> 0]
  /\ bars = << >>
  /\ \E bir \in TableBirs, off \in TableOffsets, tsf \in TableSizeFields,
        size \in BarSizes, typ \in BarTypeBits :
       \E region \in RegionInfos(size, off, (tsf + 1) * EntrySize) :
         dev = [bir |-> bir, tableOffset |-> off, tableSizeField |-> tsf,
                barDword |-> typ, region |-> region]

\* realize: self.msix_info = Some(get_msix_info()).
MsixInfoStep ==
  /\ stage = "config"
  /\ msix' = GetMsixInfo(dev)
  /\ stage' = "msix"
  /\ UNCHANGED <<dev, bars>>

\* realize: bar_region_info() pushes one VfioBar per BAR, then
\* fixup_msix_region on the table's BAR; a BIR naming no BAR fails
\* realize ("Failed to get vfio bar info").
BarRegionInfo ==
  /\ stage = "msix"
  \* Every BAR reports the same region info; only the table's BAR is carved.
  /\ LET raw == [i \in 1 .. NumBars |->
                   [type |-> RegionTypeOf(dev.barDword), size |-> dev.region.size,
                    region |-> dev.region]]
         t   == msix.table_bar + 1
     IN IF t > NumBars
        THEN /\ stage' = "failed" /\ bars' = << >>
        ELSE /\ stage' = "bars"
             /\ bars' = [raw EXCEPT ![t].region = FixupMsixRegion(@, msix)]
  /\ UNCHANGED <<dev, msix>>

Next == MsixInfoStep \/ BarRegionInfo

Spec == Init /\ [][Next]_vars

-----------------------------------------------------------------------------
(* Properties, over the table's BAR once bar_region_info has run.         *)
TypeOK ==
  /\ stage \in {"config", "msix", "bars", "failed"}
  /\ msix.enteries \in 0 .. 2048
  /\ \A i \in DOMAIN bars : bars[i].type \in RegionTypes
                            /\ \A j \in DOMAIN bars[i].region.mmaps :
                                 bars[i].region.mmaps[j] \in Mmap

TableBar == bars[msix.table_bar + 1].region
Covered(r) == UNION { m.offset .. (m.offset + m.size - 1) : m \in { r.mmaps[j] : j \in DOMAIN r.mmaps } }
WholeMmap == dev.region.mmaps = << [offset |-> 0, size |-> dev.region.size] >>

\* Reference definition of the carve: when the region was mmappable as a
\* whole, exactly the units of the BAR outside the page-aligned table span
\* stay mmapped, in non-empty pieces.
ReferenceCarve ==
  (stage = "bars" /\ WholeMmap) =>
    LET r  == TableBar
        lo == SpanLo(msix.table_offset)
        hi == SpanHi(msix.table_offset, msix.table_size)
    IN /\ Covered(r) = { x \in 0 .. (dev.region.size - 1) : x < lo \/ x >= hi }
       /\ \A j \in DOMAIN r.mmaps : r.mmaps[j].size > 0

=============================================================================
