---------------------------------- MODULE Acpi ----------------------------------
(***************************************************************************)
(* What the kernel reads from the firmware's tables, as operators: the     *)
(* search of include/kernel/utils/tables.hpp, the ECAM windows of          *)
(* src/kernel/acpi/mcfg.cpp, the two forms of a PCI configuration address  *)
(* of src/kernel/acpi/pci/pci.cpp, and the base of the power management    *)
(* controller that include/kernel/acpi/pci/pmc/reset_cause.hpp derives     *)
(* from the FADT.  A root table is a record of its revision, its length in *)
(* bytes and the tables it points to; addresses are physical (MMIO_BASE is *)
(* added to all of them alike).                                            *)
(***************************************************************************)
EXTENDS Integers, SequencesExt

CONSTANTS
    Word,   \* what a uint32_t holds, exclusive (2^32)
    Null

HeaderSize == 36           \* sizeof(SDTHeader)
McfgHeaderSize == 44       \* sizeof(MCFGTable)
McfgEntrySize == 16        \* sizeof(MCFGEntry)
PageSize == 4096
BusSize == 1048576         \* 1 MiB, 1 << 20
DeviceSize == 32768        \* 1 << 15
FunctionSize == 4096       \* 1 << 12

\* Slip: eight bytes an entry, whatever the revision.
PointerSizeWide(root) == 8

PointerSize(root) == IF root.revision >= 2 THEN 8 ELSE 4

Entries(root) == (root.length - HeaderSize) \div PointerSize(root)

\* findTable: the first entry with the signature, or Null.
FindTable(root, signature) ==
    LET hits == {i \in 1 .. Entries(root) : root.tables[i].signature = signature}
    IN  IF hits = {} THEN Null ELSE root.tables[Min(hits)]

\* The entries that mcfg_load counts by the table's length.
McfgEntries(table) ==
    SubSeq(table.entries, 1, (table.length - McfgHeaderSize) \div McfgEntrySize)

McfgSize(entry) == BusSize * (entry.last - entry.first + 1)

Owns(entry, bus) == entry.first <= bus /\ bus <= entry.last

\* mcfg_getEntry: the first entry that owns the bus; Null stands for its panic.
McfgGetEntry(entries, bus) ==
    LET owners == {i \in DOMAIN entries : Owns(entries[i], bus)}
    IN  IF owners = {} THEN Null ELSE entries[Min(owners)]

-------------------------------------------------------------------------------
\* A PCIConfigAddress: the register it names, and cachedEntry.
Address(bus, device, function, offset) ==
    [bus |-> bus, device |-> device, function |-> function, offset |-> offset,
     cachedEntry |-> Null]

Register(a) == << a.bus, a.device, a.function, a.offset >>

\* Slip: the entry of the old bus is kept.
SetBusCached(a, bus) == [a EXCEPT !.bus = bus]

SetBus(a, bus) == IF a.bus = bus THEN a ELSE [a EXCEPT !.bus = bus, !.cachedEntry = Null]

\* operator() first looks for the entry, unless it has one.
Resolved(a, entries) ==
    IF a.cachedEntry # Null THEN a
    ELSE [a EXCEPT !.cachedEntry = McfgGetEntry(entries, a.bus)]

\* The address in memory of a resolved address.
MmioAddress(a) ==
    a.cachedEntry.base + (a.bus - a.cachedEntry.first) * BusSize
    + a.device * DeviceSize + a.function * FunctionSize + a.offset

\* The value for port 0xCF8, without its enable bit.
LegacyAddress(a) == a.bus * 65536 + a.device * 2048 + a.function * 256 + a.offset

\* The register that the host bridge selects: by port 0xCF8, or by an address, with
\* the entry whose window the firmware has set up for the bus, if any.
SelectedByPort(value) ==
    << value \div 65536, (value \div 2048) % 32, (value \div 256) % 8, value % 256 >>

SelectedByWindow(at, entry) ==
    LET inside == at - entry.base
    IN  IF entry = Null THEN << >>
        ELSE << entry.first + inside \div BusSize, (inside \div DeviceSize) % 32,
                (inside \div FunctionSize) % 8, inside % FunctionSize >>

-------------------------------------------------------------------------------
PmTimerOffset == 6396      \* 0x18FC
CauseOffsets == {6436, 6440, 6444}    \* 0x1924, 0x1928, 0x192C
XPmTimerEnd == 220         \* offsetof(FADT, X_PMTimerBlock) and its size
PmcSize == 2 * PageSize    \* REQUIRED_SIZE = 0x1930, rounded up to pages

\* The PM timer's block and its address space (0 is memory): the extended one
\* where the table is long enough to have it, else the port of the legacy one.
PmTimer(fadt) ==
    IF fadt.length >= XPmTimerEnd /\ fadt.xTimer # 0 THEN << fadt.xTimer, fadt.xSpace >>
    ELSE << fadt.timer, 1 >>

\* Slip: the timer's page is taken for the first of the controller.
PwrmBaseFromFadtPage(fadt) ==
    LET address == PmTimer(fadt)[1]
    IN  IF address = 0 \/ PmTimer(fadt)[2] # 0 \/ address < PmTimerOffset THEN 0
        ELSE address - (address % PageSize)

\* getPwrmBaseFromFadt; 0 says that there is none.
PwrmBaseFromFadt(fadt) ==
    LET address == PmTimer(fadt)[1]
        base == address - PmTimerOffset
    IN  IF fadt = Null \/ address = 0 \/ PmTimer(fadt)[2] # 0 \/ address < PmTimerOffset THEN 0
        ELSE base - (base % PageSize)

BaseUnit == 8192           \* PWRMBASE holds bits 13 to 31

\* BASEADDR is a uint32_t.
BaseAddr(base) == base % Word

===============================================================================
