--------------------------------- MODULE PMM ---------------------------------
(***************************************************************************)
(* The physical memory manager, kernel::PMM (src/kernel/memory/pmm.cpp):   *)
(* a bitmap of page frames built by the bootloader from the firmware's     *)
(* memory map, handed to the kernel in memory, and used by both to lend    *)
(* frames.  Addresses and sizes are counted in bytes, PageSize of them to  *)
(* a frame, because the rounding of byte ranges to frames is what the code *)
(* can get wrong.  `lent' and `lost' are history variables: what callers   *)
(* hold and what no caller can give back any more.                         *)
(***************************************************************************)
EXTENDS Integers, Sequences, FiniteSetsExt

CONSTANTS
    PageSize,      \* bytes in a frame (4 KiB in the code)
    BitsPerByte,   \* bitmap bits in a byte (8 in the code)
    LoadAddr,      \* KERNEL_MAIN_LOAD_ADDR, also the 1 MiB mark
    Machines,      \* what the firmware may hand over, see Machine
    MaxBlock       \* largest request, in frames

VARIABLES
    machine,       \* the memory map, kernel size and loader image of this boot
    phase,         \* whose PMM object is live: "off", "boot", "kernel"
    totalPages,    \* m_totalPageNum
    bitmapBase,    \* m_bitMap, as a physical address
    bitmapSlot,    \* the word at PMM_BITMAP_PHYS_ADDRESS
    used,          \* the frames whose bit is set
    lent,          \* blocks handed out and not freed
    lost           \* frames of freed blocks whose bit stayed set

vars == <<machine, phase, totalPages, bitmapBase, bitmapSlot, used, lent, lost>>

Entry == [base : Nat, length : Nat, type : {"Usable", "Reserved"}]

Machine == [map : Seq(Entry), kernelSize : Nat, imageBase : Nat, imageSize : Nat]

ASSUME SizesAssumption ==
    /\ PageSize \in Nat \ {0}
    /\ BitsPerByte \in Nat \ {0}
    /\ LoadAddr \in Nat
    /\ MaxBlock \in Nat

ASSUME MachinesAssumption == Machines \subseteq Machine

\* Two byte ranges [a, a+n) and [b, b+m) share a byte.
Overlap(a, n, b, m) == a < b + m /\ b < a + n /\ n > 0 /\ m > 0

\* The firmware put the loader's image, and AllocatePages the kernel, into
\* EfiLoaderCode and EfiLoaderData, which no usable entry covers.
ASSUME LoadedAssumption ==
    \A m \in Machines : \A i \in DOMAIN m.map : m.map[i].type = "Usable" =>
        /\ ~Overlap(m.imageBase, m.imageSize, m.map[i].base, m.map[i].length)
        /\ ~Overlap(LoadAddr, m.kernelSize, m.map[i].base, m.map[i].length)

-------------------------------------------------------------------------------
(***************************************************************************)
(* Frames and byte ranges                                                  *)
(***************************************************************************)

\* Number of whole units of size `unit' that n bytes need.
CeilDiv(n, unit) == (n + unit - 1) \div unit

Usable(m) == {i \in DOMAIN m.map : m.map[i].type = "Usable"}

EntryEnd(e) == e.base + e.length

\* getTotalPageNum: the highest end of usable memory, rounded up to frames.
TotalPages(m) ==
    CeilDiv(Max({0} \cup {EntryEnd(m.map[i]) : i \in Usable(m)}), PageSize)

\* Slip: the end of the range rounded down, a partial last frame left free.
FramesTouchingFloorEnd(base, end, total) ==
    {f \in 0 .. (total - 1) : base < (f + 1) * PageSize /\ (f + 1) * PageSize <= end}

\* Slip: SetBit without its bounds check.
FramesTouchingUnchecked(base, end, total) ==
    (base \div PageSize) .. (CeilDiv(end, PageSize) - 1)

\* MarkRangeUsed(base, end): floor(base) .. ceil(end) - 1, SetBit ignoring
\* frames past the bitmap.
FramesTouching(base, end, total) ==
    {f \in 0 .. (total - 1) : base < (f + 1) * PageSize /\ f * PageSize < end}

\* Slip: the loop of MarkRangeFree runs up to endPage inclusive.
FramesWithinOneMore(base, length, total) ==
    {f \in 0 .. (total - 1) : base <= f * PageSize /\ f * PageSize <= base + length}

\* MarkRangeFree(base, length): ceil(base) .. floor(base + length) - 1.
FramesWithin(base, length, total) ==
    {f \in 0 .. (total - 1) : base <= f * PageSize /\ (f + 1) * PageSize <= base + length}

BitmapSize(total) == CeilDiv(total, BitsPerByte)

KernelEnd(m) == LoadAddr + m.kernelSize

\* InitBitMap: where in a usable region the bitmap would go, past the kernel.
Candidate(m, i) == IF m.map[i].base > KernelEnd(m) THEN m.map[i].base ELSE KernelEnd(m)

HasRoom(m, i) ==
    /\ Candidate(m, i) < EntryEnd(m.map[i])
    /\ EntryEnd(m.map[i]) - Candidate(m, i) >= BitmapSize(TotalPages(m))

RoomyRegions(m) == {i \in Usable(m) : HasRoom(m, i)}

\* The first region with room; with none m_bitMap keeps its nullptr.
BitmapSpot(m) ==
    IF RoomyRegions(m) = {} THEN 0 ELSE Candidate(m, Min(RoomyRegions(m)))

\* ZeroBitMap: every bit set, then the whole frames of usable entries cleared.
FreeMemory(m, total) ==
    UNION {FramesWithin(m.map[i].base, m.map[i].length, total) : i \in Usable(m)}

\* MarkUsedPages as the bootloader builds it: the low memory and the kernel
\* with its stack, the loader's own image, the bitmap.
OwnMemory(m, total, bitmap) ==
    FramesTouching(0, LoadAddr, total)
    \cup FramesTouching(0, KernelEnd(m), total)
    \cup FramesTouching(m.imageBase, m.imageBase + m.imageSize, total)
    \cup FramesTouching(bitmap, bitmap + BitmapSize(total), total)

\* CleanBitMap
CleanBitMap(m, total, bitmap) ==
    ((0 .. (total - 1)) \ FreeMemory(m, total)) \cup OwnMemory(m, total, bitmap)

-------------------------------------------------------------------------------
Span(b) == b.base .. (b.base + b.count - 1)

Init ==
    /\ machine \in Machines
    /\ phase = "off"
    /\ totalPages = 0
    /\ bitmapBase = 0
    /\ bitmapSlot = 0
    /\ used = {}
    /\ lent = {}
    /\ lost = {}

\* Slip: the slot is published before InitBitMap has placed the bitmap.
BootInitPublishesEarly ==
    /\ phase = "off"
    /\ phase' = "boot"
    /\ totalPages' = TotalPages(machine)
    /\ bitmapBase' = BitmapSpot(machine)
    /\ bitmapSlot' = bitmapBase
    /\ used' = CleanBitMap(machine, totalPages', bitmapBase')
    /\ UNCHANGED <<machine, lent, lost>>

\* PMM::Init of the bootloader.
BootInit ==
    /\ phase = "off"
    /\ phase' = "boot"
    /\ totalPages' = TotalPages(machine)
    /\ bitmapBase' = BitmapSpot(machine)
    /\ bitmapSlot' = bitmapBase'
    /\ used' = CleanBitMap(machine, totalPages', bitmapBase')
    /\ UNCHANGED <<machine, lent, lost>>

\* Slip: the kernel builds the bitmap again.
KernelInitCleans ==
    /\ phase = "boot"
    /\ phase' = "kernel"
    /\ totalPages' = TotalPages(machine)
    /\ bitmapBase' = bitmapSlot
    /\ used' = CleanBitMap(machine, totalPages', bitmapBase')
    /\ UNCHANGED <<machine, bitmapSlot, lent, lost>>

\* PMM::Init of the kernel: a new object over the bitmap the bootloader left.
KernelInit ==
    /\ phase = "boot"
    /\ phase' = "kernel"
    /\ totalPages' = TotalPages(machine)
    /\ bitmapBase' = bitmapSlot
    /\ UNCHANGED <<machine, bitmapSlot, used, lent, lost>>

\* Slip: frames past the bitmap read as free.
TestBitUnchecked(f) == f \in used

TestBit(f) == f >= totalPages \/ f \in used

\* Slip: the last frame of the run is not tested.
FitsOneShort(n) ==
    {i \in 0 .. (totalPages - 1) : \A j \in 0 .. (n - 2) : ~TestBit(i + j)}

\* The frames at which a run of n clear bits starts.
Fits(n) == {i \in 0 .. (totalPages - 1) : \A j \in 0 .. (n - 1) : ~TestBit(i + j)}

\* PMM::Alloc: first fit.  With no fit it returns nullptr and changes nothing.
Alloc(n) ==
    /\ phase # "off"
    /\ Fits(n) # {}
    /\ LET b == [base |-> Min(Fits(n)), count |-> n]
           start == b.base * PageSize
       IN  /\ used' = used \cup FramesTouching(start, start + n * PageSize, totalPages)
           /\ lent' = lent \cup {b}
    /\ UNCHANGED <<machine, phase, totalPages, bitmapBase, bitmapSlot, lost>>

\* PMM::Free, called by the kernel with the address of a block it holds: one
\* frame is cleared whatever the size of the block.
Free(b) ==
    /\ phase = "kernel"
    /\ used' = used \ FramesWithin(b.base * PageSize, PageSize, totalPages)
    /\ lent' = lent \ {b}
    /\ lost' = lost \cup (Span(b) \ {b.base})
    /\ UNCHANGED <<machine, phase, totalPages, bitmapBase, bitmapSlot>>

Next ==
    \/ BootInit
    \/ KernelInit
    \/ \E n \in 1 .. MaxBlock : Alloc(n)
    \/ \E b \in lent : Free(b)

Spec == Init /\ [][Next]_vars

-------------------------------------------------------------------------------
(***************************************************************************)
(* Properties                                                              *)
(***************************************************************************)

TypeOK ==
    /\ machine \in Machines
    /\ phase \in {"off", "boot", "kernel"}
    /\ totalPages \in Nat
    /\ bitmapBase \in Nat
    /\ bitmapSlot \in Nat
    /\ used \in SUBSET (0 .. (totalPages - 1))
    /\ lent \in SUBSET [base : Nat, count : 1 .. MaxBlock]
    /\ lost \in SUBSET (0 .. (totalPages - 1))

BlockStart(b) == b.base * PageSize
BlockBytes(b) == b.count * PageSize

\* No two callers ever hold a common frame, over both phases and any sequence
\* of requests and frees, although the kernel never rebuilds the bitmap.
LentBlocksDisjoint ==
    \A b, c \in lent : b # c => Span(b) \cap Span(c) = {}

\* No byte of a block a caller holds belongs to the low memory, the kernel and
\* its stack, the bootloader's image or the bitmap, whatever their alignment:
\* MarkRangeUsed rounds outwards.
LentMemoryIsNobodys ==
    \A b \in lent :
        /\ BlockStart(b) >= KernelEnd(machine)
        /\ ~Overlap(BlockStart(b), BlockBytes(b), machine.imageBase, machine.imageSize)
        /\ ~Overlap(BlockStart(b), BlockBytes(b), bitmapBase, BitmapSize(totalPages))

\* Every frame of a block lies whole inside a usable entry of the memory map:
\* MarkRangeFree rounds inwards.
LentMemoryIsUsable ==
    \A b \in lent : \A f \in Span(b) : \E i \in Usable(machine) :
        /\ machine.map[i].base <= f * PageSize
        /\ (f + 1) * PageSize <= EntryEnd(machine.map[i])

\* The set bits are exactly the memory never lent, the blocks callers hold, and
\* the tails that Free left behind: no frame leaks in any other way, and none
\* is lent while its bit is clear.
UsedIsAccountedFor ==
    phase # "off" =>
        LET own == CleanBitMap(machine, TotalPages(machine), bitmapSlot)
            held == UNION {Span(b) : b \in lent}
        IN  /\ used = own \cup held \cup lost
            /\ own \cap (held \cup lost) = {}
            /\ held \cap lost = {}

\* Unless no usable region could hold it, the bitmap lies inside one, past the
\* kernel and its stack and clear of the loader's image, which InitBitMap never
\* looks at; and both PMM objects use that one bitmap.
BitmapIsPlaced ==
    (phase # "off" /\ RoomyRegions(machine) # {}) =>
        /\ bitmapBase >= KernelEnd(machine)
        /\ ~Overlap(bitmapBase, BitmapSize(totalPages), machine.imageBase, machine.imageSize)
        /\ \E i \in Usable(machine) :
             /\ machine.map[i].base <= bitmapBase
             /\ bitmapBase + BitmapSize(totalPages) <= EntryEnd(machine.map[i])

\* The allocator the callers may rely on.
Promise == INSTANCE FrameAllocator WITH
    avail <- IF phase = "off" THEN {} ELSE (0 .. (totalPages - 1)) \ used,
    lent  <- lent

\* The bitmap, first fit and the handoff implement it: building the bitmap opens
\* the allocator, the kernel's Init changes nothing a caller can see.
ImplementsFrameAllocator == Promise!Spec

===============================================================================
