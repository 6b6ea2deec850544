------------------------------ MODULE PageTables ------------------------------
(***************************************************************************)
(* The page tables of kernel::VMM (src/kernel/memory/vmm.cpp) as data.     *)
(* `pte' is the content of memory as far as it is read as page tables: a   *)
(* function defined on the words <<frame, index>> whose present bit is     *)
(* set, in tables and in whatever else a frame may hold.  A virtual page   *)
(* is its four indices, a physical address its frame number.               *)
(***************************************************************************)
EXTENDS Integers, Sequences, FiniteSetsExt, Functions

CONSTANTS
    HugeFrames,   \* frames in a huge page (512)
    DirEntries,   \* entries of a page directory (512)
    LowFrames     \* frames below KERNEL_MAIN_LOAD_ADDR, the 1 MiB mark (256)

ASSUME GeometryAssumption ==
    /\ HugeFrames \in Nat \ {0}
    /\ DirEntries \in Nat \ {0}
    /\ LowFrames \in Nat

\* A frame number no frame has: the walk ended at an entry that is not present.
None == -1

\* The page of slot `slot' (PML4 index) at which frame f appears when the slot
\* maps physical memory one to one: slot base + physical address.
V(slot, f) == << slot, f \div (HugeFrames * DirEntries),
                 (f \div HugeFrames) % DirEntries, f % HugeFrames >>

\* PageTableEntry::set, isHugePage, getPhys, PageFlags
TableEntry(f) == [phys |-> f, huge |-> FALSE, cached |-> TRUE]
PageEntry(r) == [phys |-> r.phys, huge |-> r.huge, cached |-> r.cached]

Present(pte, t, i) == << t, i >> \in DOMAIN pte

\* getNextPageTable, whose use is guarded by isPresent everywhere.
Down(pte, t, i) == IF Present(pte, t, i) THEN pte[<< t, i >>].phys ELSE None

Directory(pte, root, v) == Down(pte, Down(pte, root, v[1]), v[2])

IsHuge(pte, t, i) == Present(pte, t, i) /\ pte[<< t, i >>].huge

\* What the processor's walk finds: the frame page v leads to, or None.
Translate(pte, root, v) ==
    LET pd == Directory(pte, root, v)
        next == Down(pte, pd, v[3])
    IN  IF IsHuge(pte, pd, v[3]) THEN next + v[4] ELSE Down(pte, next, v[4])

-------------------------------------------------------------------------------
(***************************************************************************)
(* The steps of map.  They pass along s = [pte, free, stray, oom]: the     *)
(* words, the frames of the PMM, the frames written as a table that are    *)
(* none, and whether a table could not be allocated.                       *)
(***************************************************************************)

\* Slip: the new table keeps what the frame held.
ClearTableSkipped(pte, t) == pte

\* PageTable::clear
ClearTable(pte, t) == Restrict(pte, {w \in DOMAIN pte : w[1] # t})

SetEntry(pte, t, i, e) ==
    [w \in DOMAIN pte \cup {<< t, i >>} |-> IF w = << t, i >> THEN e ELSE pte[w]]

Link(s, t, i, new) ==
    [s EXCEPT !.pte = SetEntry(ClearTable(@, new), t, i, TableEntry(new))]

\* Slip: without memory the entry is linked as if clear() had not faulted.
GetOrAllocUnchecked(s, t, i, nullTable) ==
    IF Present(s.pte, t, i) THEN s
    ELSE IF s.free # {} THEN
        [Link(s, t, i, Min(s.free)) EXCEPT !.free = @ \ {Min(s.free)}]
    ELSE Link(s, t, i, nullTable)

\* getOrAlloc of map: link a fresh, cleared table if the entry is not present.
\* Without memory PMM::Alloc returns nullptr, which nobody tests: it stands for
\* frame nullTable in the bootloader, and in the kernel (None) the clearing of
\* the table faults.
GetOrAlloc(s, t, i, nullTable) ==
    IF Present(s.pte, t, i) THEN s
    ELSE IF s.free # {} THEN
        [Link(s, t, i, Min(s.free)) EXCEPT !.free = @ \ {Min(s.free)}]
    ELSE IF nullTable # None THEN
        [Link(s, t, i, nullTable) EXCEPT !.oom = TRUE, !.stray = @ \cup {nullTable}]
    ELSE [s EXCEPT !.oom = TRUE]

\* The two upper levels of map: the state and, by Directory, the directory.
WithDirectory(s, root, v, nullTable) ==
    LET s1 == GetOrAlloc(s, root, v[1], nullTable)
    IN  GetOrAlloc(s1, Down(s1.pte, root, v[1]), v[2], nullTable)

WithTable(s, root, v, nullTable) ==
    LET s2 == WithDirectory(s, root, v, nullTable)
    IN  GetOrAlloc(s2, Directory(s2.pte, root, v), v[3], nullTable)

\* map of the bootloader: every entry is set whatever it held.  A small page
\* under a huge entry is written into the frame the huge page starts at.
BootMap(s, root, r) ==
    IF r.huge THEN
        LET s2 == WithDirectory(s, root, r.virt, 0)
            pd == Directory(s2.pte, root, r.virt)
        IN  [s2 EXCEPT !.pte = SetEntry(@, pd, r.virt[3], PageEntry(r))]
    ELSE
        LET s3 == WithTable(s, root, r.virt, 0)
            pd == Directory(s3.pte, root, r.virt)
            pt == Down(s3.pte, pd, r.virt[3])
        IN  [s3 EXCEPT !.pte = SetEntry(@, pt, r.virt[4], PageEntry(r)),
                       !.stray = IF IsHuge(s3.pte, pd, r.virt[3]) THEN @ \cup {pt} ELSE @]

\* The entry that map would set, once the tables above it exist.
Slot(pte, root, r) ==
    LET pd == Directory(pte, root, r.virt)
    IN  IF r.huge THEN << pd, r.virt[3] >> ELSE << Down(pte, pd, r.virt[3]), r.virt[4] >>

\* Slip: the small-page branch does not look for a huge page.
SizesClashHugeOnly(pte, root, r) ==
    LET pd == Directory(pte, root, r.virt)
    IN  r.huge /\ Present(pte, pd, r.virt[3]) /\ ~IsHuge(pte, pd, r.virt[3])

\* KERNEL_PANIC of the kernel's map: the page sizes clash in the directory.
SizesClash(pte, root, r) ==
    LET pd == Directory(pte, root, r.virt)
    IN  Present(pte, pd, r.virt[3]) /\ IsHuge(pte, pd, r.virt[3]) # r.huge

\* What the kernel's map builds before it looks at the entry itself.
KernelTables(s, root, r) ==
    LET s2 == WithDirectory(s, root, r.virt, None)
    IN  IF r.huge \/ s2.oom \/ SizesClash(s2.pte, root, r) THEN s2
        ELSE WithTable(s2, root, r.virt, None)

\* unmap: the entry that is cleared, if the walk gets there.
Unmapped(pte, root, v) ==
    LET pd == Directory(pte, root, v)
        word == IF IsHuge(pte, pd, v[3]) THEN << pd, v[3] >>
                ELSE << Down(pte, pd, v[3]), v[4] >>
    IN  Restrict(pte, DOMAIN pte \ {word})

===============================================================================
