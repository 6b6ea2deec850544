--------------------------------- MODULE VMM ---------------------------------
(***************************************************************************)
(* The virtual memory manager, kernel::VMM: the bootloader builds page     *)
(* tables with its own map, loads them and jumps to the kernel, whose Init *)
(* takes the identity map of usable memory away again; then callers map    *)
(* devices, allocate mapped memory, unmap and free it.  Every map and      *)
(* unmap is a step of its own: `todo' holds those the running operation    *)
(* still has to make.  The processor may cache any translation it could    *)
(* make (`tlb').  Frames come from the PMM lowest first.                   *)
(***************************************************************************)
EXTENDS PageTables, SequencesExt

CONSTANTS
    Identity, HHDM, MMIO, Kern, Heap,   \* PML4 slots of the layout
    Machines,       \* memory maps in frames, kernel, image, free frames
    HeapPages,      \* the pages that callers of VMM::Alloc and map use
    DevicePages,    \* device frames that drivers map with mapMMIO
    CachedPages,    \* the pages whose translations the processor caches
    MaxFrame,       \* highest frame number of memory and devices
    Asserts         \* FALSE when built with NDEBUG

VARIABLES
    machine,
    phase,     \* "loader", "booting", "kernel", "halted"
    pte,       \* the words of the page tables, see PageTables
    cr3,       \* m_pml4Phys
    free,      \* the frames the PMM would hand out
    held,      \* frames that callers of VMM::Alloc hold
    todo,      \* the maps and unmaps the running operation has still to do
    tlb,       \* translations the processor has cached
    stray      \* frames written as a page table that are none

vars == <<machine, phase, pte, cr3, free, held, todo, tlb, stray>>

-------------------------------------------------------------------------------
(***************************************************************************)
(* What the bootloader maps, in its order                                  *)
(***************************************************************************)

MapReq(slot, f, huge, cached) ==
    [kind |-> "map", virt |-> V(slot, f), phys |-> f, huge |-> huge, cached |-> cached]

UnmapReq(v) == [kind |-> "unmap", virt |-> v]

\* Small pages for the frames first .. last of a slot.
SmallPages(slot, first, last) ==
    [k \in 1 .. (last - first + 1) |-> MapReq(slot, first + k - 1, FALSE, TRUE)]

\* Chunks of an entry, rounded outwards to huge pages: their first frames.
Chunks(e) ==
    LET first == e.base \div HugeFrames
        last == (e.base + e.length + HugeFrames - 1) \div HugeFrames - 1
    IN  [k \in 1 .. (last - first + 1) |-> (first + k - 1) * HugeFrames]

IsUsable(e) == e.type = "Usable"

\* One chunk: the HHDM always, the identity map for usable memory above 1 MiB.
ChunkMaps(e, f) ==
    << MapReq(HHDM, f, TRUE, IsUsable(e)) >>
    \o IF f <= LowFrames \/ ~IsUsable(e) THEN << >>
       ELSE << MapReq(Identity, f, TRUE, TRUE) >>

EntryMaps(e) == FlattenSeq([k \in DOMAIN Chunks(e) |-> ChunkMaps(e, Chunks(e)[k])])

\* VMM::Init of the bootloader after the PML4: image, HHDM and identity map,
\* low memory, the loader's own image.
BootMaps(m) ==
    SmallPages(Kern, LowFrames, LowFrames + m.kernelFrames - 1)
    \o FlattenSeq([i \in DOMAIN m.map |-> EntryMaps(m.map[i])])
    \o SmallPages(Identity, 0, LowFrames - 1)
    \o SmallPages(Identity, m.imageFirst, m.imageLast)

\* Slip: chunks counted by the entry's length alone.
EntryUnmapsByLength(e) ==
    IF ~IsUsable(e) THEN << >>
    ELSE [k \in 1 .. (e.length \div HugeFrames) |-> UnmapReq(V(Identity, Chunks(e)[k]))]

\* VMM::Init of the kernel: one unmap per chunk of usable memory.
EntryUnmaps(e) ==
    IF ~IsUsable(e) THEN << >>
    ELSE [k \in DOMAIN Chunks(e) |-> UnmapReq(V(Identity, Chunks(e)[k]))]

KernelUnmaps(m) == FlattenSeq([i \in DOMAIN m.map |-> EntryUnmaps(m.map[i])])

-------------------------------------------------------------------------------
(***************************************************************************)
(* What the constants are                                                  *)
(***************************************************************************)

Frames == 0 .. MaxFrame
Virtual == Nat \X Nat \X Nat \X (0 .. HugeFrames - 1)
HugeFits(f) == f + HugeFrames - 1 \in Frames

\* An entry of a page table whose frames exist.
Entries == {e \in [phys : Frames, huge : BOOLEAN, cached : BOOLEAN] : e.huge => HugeFits(e.phys)}

BootRequests ==
    {r \in {MapReq(slot, f, huge, cached) : slot \in {Identity, HHDM, Kern}, f \in Frames,
                                           huge \in BOOLEAN, cached \in BOOLEAN} :
        r.huge => HugeFits(r.phys)}

UnmapRequests == {UnmapReq(V(Identity, f)) : f \in Frames}

ASSUME LayoutAssumption ==
    /\ MaxFrame \in Nat /\ {Identity, HHDM, MMIO, Kern, Heap} \subseteq Nat
    /\ Identity \notin {HHDM, MMIO, Kern, Heap} /\ Heap \notin {HHDM, Kern}

MapEntries == [base : Nat, length : Nat, type : STRING]

\* Memory holds anything that memory can hold; the frames that the loader maps exist.
ASSUME MachinesAssumption ==
    \A m \in Machines :
        /\ m.free \subseteq Frames
        /\ DOMAIN m.garbage \subseteq Frames \X Nat
        /\ \A w \in DOMAIN m.garbage : m.garbage[w] \in Entries
        /\ m.map \in Seq(MapEntries)
        /\ \A i \in DOMAIN m.map : \A f \in Range(Chunks(m.map[i])) : HugeFits(f)
        /\ m.kernelFrames \in Nat /\ LowFrames + m.kernelFrames <= MaxFrame + 1
        /\ m.imageFirst \in Nat /\ m.imageLast \in Frames

\* Callers use the heap's slot for memory, and device frames are not the PMM's.
ASSUME CallersAssumption ==
    /\ HeapPages \subseteq Virtual /\ \A v \in HeapPages : v[1] = Heap
    /\ CachedPages \subseteq Virtual
    /\ \A d \in DevicePages :
         /\ d[1] \in Frames /\ d[2] \in Frames
         /\ d[1] % HugeFrames = 0 => HugeFits(d[1])
         /\ \A m \in Machines : \A f \in m.free : f < d[1] \/ (f > d[2] /\ f >= d[1] + HugeFrames)

\* The bootloader uses no huge page in two sizes: the loader's image is not in the
\* same one as usable memory.
SizesAgree(m) ==
    \A j, k \in DOMAIN BootMaps(m) :
        SubSeq(BootMaps(m)[j].virt, 1, 3) = SubSeq(BootMaps(m)[k].virt, 1, 3) =>
            BootMaps(m)[j].huge = BootMaps(m)[k].huge

\* The memory at address 0 is in a huge page that a usable entry reaches.
LowMemoryUsable(m) ==
    \E i \in DOMAIN m.map : IsUsable(m.map[i]) /\ 0 \in Range(Chunks(m.map[i]))

\* The tables that the maps of the bootloader need below the PML4, by the indices
\* that lead to them, and memory for all of them.
TablesNeeded(m) ==
    LET requests == Range(BootMaps(m))
    IN  {<< r.virt[1] >> : r \in requests}
        \cup {<< r.virt[1], r.virt[2] >> : r \in requests}
        \cup {<< r.virt[1], r.virt[2], r.virt[3] >> : r \in {q \in requests : ~q.huge}}

MemorySuffices(m) == IsFiniteSet(m.free) /\ Cardinality(TablesNeeded(m)) < Cardinality(m.free)

-------------------------------------------------------------------------------
Tables == [pte |-> pte, free |-> free, stray |-> stray, oom |-> FALSE]

Install(s) == pte' = s.pte /\ free' = s.free /\ stray' = s.stray

\* Memory is what the firmware left in it.
Init ==
    /\ machine \in Machines
    /\ phase = "loader"
    /\ pte = machine.garbage
    /\ cr3 = None
    /\ free = machine.free
    /\ held = {}
    /\ todo = << >>
    /\ tlb = {}
    /\ stray = {}

\* VMM::Init of the bootloader: the PML4, then the maps one after the other.
\* PMM::Alloc's nullptr is frame 0 here.
BootInit ==
    /\ phase = "loader"
    /\ phase' = "booting"
    /\ cr3' = IF free = {} THEN 0 ELSE Min(free)
    /\ pte' = ClearTable(pte, cr3')
    /\ free' = free \ {cr3'}
    /\ stray' = IF free = {} THEN {0} ELSE {}
    /\ todo' = BootMaps(machine)
    /\ UNCHANGED <<machine, held, tlb>>

BootMapStep ==
    /\ phase = "booting" /\ todo # << >>
    /\ Install(BootMap(Tables, cr3, Head(todo)))
    /\ todo' = Tail(todo)
    /\ UNCHANGED <<machine, phase, cr3, held, tlb>>

\* loadCR3, the jump to the kernel and the start of its VMM::Init, which reads
\* CR3 back and finds the tables through the HHDM.
KernelInit ==
    /\ phase = "booting" /\ todo = << >>
    /\ phase' = "kernel"
    /\ todo' = KernelUnmaps(machine)
    /\ UNCHANGED <<machine, pte, cr3, free, held, tlb, stray>>

\* unmap: clear the entry, then invlpg, which drops whatever translation of the
\* page is cached; an early return leaves nothing to drop.
Reaches(v) ==
    LET pd == Directory(pte, cr3, v) IN Present(pte, pd, v[3])

Covers(e, v) == SubSeq(e.virt, 1, 3) = SubSeq(v, 1, 3) /\ (e.huge \/ e.virt[4] = v[4])

\* Slip: invlpg thought of as dropping the one page.
InvlpgExact(v) == {e \in tlb : e.virt # v}

Invlpg(v) == {e \in tlb : ~Covers(e, v)}

\* Slip: the entry is cleared and the cached translation left.
UnmapStepUnflushed ==
    /\ phase = "kernel" /\ todo # << >> /\ Head(todo).kind = "unmap"
    /\ pte' = IF Reaches(Head(todo).virt) THEN Unmapped(pte, cr3, Head(todo).virt) ELSE pte
    /\ todo' = Tail(todo)
    /\ UNCHANGED <<machine, phase, cr3, free, held, tlb, stray>>

UnmapStep ==
    /\ phase = "kernel" /\ todo # << >> /\ Head(todo).kind = "unmap"
    /\ LET v == Head(todo).virt
       IN  IF Reaches(v)
           THEN pte' = Unmapped(pte, cr3, v) /\ tlb' = Invlpg(v)
           ELSE UNCHANGED <<pte, tlb>>
    /\ todo' = Tail(todo)
    /\ UNCHANGED <<machine, phase, cr3, free, held, stray>>

\* map of the kernel, one outcome each.
Built == KernelTables(Tables, cr3, Head(todo))
TheSlot == Slot(Built.pte, cr3, Head(todo))

Mapping == phase = "kernel" /\ todo # << >> /\ Head(todo).kind = "map"

Panics ==
    \/ Built.oom                                   \* the fault of clear()
    \/ SizesClash(Built.pte, cr3, Head(todo))      \* KERNEL_PANIC
    \/ /\ Asserts                                  \* KERNEL_ASSERT
       /\ TheSlot \in DOMAIN Built.pte
       /\ Built.pte[TheSlot].phys # Head(todo).phys

MapPanics ==
    /\ Mapping /\ Panics
    /\ Install(Built)
    /\ phase' = "halted"
    /\ UNCHANGED <<machine, cr3, held, todo, tlb>>

\* The page is mapped already; without assertions wherever it leads.
MapFinds ==
    /\ Mapping /\ ~Panics
    /\ TheSlot \in DOMAIN Built.pte
    /\ Install(Built)
    /\ todo' = Tail(todo)
    /\ UNCHANGED <<machine, phase, cr3, held, tlb>>

MapSets ==
    /\ Mapping /\ ~Panics
    /\ TheSlot \notin DOMAIN Built.pte
    /\ Install([Built EXCEPT !.pte = SetEntry(@, TheSlot[1], TheSlot[2], PageEntry(Head(todo)))])
    /\ todo' = Tail(todo)
    /\ UNCHANGED <<machine, phase, cr3, held, tlb>>

-------------------------------------------------------------------------------
(***************************************************************************)
(* The kernel's callers                                                    *)
(***************************************************************************)

Idle == phase = "kernel" /\ todo = << >>

\* mapMMIO(MMIO_TO_VIRT(phys), phys, size)
MapMMIO(first, last) ==
    /\ Idle
    /\ todo' = [k \in 1 .. (last - first + 1) |-> MapReq(MMIO, first + k - 1, FALSE, FALSE)]
    /\ UNCHANGED <<machine, phase, pte, cr3, free, held, tlb, stray>>

\* PMM::Alloc(n): the lowest run of n frames.
Runs(n) == {f \in free : \A k \in 0 .. (n - 1) : f + k \in free}

\* VMM::Alloc, and the tests' pmm.Alloc followed by map.
AllocPages(v, n) ==
    /\ Idle /\ Runs(n) # {}
    /\ LET f == Min(Runs(n))
       IN  /\ free' = free \ (f .. (f + n - 1))
           /\ held' = held \cup (f .. (f + n - 1))
           /\ todo' = [k \in 1 .. n |->
                 [kind |-> "map", virt |-> [v EXCEPT ![4] = @ + k - 1], phys |-> f + k - 1,
                  huge |-> FALSE, cached |-> TRUE]]
    /\ UNCHANGED <<machine, phase, pte, cr3, tlb, stray>>

\* map of a huge page, on device memory.
MapHuge(v, f) ==
    /\ Idle
    /\ todo' = << [kind |-> "map", virt |-> v, phys |-> f, huge |-> TRUE, cached |-> FALSE] >>
    /\ UNCHANGED <<machine, phase, pte, cr3, free, held, tlb, stray>>

Unmap(v) ==
    /\ Idle
    /\ todo' = << UnmapReq(v) >>
    /\ UNCHANGED <<machine, phase, pte, cr3, free, held, tlb, stray>>

\* A caller gives back a frame it has unmapped.
FreeFrame(f) ==
    /\ Idle
    /\ \A v \in HeapPages : Translate(pte, cr3, v) # f
    /\ free' = free \cup {f}
    /\ held' = held \ {f}
    /\ UNCHANGED <<machine, phase, pte, cr3, todo, tlb, stray>>

\* The processor walks the tables and caches what it finds, at any time.
Walk(v) ==
    /\ phase = "kernel"
    /\ Translate(pte, cr3, v) # None
    /\ LET huge == IsHuge(pte, Directory(pte, cr3, v), v[3])
       IN  tlb' = tlb \cup {[virt |-> v, huge |-> huge, phys |-> Translate(pte, cr3, v)]}
    /\ UNCHANGED <<machine, phase, pte, cr3, free, held, todo, stray>>

Next ==
    \/ BootInit
    \/ BootMapStep
    \/ KernelInit
    \/ UnmapStep
    \/ MapPanics
    \/ MapFinds
    \/ MapSets
    \/ \E d \in DevicePages : MapMMIO(d[1], d[2])
    \/ \E v \in HeapPages, n \in 1 .. 2 :
          v[4] + n <= HugeFrames /\ AllocPages(v, n)
    \/ \E v \in HeapPages, d \in DevicePages :
          v[4] = 0 /\ d[1] % HugeFrames = 0 /\ MapHuge(v, d[1])
    \/ \E v \in HeapPages : Unmap(v)
    \/ \E f \in held : FreeFrame(f)
    \/ \E v \in CachedPages : Walk(v)

Spec == Init /\ [][Next]_vars

-------------------------------------------------------------------------------
(***************************************************************************)
(* Properties                                                              *)
(***************************************************************************)

Slots == {Identity, HHDM, MMIO, Kern, Heap}
Pages == {V(s, f) : s \in Slots, f \in Frames}

TypeOK ==
    /\ machine \in Machines
    /\ phase \in {"loader", "booting", "kernel", "halted"}
    /\ \A w \in DOMAIN pte :
         /\ w \in Frames \X Nat
         /\ pte[w] \in [phys : Frames, huge : BOOLEAN, cached : BOOLEAN]
    /\ cr3 \in Frames \cup {None}
    /\ free \subseteq machine.free /\ held \subseteq machine.free
    /\ \A k \in DOMAIN todo : todo[k].kind \in {"map", "unmap"}
    /\ \A e \in tlb : e.virt \in CachedPages /\ e.phys \in Frames
    /\ stray \subseteq Frames

\* The words of the tables in T that lead to further tables.
LinksIn(T) == {w \in DOMAIN pte : w[1] \in T /\ ~pte[w].huge}
Targets(W) == {pte[w].phys : w \in W}

Links ==
    LET top == LinksIn({cr3})
        mid == LinksIn(Targets(top))
    IN  top \cup mid \cup LinksIn(Targets(mid))

TableFrames == {cr3} \cup Targets(Links)

\* Every table hangs on one entry only and sits in a frame that was taken from
\* the PMM for it: not free again, not held by a caller, not the kernel's, the
\* loader's or the bitmap's.
TablesFormATree ==
    phase \in {"booting", "kernel", "halted"} =>
        /\ \A a, b \in Links : pte[a].phys = pte[b].phys => a = b
        /\ cr3 \notin Targets(Links)
        /\ TableFrames \subseteq machine.free \ (free \cup held)

\* After the jump, whatever is mapped, unmapped or refused: the kernel's image
\* and all memory of the map stay where the kernel accesses them.
KernelStaysMapped ==
    phase \in {"kernel", "halted"} =>
        /\ \A f \in LowFrames .. (LowFrames + machine.kernelFrames - 1) :
             Translate(pte, cr3, V(Kern, f)) = f
        /\ \A i \in DOMAIN machine.map :
             \A f \in machine.map[i].base .. (machine.map[i].base + machine.map[i].length - 1) :
                 Translate(pte, cr3, V(HHDM, f)) = f

\* "Identity map low memory (only as long as boot services still running)", says
\* planning/kernelBootSequence.txt: once the kernel's Init is done, nothing can be
\* reached by its physical address. The code does otherwise. Low memory and the
\* loader's image are mapped in small pages, of which Init's unmap takes one.
IdentityMapIsGone == Idle => \A f \in Frames : Translate(pte, cr3, V(Identity, f)) = None

\* The huge page that holds frame f, by its first frame.
HugeStart(f) == HugeFrames * (f \div HugeFrames)

\* What Init does take away: the huge pages that the bootloader had mapped one to
\* one for the usable memory above the 1 MiB mark, and whatever else is in them.
UsableMemoryIsUnmapped ==
    Idle =>
        \A i \in DOMAIN machine.map : IsUsable(machine.map[i]) =>
            \A f \in machine.map[i].base .. (machine.map[i].base + machine.map[i].length - 1) :
                LowFrames < HugeStart(f) => Translate(pte, cr3, V(Identity, f)) = None

\* The kernel leaves physical addresses behind for the high half: what it needs
\* there is mapped all along, and the usable memory that the loader had mapped in
\* huge pages one to one is not once Init is done. It is silent on low memory and
\* the loader's image, see IdentityMapIsGone.
MemoryMovedToHighHalf == KernelStaysMapped /\ UsableMemoryIsUnmapped

\* No translation in the processor outlives the entry it came from.
TLBCoherent == \A e \in tlb : Translate(pte, cr3, e.virt) = e.phys

\* A frame the PMM may hand out again is behind no page of a caller, neither in
\* the tables nor in the processor.
FreeFramesUnseen ==
    phase = "kernel" =>
        /\ \A v \in HeapPages : Translate(pte, cr3, v) \notin free
        /\ \A e \in tlb : e.virt \in HeapPages => e.phys \notin free

HugePageOf(p) == {q \in Pages : SubSeq(q, 1, 3) = SubSeq(p, 1, 3)}

\* The address space that the tables define for the processor.
Space ==
    IF phase \in {"loader", "booting"} THEN {}
    ELSE {m \in {<< p, Translate(pte, cr3, p) >> : p \in Pages} : m[2] # None}

Promise == INSTANCE AddressSpace WITH HugePageOf <- HugePageOf, space <- Space

\* From the jump to the kernel on, a step changes the mapping of one page or
\* one huge page and of nothing else, new tables and cleared words included.
ImplementsAddressSpace == Promise!Spec

\* A map that returns leaves the page leading to the frame that was asked for.
MapDelivers ==
    [][Mapping /\ todo' = Tail(todo) =>
         Translate(pte', cr3', Head(todo).virt) = Head(todo).phys]_vars

\* map and unmap do what they are asked for and nothing else.
ChangesAreAsked == ImplementsAddressSpace /\ MapDelivers

\* The bootloader, too, writes page-table entries into page tables only.
OnlyTablesAreWritten == stray = {}

===============================================================================
