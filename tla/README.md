# Lexvi: a TLA+ verification project

Lexvi is a small x86-64 operating system in C++: a UEFI bootloader
(`src/boot-uefi/main.cpp`), a kernel (`src/kernel/`, `include/kernel/`) with its
own physical and virtual memory managers, interrupts, a PS/2 keyboard, a text
console and PCI/ACPI access, and documents (`planning/`, `README.md`). All paths
below are relative to the repository root. This directory holds models of its
core in TLA+, configurations for TLC, and proofs for TLAPS.

Contents: [1 inventory](#1-inventory), [2 modules](#2-modules-and-how-they-correspond-to-the-code),
[3 runs](#3-runs), [4 fairness and scheduling](#4-fairness-and-scheduling-assumptions),
[5 proofs](#5-what-is-proved), [6 findings](#6-where-code-and-intention-differ),
[7 limits](#7-what-is-only-model-checked-and-what-is-not-modelled), [8 plan](#8-plan).

## 1 Inventory

One processor, no threads, no scheduler. What makes the system hard is: two
programs (loader and kernel) that hand state over in memory; interrupts that come
between any two instructions of the kernel's code once `idt_init` has executed
`sti`; firmware and devices that change state on their own; and arithmetic at page
boundaries.

The kernel starts in `Kernel::Init` (`src/kernel/kernel.cpp`): memory manager,
console, framebuffer mapping, memory test, GDT, IDT (interrupts on), timer callback,
ACPI tables, PCI tests, P2SB, HPET, chrono. `Kernel::Run` then polls the key queue
for ever.

| Component | State | Operations | Works with | What is hard | What makes it correct |
|---|---|---|---|---|---|
| **PMM** `src/kernel/memory/pmm.cpp` | bitmap, number of pages, bitmap address | `Init` (loader, kernel), `Alloc`, `Free`, `MarkRange*` | firmware map; bitmap address left in low memory for the kernel; VMM takes its tables from it | rounding at both ends; two objects over one bitmap; `Free` without a size | no frame lent twice, none that is someone else's, no leak but the known one |
| **VMM** `src/kernel/memory/vmm.cpp` | page tables in memory, CR3, the processor's TLB | `Init` (loader, kernel), `map` (one of each), `mapMMIO`, `Alloc`, `unmap` | PMM; framebuffer, PCI, HPET through `mapMMIO` | huge and small pages; tables in recycled frames; running out of frames halfway; stale translations | a map changes the page asked for and nothing else; tables stay a tree; the TLB agrees; usable memory leaves the identity map |
| **Bootloader** `src/boot-uefi/main.cpp`, `kernel-config.*` | firmware map and key, pools, files, pages, handoff area below 1 MiB | `LoadKernelBinary`, `TranslateUefiToKernelE820`, `efi_main` | firmware; kernel through fixed addresses | every call may fail; the map changes between calls; retry; overlapping layout | current map handed over, no service after exit, files closed and pools freed on failure, layout disjoint and inside its buffer |
| **Keyboard driver** `src/kernel/keyboard/keyboard.cpp` | `keys_held`, press and repeat times, `shift_held`, `caps_lock`, `extended` | `HandleKeyBoardIRQ`, `KeyBoardTick` | 8042 controller, timer, key queue | multi-byte codes over several interrupts; mouse bytes; two sources of repetition | agrees with the physical keys; each press heard; no phantom repeats; pace |
| **Key queue and main loop** same file, `kernel.cpp` | ring of 64, head, tail | `enqueue`, `dequeue`, `getChar`, `readEscape`, `Run` | handlers produce, main loop consumes | no lock: interrupts between any two accesses of the consumer | a FIFO; a slot is not overwritten while read; sequences are kept whole |
| **GOP console** `src/kernel/debug/gop.cpp` | cursor, framebuffer | `print`, `displayGlyph`, `drawPixel`, `reset` | everybody prints, `isr_handler` included | interrupted print; wrap, tab and backspace at edges | never draws past the edge (assertion), never over a glyph |
| **Interrupt dispatch** `src/kernel/interrupt/` | IDT, PIC masks and requests, the interrupt flag | `idt_init`, `isr_handler`, PIC remap, end of interrupt | timer, keyboard, PS/2 setup, console | IRQs come through interrupt gates (interrupts off), exceptions through trap gates; edges are forgotten while the PIC is initialised; spurious interrupts | each interrupt that comes finds its entry and its callback; none blocks those that follow, none stops the kernel |
| **PS/2 init** `src/kernel/keyboard/ps2.cpp` | the controller's command byte and buffer | `ps2_init` | PIC, keyboard, mouse | a user types meanwhile; one buffer for keys, mouse and answers | the command byte is kept but for three bits; the keyboard is on and is heard |
| **Timer, chrono** `include/kernel/time/`, `src/kernel/time/` | callback table, tick count, HPET period | `timerTick`, `setTickCallbacks`, `chrono::init` | PIT interrupt, HPET | registration while ticks arrive | no call through an unset pointer; ticks go on |
| **ACPI tables** `src/kernel/acpi/` | pointers to constant firmware data | `rsdp_load`, `sdtHeader_load`, `findTable`, `mcfg_load`, `loadFADT`, `hpet_load` | HHDM mapping, VMM | two revisions, counts derived from lengths, missing tables; `validateRSDP` has no caller | finds the table that is there; maps what it will access |
| **PCI configuration space and write tests** `src/kernel/acpi/pci/`, `include/kernel/register/` | hardware registers, a window cached by each address | address by port and by memory, `setBus` and its like; `Register` read, `tmp`, commit; read and write tests | ACPI's MCFG, hardware that sets status bits at any time | the cached window; read-modify-write over write-1-to-clear bits | reaches the register it names; only the bit under test changes |
| **P2SB scope, reset cause** `src/kernel/acpi/pci/p2sb.cpp`, `include/kernel/acpi/pci/p2sb/`, `pmc/` | devices that the firmware hides | `ScopedP2SBCUnhide`, `get_SBREG_BAR`, `getResetCause` | PCI, FADT, VMM | hidden registers read as ones; two builds that write the register differently | the values are the device's; it is hidden again and not locked |
| **SMBus TCO timer** `SMBus/tco.hpp`, `tco.cpp` | – | `disableTCO` (`tco.cpp:7-55`), which nothing calls | – | – | – |
| **GDT, system calls** | constant descriptors | a handler that returns -1 | – | – | no state to check |
| **Utilities, fonts, linker and build scripts** | – | stateless | – | – | – |

Things met while reading that need no model but that a maintainer should know:
`math.hpp:30-46`'s `min` returns the maximum (its one user, `get_LOWEST_ADDRESS`, is
itself unused); boot-services memory is marked usable while the loader still runs on
the firmware's stack in it (`main.cpp:273-276`); `Alloc(0)` returns frame 0; a map that
does not fit its pool ends the boot instead of being retried (`main.cpp:250-257`); a short read of the
kernel's file is not noticed; without a GOP the loader returns success (`main.cpp:375-378`);
holding CapsLock toggles it at the typematic rate (`keyboard.cpp:150`); `isKeyHeld`
masks with 0x7F, so it can never see an arrow, which is kept at 0x80 and up; a system
call's result is written to the frame's `rax`, which the stub then skips
(`idt.cpp:73`, `isr_stubs.nasm:150`); the stubs save no SSE registers; the root table's
32-bit address is asserted to be there even when the 64-bit one is used (`sdt.cpp:26`);
an MCFG shorter than its header underflows the count (`mcfg.cpp:20`); `p2sb.cpp:39` says
of a byte write that it "clears HIDE only", but it writes the whole lane, and in release
builds the bits of P2SBC that are not declared become zero, in debug builds one where the device was hidden;
`setDevice` and `setFunction` skip the constructor's assertions; the last of
the 64 callback entries can never be used (`time.hpp:25`); a loader that gives up
keeps pages: the kernel's (`main.cpp:391-395` and every failure after it) and the handoff
buffer of every attempt (`main.cpp:223-226`, `244-247`, `253-257`, `316-323`).

`PROJECT.json` lists, under `hazards`, each place where this code can go wrong in a way
a test would hardly reach, with the properties that watch it.

## 2 Modules and how they correspond to the code

```
 FrameAllocator  <-- implemented by --  PMM       <- MCPMM, PMMProofs
 AddressSpace    <-- implemented by --  VMM (on PageTables)  <- MCVMM, VMMProofs
 InputQueue      <-- implemented by --  KeyQueue  <- MCKeyQueue, KeyQueueProofs
                                        Keyboard  <- MCKeyboard, KeyboardProofs
                                        BootHandoff <- MCBootHandoff, BootHandoffProofs
                                        Console   <- MCConsole, ConsoleProofs
              PIC (operators)   <----   Interrupts <- MCInterrupts, InterruptsProofs
 Acpi (operators), PciRegister  <----   Platform  <- MCPlatform, PlatformProofs
```

An arrow `<-` leads from the modules that run a model with TLC and prove about it.
What a model needs of its constants is a named `ASSUME` in the module that declares
them; TLC evaluates it in every run, and the proofs cite it by name.

Definitions whose comment starts with "Slip:" are not part of a model. Each is
a plausible mistake in the code (a dropped guard, an off-by-one, a missing reset, a
swapped order) that replaces the definition after it to see that a property notices.
The `mutants` of `PROJECT.json` pair them up; `map` gives the source lines of
every definition.

**PMM** keeps the program's bitmap as the set `used` of frames whose bit is set, and
its fields `m_totalPageNum`, `m_bitMap` and the word at `PMM_BITMAP_PHYS_ADDRESS`.
Addresses are in bytes (`PageSize` to a frame), because rounding is what can go
wrong: `FramesTouching` is `MarkRangeUsed` (outwards), `FramesWithin` is
`MarkRangeFree` (inwards). `BootInit` is the loader's `Init` with bitmap placement,
`ZeroBitMap` and `MarkUsedPages`; `KernelInit` the kernel's, a new object over the same
bitmap. `Alloc(n)` is first fit, `Free(b)` clears one frame whatever the size of the
block, as the code does; the tail goes to the history `lost`.
**FrameAllocator** says what callers may rely on without any bitmap.

**PageTables** has the tables as data: `pte` maps the words `<<frame, index>>` whose
present bit is set to their contents, also in frames that are no tables, because memory
holds garbage until `clear()`. It has the processor's walk (`Translate`), the two
`map`s and `unmap` as operators over that memory. **VMM** runs them:
`BootInit`/`BootMapStep` is the loader's `Init` map by map, `KernelInit`/`UnmapStep` the
kernel's, and `MapMMIO`, `AllocPages`, `MapHuge`, `Unmap`, `FreeFrame` its callers.
The kernel's `map` has one action per outcome: `MapSets`, `MapFinds`, `MapPanics`.
`Walk` is the processor caching a translation at any time. The PMM appears as
its set of free frames, lowest first. **AddressSpace** promises that a step changes
where one page or one huge page leads, and nothing else; VMM's side of the mapping is
`Space`, the pages that lead somewhere with where they lead. `SizesAgree` (the loader
maps no huge page in two sizes) and `MemorySuffices` (there are frames for the loader's
tables) say of a machine what the loader takes for granted and does not test. They are
no assumptions of the model, whose machines may break them: `MachinesFit` and
`SharedClashes` in MCVMM say which do, and the theorems about VMM have them as hypotheses.
`IdentityMapIsGone` is what the boot plan asks for and the code does not do;
`MemoryMovedToHighHalf` is what it does. `LeavesLowMemory`, a theorem about what is left, also
has `LowMemoryUsable`: usable memory reaches the first huge page. Otherwise the kernel's `Init`,
which unmaps usable memory only, would leave page 0 too.

**BootHandoff** is the loader with one action per boot service call and one for the
firmware changing its map between any two. `owned` has files, pools and
pages by name, `memory` the writes to the handoff area with offset and length as
`kernel-config.cpp` computes them. The header's magic is tested twice, in the staging buffer
and, as the step `check`, in the kernel that was placed. The model keeps the code's fatal case, a map that has outgrown its
pool (`FillMapFails`), and its padding by four and two descriptors.

**Keyboard** has one turn of `HandleKeyBoardIRQ`'s loop as a step, for the one byte
that the 8042 can offer at a time, `Tick` for `timerTick` with `KeyBoardTick`, and as
environment the keys that are down, the bytes on the wire, the mouse, and the keyboard's
own repetition at any time. `keysHeld` and the rest are the driver's variables under their
names; `out` is the set of characters that the last step enqueued.
**KeyQueue** has the ring, with every access of either side a step of its own. A handler
begins (`Interrupt`) with the characters it has to enqueue in `pending`, and stores
(`Store`) or drops (`Drop`) them one by one while the main loop stands still. `dequeue` is
`TestEmpty`/`TestSome`, `Read`, `Advance`, and `caller` says whose `getChar` it is, `Run`'s
or one of the two in `readEscape`. The two modules meet in what one handler run
enqueues: `out` of Keyboard, a burst of KeyQueue.
**InputQueue** is a bounded FIFO: what an interrupt offers comes in whole, or as the part of
it that fills the queue.

**Console** splits `GOP::print` where an interrupt matters: cursor moved, glyph drawn,
cursor wrapped. A cell has ink or has none; pixels and colours are left out. With
`Preemptive` the unknown-IRQ message of `isr_handler` comes anywhere, without it only
between prints: `message` is what the handler has still to print, and the interrupted
print stands still until it is empty.

**PIC** has the two 8259s as operators on a record: requests, services, masks, and the
processor's acknowledgement. **Interrupts** is `idt_init` one port access or store at a
time, then `setTickCallbacks` store by store, then the main loop, with the timer,
a user who types, a mouse and the 8042 at any moment from before `pic_remap` on, and
`isr_handler` in its outcomes. `ps2_init` disables the two ports in two steps. The 8042 has one output buffer and a command byte; an
interrupt line is up while the buffer holds a byte of its device, and `Controller` turns a rise into
an edge for the PIC, so a byte that sits in the buffer while the PIC forgets its edges
really raises none. Nothing orders the two stores of
`callbacks[callBackNum++] = first` (`time.hpp:26`), so `SetTickCallbacks` makes them in either
order. A tick that calls a callback which is counted and not stored faults (`TimerFaults`):
`isr_handler` panics and the processor is "halted". What bytes mean is Keyboard's
business: here a byte is a number, to see that it is read.

**PciRegister** is `Register<...>`'s commit and the write test over a register whose
bits are declared plain, `C_Bit` or not at all, while the hardware sets status bits
between any two steps.

**Acpi** has what is computed from the firmware's tables as operators: `FindTable`,
`McfgGetEntry`, both forms of a PCI address with the cached window, `PwrmBaseFromFadt`, and
the host bridge's reading of those addresses, which is the reference they are checked against.
**Platform** runs them as the second half of `Kernel::Init`, a call a step, with
PciRegister's test inside, and afterwards a caller who moves an address and uses it.
`Proceeds` collects the assertions, null pointers and panics of all calls; where it fails
the kernel stops. `asserts` is the build: the tests (`KERNEL_TEST_FUNC`) are empty without
assertions, and `p2sb.cpp` has two versions. `touched` and `selected` are what the last
step accessed, in memory and as a register.

## 3 Runs

Every run that passes also checks its module's one type invariant. The state counts are
distinct states; the longest run (`key_queue`) takes about 70 s with two workers.

| Run | States | What it checks | Bounds, and why they are enough |
|---|---|---|---|
| `pmm` | 258 | Frames are lent once, from usable memory nobody else has; the bitmap is well placed; every set bit is accounted for; PMM implements FrameAllocator | Four machines: one plain; one with entries out of order, a region too small for the bitmap and the image between usable regions; one with the image right before the bitmap's region; one without room for a bitmap. Two bytes a frame and five bits a bitmap byte make images and bitmaps end inside frames. Blocks of 1 to 3 frames: a tail of two is lost by `Free`. |
| `vmm` | 1 680 | Tables stay a tree in the PMM's frames; `MemoryMovedToHighHalf`: kernel and HHDM stay mapped, the huge pages of usable memory leave the identity map; the TLB and freed frames agree with the tables; `ChangesAreAsked`: VMM implements AddressSpace, and `map` delivers | Huge pages of 4 frames, 24 frames of memory. One machine has fewer frames than the callers can ask for, so that table building stops at every level; the other has a kernel beyond its first huge page and usable and reserved memory in one huge page. |
| `vmm_shared_image` | violation | `OnlyTablesAreWritten` | The loader's image in the middle of usable memory |
| `vmm_identity` | violation | `IdentityMapIsGone` | The machines of `vmm` |
| `key_queue` | 337 493 | `SequencesStayWhole`, the FIFO (a slot is not overwritten while it is read), and that every character is taken | Ring of five: one more than an arrow's sequence, so sequences wrap, fit exactly and are cut. Keys that type `[` and `A` compete with the arrow. |
| `keyboard` | 434 920 | Held keys match physical keys, presses are heard, repeats are scheduled, paced and never of a key that is up | One key of each kind: a character, a code shared with an arrow, the arrow, a foreign extended key, Shift, CapsLock; a mouse byte equal to 0xE0. Two keys down, delay 2, rate 1, three ticks: a press, a repeat by the timer and one after it. |
| `boot_handoff` | 18 154 | `HandoffIsSound`: the map handed over is current, writes do not overlap, the map fits its buffer, no boot service is called after exit; `FailureKeepsPagesAlone`: on a failure files are closed and pools freed, the kernel's pages and one buffer per attempt stay; `LoaderEnds` | All five attempts; maps of 1 to 5 descriptors, so growth exceeds each padding; pages of two descriptors, so that a page's slack does not hide a buffer that is too small. The sizes of words and structures are the real ones. |
| `boot_layout` | violation | `HandoffStaysInBuffer` | As above |
| `console` | 54 739 | Glyphs are drawn on the screen and never over one another | 6 by 3 cells with tab stops at 4: a stop inside a row and one past it |
| `console_irq` | violation | `DrawsOnScreen` with interrupts inside `print` | As above |
| `interrupts` | 64 834 | `InterruptsAreExpected`: an interrupt finds the kernel's table, an entry and, but for a tick between the two stores of `setTickCallbacks`, its callback, in either order of the stores; `CommandByteIsKept`; `EveryByteIsHeard` and `TicksGoOn` under fairness | Three bytes from the keyboard, so that one is flushed, one is taken for the acknowledgement and one is heard; two from the mouse, before and after its port is disabled; all command bytes a firmware may leave with the keyboard's clock on |
| `platform` | 27 980 | `AccessesAreRight`: device memory is only accessed where it is mapped, and both kinds of configuration access reach the register that is named; `FindsTheTable`; `BasesAreTheDevices`: hidden devices give their real values and are hidden again; `FlipTouchesOneBit` | Fifteen machines in both builds: both revisions, one and two ECAM windows (buses 0 to 3; a caller also names bus 4, which nobody owns), each table missing, devices hidden or not, four places of the PM timer. The write tests' register has one bit of each kind: writable and declared, declared but locked, two status bits, read-only, undeclared. `Word`, the width of `BASEADDR`, is 2^30, within TLC's integers |

Deadlock is checked in the runs of KeyQueue, Keyboard, Console and Platform. It is not
checked where the system stops: BootHandoff in the kernel or back in the firmware,
VMM after a panic, PMM on a machine with no frame to lend or take back, Console in
`console_irq` after the failed assertion, Interrupts after the fault of a tick. Bounds that appear in guards are
named constants: `MaxBlock`, `MaxTick`, `MaxDown`, `MaxBytes`, `MaxMouse`, and `MaxAttempts`,
which is the code's.

## 4 Fairness and scheduling assumptions

* *Handlers are not interrupted.* `idt_init` installs IRQs through interrupt gates, so a handler
  runs with interrupts off. Keyboard has what a handler does with one byte or one tick as one
  step; KeyQueue, where the main loop shares the handler's data, has each character as a step
  and lets nothing else run before the last.
* *The main loop is not.* Each access to a shared variable is a step of its own, in source
  order. Nothing in the code (`volatile`, a barrier) forces the compiler to keep that order; the
  models show that the source is right when it does.
* `WF_vars(Enqueue)` and `SF_vars(Loop)` in KeyQueue: a handler that has begun returns, and
  between two handlers the interrupted loop gets to run, however often it is interrupted
  (`iretq` goes back to an instruction that is executed before the next interrupt is
  taken, except in an overload that no 1 ms timer and no keyboard produces). No
  fairness on interrupts is assumed: `EveryCharIsTaken` holds whether they come or not.
* `WF_vars(Loader)` in BootHandoff: the loader is the program that runs, boot services
  return. No fairness on the firmware's changes, which may come before every exit:
  `LoaderEnds` rests on the bounded number of attempts.
* `WF_vars(Processor)` in Interrupts: the processor executes, taking an interrupt where one
  waits. `WF_vars(PitTick)`: the timer runs once it is programmed; a tick's period
  (1 ms) is longer than a handler, so `PitTick` waits until the main program has made a step.
  `WF_vars(KeyboardSends)` and `WF_vars(ControllerReplies)`: a keyboard whose clock runs sends
  what it has, and the 8042 answers, without which `ps2_init` waits for ever. Nothing is
  assumed of the user and the mouse.
* A device's transfer is one step: no byte is half on the wire when `ps2_init` disables its
  port. Interrupts are off when `idt_init` starts, as boot services leave them.
* A request whose line has fallen is delivered (as emulated 8259s do) or becomes spurious
  line 7 (as real ones do); the model has both.
* The processor may cache a translation at any time (`Walk`) and need never do so.

## 5 What is proved

Each model has a module of proofs that TLAPS checks, for every value of the constants (every
size of memory, ring, screen, buffer and table, every number of requests, bytes and
interrupts) where TLC has one. All of it is safety; the theorems of the form
`Spec => []P` rest on an inductive invariant, `IInv` in most modules, and the three facts
`Init => IInv`, `IInv /\ [Next]_vars => IInv'`, `IInv => P`, with a step of the second
for every action.

| Module | Theorem | Statement | Beyond the constants' assumptions |
|---|---|---|---|
| `PMMProofs` | `TypeCorrect` | `Spec => []TypeOK` | |
| | `Invariance` | `Spec => []IInv` | |
| | `Exclusive` | `Spec => []LentBlocksDisjoint` | |
| | `Accounting` | `Spec => []UsedIsAccountedFor` | |
| | `LentIsUsable`, `LentIsNobodys` | `Spec => []LentMemoryIsUsable`, `Spec => []LentMemoryIsNobodys` | |
| | `BitmapPlaced` | `Spec => []BitmapIsPlaced` | |
| | `Refinement` | `Spec => ImplementsFrameAllocator` | |
| `VMMProofs` | `TypeCorrect` | `Spec => []TypeOK` | `Fit` |
| | `TablesAreATree` | `Spec => []TablesFormATree` | `Fit` |
| | `TLBIsCoherent` | `Spec => []TLBCoherent` | `Fit` |
| | `FreeFramesAreUnseen` | `Spec => []FreeFramesUnseen` | `Fit` |
| | `WritesAreToTables` | `Spec => []OnlyTablesAreWritten` | `Fit` |
| | `Refinement` | `Spec => ImplementsAddressSpace` | `Fit` |
| | `MovesToHighHalf` | `Spec => []MemoryMovedToHighHalf` | `Fit` |
| | `LeavesLowMemory` | `Spec => []LeftOneToOne` | `Fit`, `LowMemoryUsable` |
| | `MapsDeliver`, `ChangesAsked` | `Spec => MapDelivers`, `Spec => ChangesAreAsked` | `Fit`, `Asserts` |
| `KeyQueueProofs` | `TypeCorrect` | `Spec => []TypeOK` | |
| | `QueueKept` | `Spec => ImplementsInputQueue` | |
| | `SequencesKept` | `Spec => []SequencesStayWhole` | |
| `KeyboardProofs` | `TypeCorrect` | `Spec => []TypeOK` | |
| | `HeldAgrees` | `Spec => []HeldMatchesKeys` | |
| | `PressesHeard` | `Spec => []PressesAreHeard` | |
| | `RepeatsScheduled` | `Spec => []RepeatsAreScheduled` | |
| | `RepeatsPaced` | `Spec => RepeatsArePaced` | |
| | `RepeatsAreReal` | `Spec => NoPhantomRepeats` | |
| `BootHandoffProofs` | `TypeCorrect` | `Spec => []TypeOK` | |
| | `HandoffSound` | `Spec => []HandoffIsSound` | |
| | `FailureKeepsPages` | `Spec => []FailureKeepsPagesAlone` | |
| `ConsoleProofs` | `TypeCorrect` | `Spec => []TypeOK` | |
| | `NeverOverprints` | `Spec => []AheadIsBlank` | `Preemptive = FALSE` |
| | `AssertionHolds` | `Spec => []DrawsOnScreen` | `Preemptive = FALSE` |
| `InterruptsProofs` | `TypeCorrect` | `Spec => []TypeOK` | |
| | `InterruptsExpected` | `Spec => []InterruptsAreExpected` | |
| | `HaltsBetweenStores` | `Spec => [][the kernel halts only between the two stores, by a tick, in the build that counts first]_vars` | |
| | `CommandByteKept` | `Spec => CommandByteIsKept` | |
| `PlatformProofs` | `TypeCorrect` | `Spec => []TypeOK` | |
| | `AccessesRight` | `Spec => []AccessesAreRight` | |
| | `TablesFound` | `Spec => []FindsTheTable` | |
| | `BasesRight` | `Spec => []BasesAreTheDevices` | |
| | `FlipsOneBit` | `Spec => FlipTouchesOneBit` | |

Every hypothesis of the last column is that of the passing run: what happens without it
is among the [findings](#6-where-code-and-intention-differ) (`Fit`, `Preemptive`), the build without
assertions (`Asserts`), or a machine whose first megabyte is reserved (`LowMemoryUsable`).

### PMM

*Assumptions.* `SizesAssumption` (sizes are natural, a page and a byte are not empty),
`MachinesAssumption` (the firmware's data has its type), `LoadedAssumption` (no usable
entry covers the loader's image or the kernel: the firmware reports them as
`EfiLoaderCode` and `EfiLoaderData`, which `TranslateUefiToKernelE820` turns into
"Reserved"). Nothing is assumed about the order, alignment or overlap of entries.

*Argument.* The properties are not inductive. `LentBlocksDisjoint` alone does not survive
`Alloc`, which looks at bits and not at blocks: one must know that a held frame's bit is
set. That bits are set does not survive `Free`, which clears a frame: one must know that
the frame is held by nobody else and is no mark of the boot. `IInv` closes the circle:

* `TypeOK`;
* `Agreed`: once initialised, both PMM objects have computed the same number of frames
  and use the address in the slot;
* `LentInside`: held blocks lie below `totalPages`;
* `LentBlocksDisjoint`;
* `UsedIsAccountedFor`: set bits are the boot's marks, the held frames and the lost
  tails, and these three do not meet.

Lemmas about the roundings (`FramesTouching`, `FramesWithin`, `CeilDiv`) say which
frames they contain, in terms of bytes; they turn "not a mark of the boot" into "shares
no byte with". `BitmapPlaced` needs no invariant beyond `Agreed`: the bitmap starts at a
candidate inside a usable entry, and `LoadedAssumption` keeps the image out of that
entry, which is why comparing with the kernel's end alone is enough. The refinement maps
the free frames to the complement of `used`; `BootInit` maps to `Open`, `KernelInit` to
a stutter, `Alloc` to `Lend`, `Free` to `TakeBack`. Its proof uses `IInv`: `Lend`'s new
block is new because its frames were free.

### VMM

*Assumptions.* `GeometryAssumption` and `LayoutAssumption` (sizes are positive, the identity
map and the heap have slots of the address space that the other parts do not use),
`MachinesAssumption` (memory holds anything; the memory map is a sequence of entries, of any number, order
and overlap, whose chunks are frames of the machine; so are the kernel and the image),
`CallersAssumption` (callers use the heap's slot for memory, device frames are not the PMM's).
*Hypotheses.* `Fit`: on every machine `SizesAgree` and `MemorySuffices`; `Asserts`, without which a
repeated request for another frame returns; `LowMemoryUsable`.

*Argument.* That a map changes one page and no other is a statement about two walks over
memory in which one word has changed. It needs to know that the changed word is on no
other page's way, and for this that the tables are a tree: `Tree(p, r, U, d)`, with a
function `d` that gives every frame its level below the root `r`, in the frames `U` that
are the tables' own. `Adds` and `Removes` say what a map and an unmap do to `Translate`,
`Grows` what building the tables on the way does, which is nothing to any page. `IInv` is

* `Loading`: memory is the firmware's garbage, and nothing is built;
* `Booting`: the tables are a tree; `Room`: there are at least as many free frames as tables still
  missing, which is how the loader gets by without testing `Alloc`'s answer (a counting
  argument: each table built takes one frame and one missing prefix away); `Known`: every entry of a
  directory comes from a request of its size, which is how it gets by without testing for a
  huge page; `HeapEmpty`: the heap's slot is still the kernel's;
* `Running`: in the kernel the tables are a tree in frames that are not lent;
* `Cached`: what the processor remembers is what the tables say, huge pages included;
* `Unseen`: no frame the PMM may hand out is behind a heap page or about to be.

`MemoryMovedToHighHalf` speaks of the whole run of both `Init`s, of what has been mapped and what is
yet to be unmapped, and needs a second invariant on top of `IInv`. `MInv` is

* `BootDelivers`: in the loader, a request is still to be made or its pages lead to its frames, and
  no page leads anywhere that is not of a request. A request may map again what an
  earlier one mapped; it changes nothing, as two requests for a page are for the same
  frame (`SamePhys`, where `SizesAgree` comes in again);
* `HighHalf`: in the kernel, what the loader mapped outside the identity map stays;
* `LowHalf`: a page that is left in the identity map is of a request, and every unmap that would
  have removed it is still to be done;
* `Directed`: the kernel maps devices and the heap, and unmaps the heap and the identity map, which
  is why neither of the two can harm the high half.

What the loader asks for and the kernel takes away are sequences that `FlattenSeq` puts together from
the memory map. `BootMapsHold` and `KernelUnmapsHold` say, for a map of any length, what they
contain. That is induction over data; its induction step is stated over a *set* of naturals
(`SetInduction`) and not over a predicate, and applied to the lengths for which the partial
concatenations exist (`Partials`, `FlattenSeqHolds`), so that no operator has to be
instantiated. The arithmetic of pages and huge pages (`VIsOne`, `VInHugePage`, `ChunksHold`) connects
them with the frames the property names. `SizesAgree` comes in once more: no frame of usable memory
above the 1 MiB mark is in a small page too, so that the unmaps of huge pages are enough.

### Key queue

*Assumption.* `QueueAssumption`: the ring has two slots or more, and a handler enqueues whole keys
(what KeyboardProofs has under `out`). *Argument.* The refinement maps the slots from
`queueHead` to `queueTail` to a sequence; what has to be shown is that an
index that wraps adds to it or takes from it at the right end, for every size of the
ring, and that a character read is still the first when `Advance` drops it. For
`SequencesStayWhole` the invariant `StreamIsWhole` says that what the loop has taken,
followed by what is in the ring and what the handler has still to enqueue, is a sequence of
whole keys as long as nothing was dropped, and that `caller` is where that sequence has it.

### Keyboard

*Assumptions.* `CodesAssumption` (the scan codes of different keys differ, no release looks like 0xE0,
the `KEY_` codes of the arrows are no press codes), `TimesAssumption`
(`REPEAT_RATE` is positive and not above `REPEAT_DELAY`). *Argument.* `HeldMatchesKeys` speaks of quiet moments
only. `IInv` says what holds at the others: `Held1`, `Ext1`, `Shift1` are the driver's view after the byte at
the port, and `Agrees` relates this view, the bytes still on the wire and the keys that are down. The byte moves from
wire to port to driver without changing that relation, which is why no order of prefixes,
mouse bytes and ticks disturbs it. `AtPort` says that the byte at the port follows a prefix if and
only if the driver is in `extended`; `Unheard`, that a press without its character is on
the way and its key is not held when it comes, so that the filter of repetitions
lets it pass; `Scheduled` bounds every held key's repeat time from both sides.
`NoPhantomRepeats` follows from `Agrees`: only a release makes the driver let a key go, and
it is on the wire or at the port.

### Boot handoff

*Assumptions.* `SizesAssumption`; `MapsAssumption`; `GrowthAssumption`: the entries of one map of the firmware
fit in the room that the padded size of any other leaves. The last is about the firmware and is needed: the
loader's padding of four descriptors and a word does not by itself ensure that the map
it has when `ExitBootServices` succeeds fits the buffer it allocated for an earlier
one. *Argument.* The invariant ties the loader's memory to `pc`: `Phases` (services, retries),
`Holdings` (which files, pools and pages are owned at each call, and how many buffers the
attempts have left), `Buffers` and `Fetched` (whose size the
pool has, and which map is in it), `Written` (what has been written where), `Room`.

### Console

*Assumption.* `ScreenAssumption`: a screen has a cell, a tab stop a width. *Argument.* `Types`
bounds the cursor by phase: it may be past the last column or row only between a move and
the wrap that follows. With `Preemptive = FALSE`, `Orderly` adds that a message begins between prints,
and that ink is before the cursor.

### Interrupts

*Assumption.* `InterruptsAssumption`: the bounds are numbers. *Argument.* `Processing` ties the interrupt
flag, the gates and the handler to `pc`; `Requests` says which lines have edges and which are
masked and where their vectors start once `pic_remap` is done; `Stores`, how much of the
callback table is there after each of its two stores; `Typing`, `Wire` and `Reading`, what the
8042's one buffer can hold while `ps2_init` waits for an answer: with both devices off nothing but
the command byte, which is why what `ps2_init` writes back is the byte that was there.

### Platform

*Assumptions.* `RegisterAssumption` (a register is declared as the hardware has it: no status bit
is plain, and no `C_Bit` lies over a bit that keeps what is written, which every commit would clear),
`AddressAssumption`, `TablesAssumption` (lengths fit what tables hold), `HardwareAssumption`
(the tables describe the hardware that is there). *Argument.* `Found`, `Mapped` and `WriteTests` say after
each step of `Kernel::Init` which tables are known, which windows are mapped and that write
tests run where they are called; `Hiding`, that the P2SB is visible in its scope only, with no lock set,
and what was read there; `Caller`, that an address caches the window of its bus or none, however it is
moved; `Reached`, that the register reached is the one named. The encodings of an address are shown to decode, by arithmetic, for every bus, device, function and
offset.

## 6 Where code and intention differ

Four runs end in a violation of something the repository itself says:

1. `vmm_shared_image` (`vmm.cpp:212`): the loader's `map` never looks for a huge page. If
   the firmware puts the loader's image in the same 2 MiB as usable memory, mapping it in
   small pages writes page-table entries into the first data frame of that chunk.
2. `vmm_identity` (`vmm.cpp:55`): the boot plan keeps the identity map "only as long as boot
   services still running" (`planning/kernelBootSequence.txt:15`). The kernel's `Init` steps
   through usable memory by 2 MiB and unmaps one page a step. Of the low memory, mapped in 4 KiB
   pages, page 0 alone goes; the loader's image, in no usable entry, stays as well.
3. `boot_layout` (`main.cpp:231`): the handoff buffer counts six addresses, but a GOP and a
   GOP_Info structure lie among them; both are written below the buffer's start.
4. `console_irq` (`idt.cpp:82`): `isr_handler` prints from interrupt context; inside a
   print whose cursor is past the last column it draws off the screen and fails
   `drawPixel`'s assertion.

Two more are steps of models whose passing run takes them, and which its properties say
nothing against:

5. `TimerFaults` (`time.hpp:26`): interrupts are on and the timer runs when the callback is
   registered. Nothing orders the stores of `callbacks[callBackNum++] = first`, and in a build
   that stores the count first a tick in between calls a null pointer and ends in
   `KERNEL_PANIC("CPU Exception")` (`idt.cpp:105`). `interrupts` reaches this step, so the
   invariant `pc # "halted"` does not hold; `InterruptsAreExpected` and `HaltsBetweenStores` say
   that no other tick does it.
6. `Restore` (`pci-test.hpp:32`): "restore original value regardless of outcome" writes the raw
   value that was read first, and clears every write-1-to-clear status bit that was set before the
   test. `FlipTouchesOneBit` is about the write that flips.

The passing runs exclude the first and the fourth by their configuration, which says so: MCVMM's two
machines have the image in a huge page of its own, `console` has `Preemptive = FALSE`. The second
and the third are in `vmm` and `boot_handoff` too, whose properties ask for less:
`MemoryMovedToHighHalf` of usable memory alone, `MapStaysInBuffer` of the map, its count and the two
addresses next to it.

## 7 What is only model-checked, and what is not modelled

*Only model-checked:*

* liveness, which is out of the prover's reach: `EveryCharIsTaken`, `LoaderEnds`,
  `EveryByteIsHeard`, `TicksGoOn`;
* the four runs that end in a violation.

Everything else that a run checks is a theorem: each of the 29 invariants and each action
property and refinement of the passing runs.
No module declares a RECURSIVE operator.

*Not modelled:*

* in PMM, requests of zero pages and frees of addresses the caller does not hold, both
  outside the callers' contract, and the tests' printing;
* in VMM, the flag bits writable, user and noExecute, which nothing in the code reads
  back. `cached` is carried, but the repository promises nothing about it. With
  `Asserts = FALSE` (NDEBUG) `MapDelivers` does not hold, which no document denies;
* in BootHandoff, the search for the RSDP and calls whose result the code ignores;
* in Console, the carriage return (nobody prints one), number formatting, colours;
* in Keyboard, bytes lost between keyboard and controller, which keeps a byte until it is read;
* in Interrupts, exceptions but for the fault of a tick (they print and halt), system calls (nothing runs in ring 3), the
  registers that the stubs push and pop, and the firmware's own handlers before `lidt`;
* in Platform, the verdict `pciWriteTestRoutine` prints over all its tests, what
  `getResetCause` prints, `log_fadt`, and functions without a caller:
  `validateRSDP`, `chrono::now` and its conversions, the byte and word accessors other than the
  lane that `p2sb.cpp` writes. Tables' checksums are not looked at, by the code or the model;
  malformed lengths are not among the machines, as the firmware's tables are trusted;
* the TCO's registers and `disableTCO` (`tco.cpp:7-55`), which nothing calls;
* GDT, fonts, linker and build scripts: no state whose evolution could go wrong in a way
  a model would show.

## 8 Plan

Done: PMM with its abstract specification; VMM; the boot; keyboard and queue; console; PCI
registers; interrupts with PS/2 setup and the callback's registration; ACPI, PCI addresses, P2SB
and reset cause as one platform; and the safety of each as theorems.

Next, theorems, in this order of importance:

1. The interface between Keyboard and KeyQueue: what a turn of the handler enqueues is whole keys,
   which `QueueAssumption` takes from it.
2. Boot: what of `HandoffIsSound` remains without `GrowthAssumption`.
3. VMM: `SizesAgree` from the memory map and the place of the image, so that `Fit` speaks of
   neither's requests.

Models that could still be joined: Keyboard, KeyQueue and main loop, end to end
from a pressed key to a printed character (each is checked with the other's whole output
as its input); PMM and VMM, the VMM's frames being what the PMM lends.
