----------------------------- MODULE BootHandoff -----------------------------
(***************************************************************************)
(* The bootloader from efi_main to the jump into the kernel                *)
(* (src/boot-uefi/main.cpp): it loads the kernel, fetches the firmware's   *)
(* memory map, leaves boot services with the map's key, and writes what    *)
(* the kernel needs into a buffer below the 1 MiB mark, at offsets that    *)
(* kernel-config.cpp defines.  The firmware may fail any call and, while   *)
(* boot services last, change its map between any two.  Offsets in         *)
(* `memory' are relative to the buffer of the attempt, in bytes.           *)
(***************************************************************************)
EXTENDS Integers, Sequences, FiniteSets

CONSTANTS
    Maps,          \* the memory maps the firmware may have: sequences of types
    MaxAttempts,   \* kMaxAttempts (5)
    PageBytes,     \* EFI page (4096)
    DescSize,      \* size of the firmware's descriptors (48)
    EntrySize,     \* sizeof(E820Entry) (24)
    GopSize,       \* sizeof(kernel::GOP) (40)
    GopInfoSize    \* sizeof(kernel::GOP_Info) (36)

Word == 8

ASSUME SizesAssumption ==
    /\ MaxAttempts \in Nat \ {0} /\ PageBytes \in Nat \ {0} /\ DescSize \in Nat \ {0}
    /\ EntrySize \in Nat /\ GopSize \in Nat /\ GopInfoSize \in Nat

ASSUME MapsAssumption == Maps \subseteq Seq(STRING)

\* The entries of one map fit in the room that the padded size of another leaves.
ASSUME GrowthAssumption ==
    \A m, n \in Maps : Len(n) * EntrySize <= (Len(m) + 4) * DescSize + Word

VARIABLES
    services,    \* are boot services up?
    fwMap,       \* the firmware's map
    fresh,       \* is the key the loader fetched last that of the map?
    pc,          \* where the loader is
    attempt,     \* attempts begun
    mapSize,     \* memory_map_size
    pages,       \* pages of the current buffer
    fetched,     \* uefi_map, as filled
    owned,       \* open files and pool and page allocations by name
    stranded,    \* buffers of earlier attempts
    memory,      \* what was written into the handoff area
    call         \* history: the boot service called in the last step

loaderVars == <<pc, attempt, mapSize, pages, fetched, owned, stranded, memory>>
vars == <<services, fwMap, fresh, loaderVars, call>>

\* EFI_SIZE_TO_PAGES
PagesFor(bytes) == (bytes + PageBytes - 1) \div PageBytes

\* TOTAL_ADDRESSES_SIZE: the sizes of six addresses.
TotalAddressesSize == 6 * Word

\* kernel-config.cpp, from MEMORY_MAP_ADDRESS downwards.
MemoryMapAddress == TotalAddressesSize - Word
EntryCountAddress == MemoryMapAddress - Word
BitmapAddress == EntryCountAddress - Word
RsdpAddress == BitmapAddress - Word

GopAddress == RsdpAddress - GopSize
GopInfoAddress == GopAddress - GopInfoSize

Write(what, at, len, value) == [what |-> what, at |-> at, len |-> len, value |-> value]

\* The entry type of a descriptor type.
EntryType(type) ==
    CASE type \in {"Conventional", "BootServicesCode", "BootServicesData"} -> "Usable"
      [] type = "ACPIReclaim" -> "ACPI_Reclaimable"
      [] type = "ACPINVS" -> "ACPI_NVS"
      [] type = "Unusable" -> "Bad_Memory"
      [] OTHER -> "Reserved"

MapSizeOf(map) == Len(map) * DescSize

Init ==
    /\ services = TRUE
    /\ fwMap \in Maps
    /\ fresh = FALSE
    /\ pc = "gop"
    /\ attempt = 0 /\ mapSize = 0 /\ pages = 0 /\ fetched = << >>
    /\ owned = {} /\ stranded = 0
    /\ memory = {}
    /\ call = "none"

\* A timer event or a driver changes the map and with it its key.
FirmwareChanges ==
    /\ services
    /\ \E m \in Maps : fwMap' = m
    /\ fresh' = FALSE
    /\ call' = "none"
    /\ UNCHANGED <<services, loaderVars>>

\* An allocation changes the map too.
MapMoves == \E m \in Maps : fwMap' = m /\ fresh' = FALSE

-------------------------------------------------------------------------------
(***************************************************************************)
(* efi_main up to the memory map, and LoadKernelBinary                     *)
(***************************************************************************)

\* A boot service succeeds: what it acquires and what is released with it.
Loads(from, to, service, acquired, released) ==
    /\ pc = from /\ pc' = to
    /\ call' = service
    /\ owned' = (owned \cup acquired) \ released
    /\ UNCHANGED <<services, fwMap, fresh, attempt, mapSize, pages, fetched, stranded, memory>>

\* Slip: pools are left to the firmware.
GivesUpHoldingPools(from, service, released) ==
    /\ pc = from /\ pc' = "failed"
    /\ call' = service
    /\ owned' = owned \ (released \cap {"root", "file"})
    /\ UNCHANGED <<services, fwMap, fresh, attempt, mapSize, pages, fetched, stranded, memory>>

\* It fails: the loader cleans up and returns to the firmware.
GivesUp(from, service, released) ==
    /\ pc = from /\ pc' = "failed"
    /\ call' = service
    /\ owned' = owned \ released
    /\ UNCHANGED <<services, fwMap, fresh, attempt, mapSize, pages, fetched, stranded, memory>>

Files == {"root", "file"}

LoadKernelSteps ==
    \/ Loads("gop", "image", "LocateProtocol", {}, {})
    \/ Loads("image", "filesystem", "HandleProtocol", {}, {})
    \/ Loads("filesystem", "volume", "HandleProtocol", {}, {})
    \/ Loads("volume", "open", "OpenVolume", {"root"}, {})
    \/ Loads("open", "info", "Open", {"file"}, {})
    \/ Loads("info", "size", "AllocatePool", {"info"}, {})
    \/ Loads("size", "staging", "GetInfo", {}, {"info"})
    \/ Loads("staging", "read", "AllocatePool", {"staging"}, {})
    \/ Loads("read", "place", "Read", {}, {})
    \/ Loads("place", "check", "AllocatePages", {"kernel"}, Files \cup {"staging"})
    \/ Loads("check", "query", "SetWatchdogTimer", {}, {})

\* A call fails, or the magic of the header is wrong: in the staging buffer, after
\* Read, or in the kernel that was placed.
LoadKernelFails ==
    \/ GivesUp("gop", "LocateProtocol", {})
    \/ GivesUp("image", "HandleProtocol", {})
    \/ GivesUp("filesystem", "HandleProtocol", {})
    \/ GivesUp("volume", "OpenVolume", {})
    \/ GivesUp("open", "Open", {"root"})
    \/ GivesUp("info", "AllocatePool", Files)
    \/ GivesUp("size", "GetInfo", Files \cup {"info"})
    \/ GivesUp("staging", "AllocatePool", Files)
    \/ GivesUp("read", "Read", Files \cup {"staging"})
    \/ GivesUp("place", "AllocatePages", Files \cup {"staging"})
    \/ GivesUp("check", "Print", {})

-------------------------------------------------------------------------------
(***************************************************************************)
(* TranslateUefiToKernelE820                                               *)
(***************************************************************************)

\* The size of the map, padded by four descriptors, or no attempt is left.
\* Print, the last call, is a boot service too.
QuerySize ==
    /\ pc = "query"
    /\ IF attempt < MaxAttempts
       THEN /\ pc' = "allocate" /\ call' = "GetMemoryMap"
            /\ attempt' = attempt + 1
            /\ mapSize' = MapSizeOf(fwMap) + 4 * DescSize
       ELSE /\ pc' = "failed" /\ call' = "Print"
            /\ UNCHANGED <<attempt, mapSize>>
    /\ UNCHANGED <<services, fwMap, fresh, pages, fetched, owned, stranded, memory>>

\* AllocatePages below the mark; the buffer of an attempt before stays.
AllocateBuffer ==
    /\ pc = "allocate"
    /\ pc' = "requery" /\ call' = "AllocatePages"
    /\ pages' = PagesFor(mapSize + TotalAddressesSize)
    /\ stranded' = stranded + (IF "buffer" \in owned THEN 1 ELSE 0)
    /\ owned' = owned \cup {"buffer"}
    /\ memory' = {}
    /\ MapMoves
    /\ UNCHANGED <<services, attempt, mapSize, fetched>>

AllocateFails == GivesUp("allocate", "AllocatePages", {})

RequerySize ==
    /\ pc = "requery"
    /\ pc' = "pool" /\ call' = "GetMemoryMap"
    /\ mapSize' = MapSizeOf(fwMap) + 2 * DescSize
    /\ UNCHANGED <<services, fwMap, fresh, attempt, pages, fetched, owned, stranded, memory>>

AllocatePool ==
    /\ pc = "pool"
    /\ pc' = "fill" /\ call' = "AllocatePool"
    /\ owned' = owned \cup {"map"}
    /\ MapMoves
    /\ UNCHANGED <<services, attempt, mapSize, pages, fetched, stranded, memory>>

AllocatePoolFails == GivesUp("pool", "AllocatePool", {})

FillMap ==
    /\ pc = "fill" /\ MapSizeOf(fwMap) <= mapSize
    /\ pc' = "translate" /\ call' = "GetMemoryMap"
    /\ mapSize' = MapSizeOf(fwMap)
    /\ fetched' = fwMap
    /\ fresh' = TRUE
    /\ UNCHANGED <<services, fwMap, attempt, pages, owned, stranded, memory>>

\* The map has outgrown the buffer: fatal, not a reason to try again.
FillMapFails == MapSizeOf(fwMap) > mapSize /\ GivesUp("fill", "GetMemoryMap", {"map"})

\* The entries and their count.
Translate ==
    /\ pc = "translate"
    /\ pc' = "exit" /\ call' = "none"
    /\ LET count == mapSize \div DescSize
           entries == [i \in 1 .. count |-> EntryType(fetched[i])]
       IN  memory' = memory \cup
             {Write("map", MemoryMapAddress, count * EntrySize, entries),
              Write("count", EntryCountAddress, Word, count)}
    /\ UNCHANGED <<services, fwMap, fresh, attempt, mapSize, pages, fetched, owned, stranded>>

\* Slip: the loader goes on whatever ExitBootServices returned.
ExitSucceedsAnyway ==
    /\ pc = "exit"
    /\ pc' = "rsdp" /\ call' = "ExitBootServices"
    /\ services' = FALSE
    /\ UNCHANGED <<fwMap, fresh, attempt, mapSize, pages, fetched, owned, stranded, memory>>

\* The firmware accepts the key of its current map alone.
ExitSucceeds ==
    /\ pc = "exit" /\ fresh
    /\ pc' = "rsdp" /\ call' = "ExitBootServices"
    /\ services' = FALSE
    /\ UNCHANGED <<fwMap, fresh, attempt, mapSize, pages, fetched, owned, stranded, memory>>

\* Slip: a refused exit is tried again with the key that was refused.
ExitRefusedSameKey ==
    /\ pc = "exit" /\ ~fresh
    /\ call' = "ExitBootServices"
    /\ UNCHANGED <<services, fwMap, fresh, pc, attempt, mapSize, pages, fetched, owned,
                   stranded, memory>>

\* EFI_INVALID_PARAMETER
ExitRefused ==
    /\ pc = "exit" /\ ~fresh
    /\ pc' = "retry" /\ call' = "ExitBootServices"
    /\ UNCHANGED <<services, fwMap, fresh, attempt, mapSize, pages, fetched, owned, stranded, memory>>

ExitFails == GivesUp("exit", "ExitBootServices", {"map"})

\* Slip: the attempts are not counted.
FreeMapAndRetryForever ==
    /\ pc = "retry"
    /\ pc' = "query" /\ call' = "FreePool"
    /\ owned' = owned \ {"map"}
    /\ attempt' = 0
    /\ UNCHANGED <<services, fwMap, fresh, mapSize, pages, fetched, stranded, memory>>

FreeMapAndRetry ==
    /\ pc = "retry"
    /\ pc' = "query" /\ call' = "FreePool"
    /\ owned' = owned \ {"map"}
    /\ UNCHANGED <<services, fwMap, fresh, attempt, mapSize, pages, fetched, stranded, memory>>

-------------------------------------------------------------------------------
(***************************************************************************)
(* efi_main without boot services                                          *)
(***************************************************************************)

Writes(from, to, w) ==
    /\ pc = from /\ pc' = to
    /\ call' = "none"
    /\ memory' = memory \cup {w}
    /\ UNCHANGED <<services, fwMap, fresh, attempt, mapSize, pages, fetched, owned, stranded>>

WriteRsdp == Writes("rsdp", "info of gop", Write("rsdp", RsdpAddress, Word, "rsdp"))
WriteGopInfo == Writes("info of gop", "gop struct", Write("info", GopInfoAddress, GopInfoSize, "info"))
WriteGop == Writes("gop struct", "memory manager", Write("gop", GopAddress, GopSize, "gop"))

\* MemoryManager::Init (PMM, VMM) leaves the bitmap's address; then the jump.
EnterKernel == Writes("memory manager", "kernel", Write("bitmap", BitmapAddress, Word, "bitmap"))

Loader ==
    \/ LoadKernelSteps \/ LoadKernelFails
    \/ QuerySize \/ AllocateBuffer \/ AllocateFails \/ RequerySize
    \/ AllocatePool \/ AllocatePoolFails
    \/ FillMap \/ FillMapFails
    \/ Translate
    \/ ExitSucceeds \/ ExitRefused \/ ExitFails \/ FreeMapAndRetry
    \/ WriteRsdp \/ WriteGopInfo \/ WriteGop \/ EnterKernel

Next == FirmwareChanges \/ Loader

Spec == Init /\ [][Next]_vars

\* The loader is the program that runs.
FairSpec == Spec /\ WF_vars(Loader)

-------------------------------------------------------------------------------
(***************************************************************************)
(* Properties                                                              *)
(***************************************************************************)

Pools == {"info", "staging", "map"}
Exited == {"rsdp", "info of gop", "gop struct", "memory manager", "kernel"}

TypeOK ==
    /\ services \in BOOLEAN /\ fresh \in BOOLEAN
    /\ fwMap \in Maps
    /\ attempt \in 0 .. MaxAttempts
    /\ mapSize \in Nat /\ pages \in Nat
    /\ fetched \in Maps \cup {<< >>}
    /\ owned \subseteq Files \cup Pools \cup {"kernel", "buffer"}
    /\ stranded \in 0 .. (MaxAttempts - 1)
    /\ \A w \in memory : w.at \in Int /\ w.len \in Nat

\* The kernel gets the map that was the firmware's when it left: every entry,
\* in order and with its type, however often the map changed on the way.
HandedMapIsCurrent ==
    pc \in Exited =>
        \A w \in memory :
            /\ w.what = "map" => w.value = [i \in DOMAIN fwMap |-> EntryType(fwMap[i])]
            /\ w.what = "count" => w.value = Len(fwMap)

\* The buffers that attempts have left.
KeptBuffers == stranded + (IF "buffer" \in owned THEN 1 ELSE 0)

\* Whichever call fails, the loader returns to the firmware with its files
\* closed, its pools freed and boot services up.  Pages are what it keeps: the
\* kernel's, once they are placed, and the buffer of every attempt, but for the
\* last one if that got none.
FailureKeepsPagesAlone ==
    pc = "failed" =>
        /\ services
        /\ owned \subseteq {"kernel", "buffer"}
        /\ attempt > 0 => "kernel" \in owned
        /\ KeptBuffers \in (attempt - 1) .. attempt

\* Nothing that is handed over is overwritten by something else.
WritesAreDisjoint ==
    \A v, w \in memory :
        v.what # w.what => v.at + v.len <= w.at \/ w.at + w.len <= v.at

Inside(w) == w.at >= 0 /\ w.at + w.len <= pages * PageBytes

\* The map, its count and the addresses stay in the buffer that was allocated,
\* although the map may grow between the query and the fetch.
MapStaysInBuffer ==
    \A w \in memory : w.what \in {"map", "count", "bitmap", "rsdp"} => Inside(w)

\* Once ExitBootServices has succeeded, no boot service is called.
NoServiceAfterExit == services \/ call \in {"ExitBootServices", "none"}

\* What the kernel finds at the addresses it is given is what was written there,
\* by a loader that the firmware has left alone.
HandoffIsSound ==
    HandedMapIsCurrent /\ WritesAreDisjoint /\ MapStaysInBuffer /\ NoServiceAfterExit

\* The buffer accounts for all the variables handed over.
HandoffStaysInBuffer == \A w \in memory : Inside(w)

\* The loader ends, in the kernel or back in the firmware, although the firmware
\* may change the map before every exit.
LoaderEnds == <>(pc \in {"kernel", "failed"})

===============================================================================
