--------------------------- MODULE BootHandoffProofs ---------------------------
(***************************************************************************)
(* For every set of maps the firmware may have, every size and every       *)
(* number of attempts: what the loader owns, what it writes and what it    *)
(* hands over.                                                             *)
(***************************************************************************)
EXTENDS BootHandoff, TLAPS

-------------------------------------------------------------------------------
(***************************************************************************)
(* The inductive invariant                                                 *)
(***************************************************************************)

Loading == {"gop", "image", "filesystem", "volume", "open", "info", "size", "staging",
            "read", "place", "check"}
Fetching == {"query", "allocate", "requery", "pool", "fill", "translate", "exit", "retry"}

\* Boot services last until the firmware accepts the exit.
Phases ==
    /\ pc \in Loading \cup Fetching \cup Exited \cup {"failed"}
    /\ services = (pc \notin Exited)
    /\ ~services => call \in {"ExitBootServices", "none"}

\* What has to be released, by where the loader is, and that the kernel stays.
Holdings ==
    /\ owned \subseteq Files \cup Pools \cup {"kernel", "buffer"}
    /\ "root" \in owned => pc \in {"open", "info", "size", "staging", "read", "place"}
    /\ "file" \in owned => pc \in {"info", "size", "staging", "read", "place"}
    /\ "info" \in owned => pc = "size"
    /\ "staging" \in owned => pc \in {"read", "place"}
    /\ "map" \in owned => pc \in {"fill", "translate", "exit", "retry"} \cup Exited
    /\ pc \in {"check"} \cup Fetching \cup Exited \/ attempt > 0 => "kernel" \in owned

\* Each attempt leaves one buffer, a failed allocation none.
Buffers ==
    /\ attempt \in 0 .. MaxAttempts /\ stranded \in Nat
    /\ stranded > 0 => "buffer" \in owned
    /\ pc \in Loading => attempt = 0 /\ KeptBuffers = 0
    /\ pc = "allocate" => attempt > 0 /\ KeptBuffers = attempt - 1
    /\ pc \in (Fetching \ {"allocate"}) \cup Exited => KeptBuffers = attempt
    /\ KeptBuffers \in (attempt - 1) .. attempt

\* The map that was fetched is the firmware's as long as its key is fresh.
Fetched ==
    /\ fwMap \in Maps
    /\ fetched \in Maps \cup {<< >>}
    /\ fresh \in BOOLEAN
    /\ mapSize \in Nat /\ pages \in Nat
    /\ pc \in {"translate", "exit"} /\ fresh => fetched = fwMap
    /\ pc \in Exited => fetched = fwMap
    /\ pc = "translate" => fetched \in Maps /\ mapSize = MapSizeOf(fetched)
    /\ pc \in {"requery", "pool", "fill", "translate"} => memory = {}

\* Everything written lies where kernel-config.cpp puts it, and what was written
\* of the map is the map that was fetched.
Written ==
    \A w \in memory :
        \/ /\ w.what = "map" /\ w.at = MemoryMapAddress
           /\ \E m \in Maps : w.len = Len(m) * EntrySize
           /\ pc \in {"exit"} \cup Exited =>
                w.value = [i \in DOMAIN fetched |-> EntryType(fetched[i])]
        \/ /\ w.what = "count" /\ w.at = EntryCountAddress /\ w.len = Word
           /\ pc \in {"exit"} \cup Exited => w.value = Len(fetched)
        \/ w.what = "bitmap" /\ w.at = BitmapAddress /\ w.len = Word
        \/ w.what = "rsdp" /\ w.at = RsdpAddress /\ w.len = Word
        \/ w.what = "gop" /\ w.at = GopAddress /\ w.len = GopSize
        \/ w.what = "info" /\ w.at = GopInfoAddress /\ w.len = GopInfoSize

\* The addresses fit in the buffer, and so does any map after them.
MapFits ==
    /\ TotalAddressesSize <= pages * PageBytes
    /\ \A m \in Maps : MemoryMapAddress + Len(m) * EntrySize <= pages * PageBytes

\* The buffer was sized for some map and its padding.
Room ==
    /\ pc = "allocate" => \E m \in Maps : mapSize = MapSizeOf(m) + 4 * DescSize
    /\ pc \in (Fetching \ {"query", "allocate"}) \cup Exited \/ memory # {} => MapFits

IInv == Phases /\ Holdings /\ Buffers /\ Fetched /\ Written /\ Room

-------------------------------------------------------------------------------
(***************************************************************************)
(* Arithmetic                                                              *)
(***************************************************************************)

\* The size of a map is a natural, and gives back its length.
LEMMA MapSizes ==
    ASSUME NEW map \in Seq(STRING)
    PROVE  MapSizeOf(map) \in Nat /\ MapSizeOf(map) \div DescSize = Len(map)
<1>1. Len(map) \in Nat /\ DescSize \in Nat \ {0}
  BY SizesAssumption
<1>2. \A k \in Nat, d \in Nat \ {0} : k * d \in Nat /\ (k * d) \div d = k
  OBVIOUS
<1> QED
  BY <1>1, <1>2 DEF MapSizeOf

\* As many pages as PagesFor says hold the bytes.
LEMMA PagesHold ==
    ASSUME NEW bytes \in Nat
    PROVE  PagesFor(bytes) \in Nat /\ bytes <= PagesFor(bytes) * PageBytes
<1>1. PageBytes \in Nat \ {0}
  BY SizesAssumption
<1>2. \A n \in Nat, p \in Nat \ {0} : n \div p \in Nat /\ n < (n \div p) * p + p
  OBVIOUS
<1>3. bytes + PageBytes - 1 \in Nat
  BY <1>1
<1> DEFINE q == (bytes + PageBytes - 1) \div PageBytes
<1>4. q \in Nat /\ bytes + PageBytes - 1 < q * PageBytes + PageBytes
  BY <1>1, <1>2, <1>3
<1>5. q * PageBytes \in Nat
  BY <1>1, <1>4
<1> HIDE DEF q
<1>6. bytes <= q * PageBytes
  BY <1>1, <1>4, <1>5
<1> QED
  BY <1>4, <1>6 DEF PagesFor, q

-------------------------------------------------------------------------------
(***************************************************************************)
(* The invariant is inductive                                              *)
(***************************************************************************)

\* The initial states satisfy the invariant.
LEMMA InitInvariant == Init => IInv
<1> SUFFICES ASSUME Init PROVE IInv
  OBVIOUS
<1>1. Phases
  BY DEF Init, Phases, Loading, Exited
<1>2. Holdings
  BY SizesAssumption DEF Init, Holdings, Fetching, Exited
<1>3. Buffers
  BY SizesAssumption DEF Init, Buffers, Loading, Fetching, Exited, KeptBuffers
<1>4. Fetched
  BY DEF Init, Fetched, Exited
<1>5. Written
  BY DEF Init, Written
<1>6. Room
  BY DEF Init, Room, Fetching, Exited
<1> QED
  BY <1>1, <1>2, <1>3, <1>4, <1>5, <1>6 DEF IInv

\* Where the loader may be after each step, and what it has called.
LEMMA PhasesStep == Phases /\ [Next]_vars => Phases'
<1> SUFFICES ASSUME Phases, [Next]_vars PROVE Phases'
  OBVIOUS
<1> USE DEF Phases, Loading, Fetching, Exited
<1>1. CASE UNCHANGED vars
  BY <1>1 DEF vars, loaderVars
<1>2. CASE FirmwareChanges
  BY <1>2 DEF FirmwareChanges, loaderVars
<1>3. CASE LoadKernelSteps
  BY <1>3 DEF LoadKernelSteps, Loads
<1>4. CASE LoadKernelFails
  BY <1>4 DEF LoadKernelFails, GivesUp
<1>5. CASE QuerySize \/ AllocateBuffer \/ AllocateFails \/ RequerySize \/ AllocatePool
           \/ AllocatePoolFails
  BY <1>5 DEF QuerySize, AllocateBuffer, AllocateFails, RequerySize, AllocatePool,
              AllocatePoolFails, GivesUp
<1>6. CASE FillMap \/ FillMapFails \/ Translate
  BY <1>6 DEF FillMap, FillMapFails, GivesUp, Translate
<1>7. CASE ExitSucceeds \/ ExitRefused \/ ExitFails \/ FreeMapAndRetry
  BY <1>7 DEF ExitSucceeds, ExitRefused, ExitFails, GivesUp, FreeMapAndRetry
<1>8. CASE WriteRsdp \/ WriteGopInfo \/ WriteGop \/ EnterKernel
  <2>1. /\ pc \in Exited /\ pc' \in Exited
        /\ call' = "none" /\ services' = services
    BY <1>8 DEF WriteRsdp, WriteGopInfo, WriteGop, EnterKernel, Writes
  <2> QED
    BY <2>1
<1> QED
  BY <1>1, <1>2, <1>3, <1>4, <1>5, <1>6, <1>7, <1>8 DEF Next, Loader

\* Every action keeps its list of what has to be released.
LEMMA HoldingsStep == Phases /\ Holdings /\ [Next]_vars => Holdings'
<1> SUFFICES ASSUME Phases, Holdings, [Next]_vars PROVE Holdings'
  OBVIOUS
<1> USE DEF Holdings, Files, Pools, Fetching, Exited
<1>1. CASE UNCHANGED vars
  BY <1>1 DEF vars, loaderVars
<1>2. CASE FirmwareChanges
  BY <1>2 DEF FirmwareChanges, loaderVars
<1>3. CASE LoadKernelSteps
  BY <1>3 DEF LoadKernelSteps, Loads
<1>4. CASE LoadKernelFails
  BY <1>4 DEF LoadKernelFails, GivesUp
<1>5. CASE QuerySize \/ AllocateBuffer \/ AllocateFails \/ RequerySize \/ AllocatePool
           \/ AllocatePoolFails
  BY <1>5 DEF QuerySize, AllocateBuffer, AllocateFails, RequerySize, AllocatePool,
              AllocatePoolFails, GivesUp
<1>6. CASE FillMap \/ FillMapFails \/ Translate
  BY <1>6 DEF FillMap, FillMapFails, GivesUp, Translate
<1>7. CASE ExitSucceeds \/ ExitRefused \/ ExitFails \/ FreeMapAndRetry
  BY <1>7 DEF ExitSucceeds, ExitRefused, ExitFails, GivesUp, FreeMapAndRetry
<1>8. CASE WriteRsdp \/ WriteGopInfo \/ WriteGop \/ EnterKernel
  BY <1>8 DEF WriteRsdp, WriteGopInfo, WriteGop, EnterKernel, Writes
<1> QED
  BY <1>1, <1>2, <1>3, <1>4, <1>5, <1>6, <1>7, <1>8 DEF Next, Loader

\* Only a new attempt strands a buffer.
LEMMA BuffersStep == Buffers /\ [Next]_vars => Buffers'
<1> SUFFICES ASSUME Buffers, [Next]_vars PROVE Buffers'
  OBVIOUS
<1> USE SizesAssumption DEF Buffers, KeptBuffers, Loading, Fetching, Exited
<1>1. CASE UNCHANGED vars
  BY <1>1 DEF vars, loaderVars
<1>2. CASE FirmwareChanges
  BY <1>2 DEF FirmwareChanges, loaderVars
<1>3. CASE LoadKernelSteps
  BY <1>3 DEF LoadKernelSteps, Loads, Files
<1>4. CASE LoadKernelFails
  <2>1. /\ pc \in Loading /\ pc' = "failed" /\ UNCHANGED <<attempt, stranded>>
        /\ owned' \in {owned, owned \ {"root"}, owned \ Files, owned \ (Files \cup {"info"}),
                      owned \ (Files \cup {"staging"})}
    BY <1>4 DEF LoadKernelFails, GivesUp
  <2>2. "buffer" \in owned' <=> "buffer" \in owned
    BY <2>1 DEF Files
  <2> QED
    BY <2>1, <2>2
<1>5. CASE QuerySize
  <2>1. /\ pc = "query" /\ UNCHANGED <<owned, stranded>>
        /\ \/ pc' = "allocate" /\ attempt < MaxAttempts /\ attempt' = attempt + 1
           \/ pc' = "failed" /\ attempt' = attempt
    BY <1>5 DEF QuerySize
  <2>2. KeptBuffers = attempt /\ KeptBuffers' = KeptBuffers /\ attempt \in Nat
    BY <2>1
  <2>3. stranded' = stranded /\ stranded \in Nat /\ (stranded > 0 => "buffer" \in owned')
    BY <2>1
  <2>4. attempt' \in 0 .. MaxAttempts /\ KeptBuffers' \in (attempt' - 1) .. attempt'
    <3> HIDE DEF KeptBuffers
    <3> QED
      BY <2>1, <2>2
  <2> HIDE DEF KeptBuffers
  <2>5. pc' = "allocate" => attempt' > 0 /\ KeptBuffers' = attempt' - 1
    BY <2>1, <2>2
  <2>6. pc' \notin Loading /\ pc' \notin (Fetching \ {"allocate"}) \cup Exited
    BY <2>1
  <2> QED
    BY <2>3, <2>4, <2>5, <2>6
<1>6. CASE AllocateBuffer
  BY <1>6 DEF AllocateBuffer
<1>7. CASE AllocateFails \/ RequerySize \/ AllocatePool \/ AllocatePoolFails
  BY <1>7 DEF AllocateFails, RequerySize, AllocatePool, AllocatePoolFails, GivesUp
<1>8. CASE FillMap \/ FillMapFails \/ Translate
  BY <1>8 DEF FillMap, FillMapFails, GivesUp, Translate
<1>9. CASE ExitSucceeds \/ ExitRefused \/ ExitFails \/ FreeMapAndRetry
  BY <1>9 DEF ExitSucceeds, ExitRefused, ExitFails, GivesUp, FreeMapAndRetry
<1>10. CASE WriteRsdp \/ WriteGopInfo \/ WriteGop \/ EnterKernel
  BY <1>10 DEF WriteRsdp, WriteGopInfo, WriteGop, EnterKernel, Writes
<1> QED
  BY <1>1, <1>2, <1>3, <1>4, <1>5, <1>6, <1>7, <1>8, <1>9, <1>10 DEF Next, Loader

\* A map is fetched with its key; when the firmware changes it, the key is stale.
LEMMA FetchedStep == Phases /\ Fetched /\ [Next]_vars => Fetched'
<1> SUFFICES ASSUME Phases, Fetched, [Next]_vars PROVE Fetched'
  OBVIOUS
<1>0. fwMap \in Seq(STRING) /\ MapSizeOf(fwMap) \in Nat /\ DescSize \in Nat
  BY MapsAssumption, SizesAssumption, MapSizes DEF Fetched
<1>a. mapSize \in Nat
  BY DEF Fetched
<1>b. MapSizeOf(fwMap) + 4 * DescSize \in Nat
  <2> DEFINE size == MapSizeOf(fwMap)
  <2>1. size \in Nat
    BY <1>0
  <2> HIDE DEF size
  <2>2. size + 4 * DescSize \in Nat
    BY <1>0, <2>1
  <2> QED
    BY <2>2 DEF size
<1>c. mapSize + TotalAddressesSize \in Nat
  <2>1. TotalAddressesSize = 48
    BY DEF TotalAddressesSize, Word
  <2> QED
    BY <1>a, <2>1
<1> USE DEF Fetched, Exited
<1>1. CASE UNCHANGED vars
  BY <1>1 DEF vars, loaderVars, MapSizeOf
<1>2. CASE FirmwareChanges
  BY <1>2 DEF FirmwareChanges, loaderVars, Phases, MapSizeOf
<1>3. CASE LoadKernelSteps
  BY <1>3 DEF LoadKernelSteps, Loads
<1>4. CASE LoadKernelFails
  BY <1>4 DEF LoadKernelFails, GivesUp
<1>5. CASE QuerySize
  <2>2. /\ mapSize' = MapSizeOf(fwMap) + 4 * DescSize \/ mapSize' = mapSize
        /\ pc = "query" /\ pc' \in {"allocate", "failed"}
        /\ UNCHANGED <<fwMap, fresh, pages, fetched, memory>>
    BY <1>5 DEF QuerySize
  <2>3. mapSize' \in Nat
    BY <1>a, <1>b, <2>2
  <2> QED
    BY <2>2, <2>3
<1>6. CASE AllocateBuffer
  <2> QED
    BY <1>6, <1>c, PagesHold DEF AllocateBuffer, MapMoves
<1>7. CASE RequerySize
  BY <1>0, <1>7 DEF RequerySize
<1>8. CASE AllocatePool
  BY <1>8 DEF AllocatePool, MapMoves
<1>9. CASE AllocateFails \/ AllocatePoolFails \/ FillMapFails \/ ExitFails
  BY <1>9 DEF AllocateFails, AllocatePoolFails, FillMapFails, ExitFails, GivesUp
<1>10. CASE FillMap
  BY <1>0, <1>10 DEF FillMap, MapSizeOf
<1>11. CASE Translate
  BY <1>11 DEF Translate
<1>12. CASE ExitSucceeds \/ ExitRefused \/ FreeMapAndRetry
  BY <1>12 DEF ExitSucceeds, ExitRefused, FreeMapAndRetry
<1>13. CASE WriteRsdp \/ WriteGopInfo \/ WriteGop \/ EnterKernel
  <2>1. /\ pc \in Exited /\ pc' \in Exited
        /\ UNCHANGED <<services, fwMap, fresh, attempt, mapSize, pages, fetched>>
    BY <1>13 DEF WriteRsdp, WriteGopInfo, WriteGop, EnterKernel, Writes
  <2> QED
    BY <2>1
<1> QED
  BY <1>1, <1>2, <1>3, <1>4, <1>5, <1>6, <1>7, <1>8, <1>9, <1>10, <1>11, <1>12, <1>13
     DEF Next, Loader

\* Where memory is not written, what was written stays right.
LEMMA WrittenKept ==
    ASSUME Written, memory' = memory \/ memory' = {}, fetched' = fetched,
           pc' \in {"exit"} \cup Exited => pc \in {"exit"} \cup Exited
    PROVE  Written'
  BY DEF Written

\* A write of one word or structure after the exit.
LEMMA WrittenMore ==
    ASSUME Written, NEW w, memory' = memory \cup {w}, fetched' = fetched,
           pc \in Exited,
           \/ w.what = "bitmap" /\ w.at = BitmapAddress /\ w.len = Word
           \/ w.what = "rsdp" /\ w.at = RsdpAddress /\ w.len = Word
           \/ w.what = "gop" /\ w.at = GopAddress /\ w.len = GopSize
           \/ w.what = "info" /\ w.at = GopInfoAddress /\ w.len = GopInfoSize
    PROVE  Written'
  BY DEF Written

\* What Translate writes is what FillMap fetched.
LEMMA WrittenStep == Phases /\ Fetched /\ Written /\ [Next]_vars => Written'
<1> SUFFICES ASSUME Phases, Fetched, Written, [Next]_vars PROVE Written'
  OBVIOUS
<1>1. CASE UNCHANGED vars
  BY <1>1, WrittenKept DEF vars, loaderVars
<1>2. CASE FirmwareChanges
  BY <1>2, WrittenKept DEF FirmwareChanges, loaderVars
<1>3. CASE LoadKernelSteps
  BY <1>3, WrittenKept DEF LoadKernelSteps, Loads, Exited
<1>4. CASE LoadKernelFails
  BY <1>4, WrittenKept DEF LoadKernelFails, GivesUp, Exited
<1>5. CASE QuerySize \/ AllocateBuffer \/ AllocateFails \/ RequerySize \/ AllocatePool
           \/ AllocatePoolFails
  BY <1>5, WrittenKept DEF QuerySize, AllocateBuffer, AllocateFails, RequerySize,
     AllocatePool, AllocatePoolFails, GivesUp, Exited
<1>6. CASE FillMap
  BY <1>6 DEF FillMap, Written, Fetched
<1>7. CASE FillMapFails \/ ExitRefused \/ ExitFails \/ FreeMapAndRetry
  BY <1>7, WrittenKept DEF FillMapFails, ExitRefused, ExitFails, FreeMapAndRetry, GivesUp, Exited
<1>8. CASE Translate
  <2> DEFINE count == mapSize \div DescSize
             entries == [i \in 1 .. count |-> EntryType(fetched[i])]
  <2>1. memory' = {Write("map", MemoryMapAddress, count * EntrySize, entries),
                   Write("count", EntryCountAddress, Word, count)}
    BY <1>8 DEF Translate, Fetched
  <2>2. pc = "translate" /\ fetched' = fetched
    BY <1>8 DEF Translate
  <2>3. fetched \in Seq(STRING)
    <3>1. << >> \in Seq(STRING)
      OBVIOUS
    <3> QED
      BY <3>1, MapsAssumption DEF Fetched
  <2>4. count = Len(fetched) /\ DOMAIN fetched = 1 .. count /\ count \in Nat
    BY <2>2, <2>3, MapSizes DEF Fetched
  <2>5. fetched \in Maps
    BY <2>2 DEF Fetched
  <2>6. entries = [i \in DOMAIN fetched |-> EntryType(fetched[i])]
    BY <2>4
  <2> HIDE DEF count, entries
  <2>7. Write("map", MemoryMapAddress, count * EntrySize, entries).what = "map"
        /\ Write("map", MemoryMapAddress, count * EntrySize, entries).at = MemoryMapAddress
        /\ Write("map", MemoryMapAddress, count * EntrySize, entries).len = count * EntrySize
        /\ Write("map", MemoryMapAddress, count * EntrySize, entries).value = entries
    BY DEF Write
  <2>8. Write("count", EntryCountAddress, Word, count).what = "count"
        /\ Write("count", EntryCountAddress, Word, count).at = EntryCountAddress
        /\ Write("count", EntryCountAddress, Word, count).len = Word
        /\ Write("count", EntryCountAddress, Word, count).value = count
    BY DEF Write
  <2> SUFFICES ASSUME NEW w \in memory'
               PROVE  \/ /\ w.what = "map" /\ w.at = MemoryMapAddress
                         /\ \E m \in Maps : w.len = Len(m) * EntrySize
                         /\ w.value = [i \in DOMAIN fetched' |-> EntryType(fetched'[i])]
                      \/ /\ w.what = "count" /\ w.at = EntryCountAddress /\ w.len = Word
                         /\ w.value = Len(fetched')
    BY DEF Written
  <2>9. CASE w = Write("map", MemoryMapAddress, count * EntrySize, entries)
    BY <2>2, <2>4, <2>5, <2>6, <2>7, <2>9
  <2>10. CASE w = Write("count", EntryCountAddress, Word, count)
    BY <2>2, <2>4, <2>8, <2>10
  <2> QED
    BY <2>1, <2>9, <2>10
<1>9. CASE ExitSucceeds
  BY <1>9, WrittenKept DEF ExitSucceeds
<1>10. CASE WriteRsdp
  BY <1>10, WrittenMore DEF WriteRsdp, Writes, Write, Exited
<1>11. CASE WriteGopInfo
  BY <1>11, WrittenMore DEF WriteGopInfo, Writes, Write, Exited
<1>12. CASE WriteGop
  BY <1>12, WrittenMore DEF WriteGop, Writes, Write, Exited
<1>13. CASE EnterKernel
  BY <1>13, WrittenMore DEF EnterKernel, Writes, Write, Exited
<1> QED
  BY <1>1, <1>2, <1>3, <1>4, <1>5, <1>6, <1>7, <1>8, <1>9, <1>10, <1>11, <1>12, <1>13
     DEF Next, Loader

\* A buffer sized for one map has room for every map.
LEMMA SizedForOneFitsAll ==
    ASSUME NEW m \in Maps, mapSize = MapSizeOf(m) + 4 * DescSize,
           pages' = PagesFor(mapSize + TotalAddressesSize)
    PROVE  MapFits'
<1> DEFINE size == MapSizeOf(m)
           bytes == size + 4 * DescSize + 48
           room == pages' * PageBytes
<1>1. m \in Seq(STRING) /\ Len(m) \in Nat
  BY MapsAssumption
<1>2. DescSize \in Nat /\ EntrySize \in Nat /\ PageBytes \in Nat
  BY SizesAssumption
<1>3. size \in Nat
  BY <1>1, MapSizes
<1>4. MapSizeOf(m) = Len(m) * DescSize
  BY DEF MapSizeOf
<1>5. Word = 8 /\ TotalAddressesSize = 48 /\ MemoryMapAddress = 40
  BY DEF Word, TotalAddressesSize, MemoryMapAddress
<1>6. bytes \in Nat
  <2> HIDE DEF size
  <2> QED
    BY <1>2, <1>3
<1>7. bytes = mapSize + TotalAddressesSize
  BY <1>5
<1>8. pages' \in Nat /\ bytes <= room
  <2> HIDE DEF bytes
  <2> QED
    BY <1>6, <1>7, PagesHold
<1>9. room \in Nat
  BY <1>2, <1>8
<1>10. ASSUME NEW n \in Maps
       PROVE  Len(n) * EntrySize <= size + 4 * DescSize + 8
  <2>1. Len(n) * EntrySize <= (Len(m) + 4) * DescSize + Word
    BY GrowthAssumption
  <2>2. (Len(m) + 4) * DescSize = Len(m) * DescSize + 4 * DescSize
    BY <1>1, <1>2
  <2> QED
    BY <1>4, <1>5, <2>1, <2>2
<1>11. ASSUME NEW n \in Maps
       PROVE  40 + Len(n) * EntrySize <= room
  <2> DEFINE entries == Len(n) * EntrySize
             padding == 4 * DescSize
  <2>1. Len(n) \in Nat
    BY MapsAssumption
  <2>2. entries \in Nat /\ padding \in Nat
    BY <1>2, <2>1
  <2>3. entries <= size + padding + 8 /\ size + padding + 48 <= room
    BY <1>8, <1>10
  <2> HIDE DEF size, room, entries, padding
  <2>4. 40 + entries <= room
    BY <1>3, <1>9, <2>2, <2>3
  <2> QED
    BY <2>4 DEF entries
<1>12. 48 <= room
  <2> DEFINE padding == 4 * DescSize
  <2>1. padding \in Nat /\ size + padding + 48 <= room
    BY <1>2, <1>8
  <2> HIDE DEF size, room, padding
  <2> QED
    BY <1>3, <1>9, <2>1
<1> QED
  BY <1>5, <1>11, <1>12 DEF MapFits, TotalAddressesSize, MemoryMapAddress

\* The buffer keeps its size until the next attempt takes another.
LEMMA RoomStep == Phases /\ Fetched /\ Room /\ [Next]_vars => Room'
<1> SUFFICES ASSUME Phases, Fetched, Room, [Next]_vars PROVE Room'
  OBVIOUS
<1>0. ASSUME pages' = pages, memory' = memory, pc' # "allocate",
             pc' \in (Fetching \ {"query", "allocate"}) \cup Exited =>
                pc \in (Fetching \ {"query", "allocate"}) \cup Exited
      PROVE  Room'
  BY <1>0 DEF Room, MapFits
<1> USE DEF Fetching, Exited
<1>1. CASE UNCHANGED vars
  BY <1>1 DEF vars, loaderVars, Room, MapFits, MapSizeOf
<1>2. CASE FirmwareChanges
  BY <1>2 DEF FirmwareChanges, loaderVars, Room, MapFits, MapSizeOf
<1>3. CASE LoadKernelSteps
  BY <1>0, <1>3 DEF LoadKernelSteps, Loads
<1>4. CASE LoadKernelFails
  BY <1>0, <1>4 DEF LoadKernelFails, GivesUp
<1>5. CASE QuerySize
  <2>1. CASE pc' = "allocate"
    <3>1. mapSize' = MapSizeOf(fwMap) + 4 * DescSize /\ fwMap \in Maps
          /\ UNCHANGED <<pages, memory>>
      BY <1>5, <2>1 DEF QuerySize, Fetched
    <3> QED
      BY <2>1, <3>1 DEF Room, MapFits
  <2>2. CASE pc' # "allocate"
    BY <1>0, <1>5, <2>2 DEF QuerySize
  <2> QED
    BY <2>1, <2>2
<1>6. CASE AllocateBuffer
  <2>1. PICK m \in Maps : mapSize = MapSizeOf(m) + 4 * DescSize
    BY <1>6 DEF AllocateBuffer, Room
  <2>2. MapFits'
    BY <1>6, <2>1, SizedForOneFitsAll DEF AllocateBuffer
  <2> QED
    BY <1>6, <2>2 DEF AllocateBuffer, Room
<1>7. CASE AllocateFails \/ RequerySize \/ AllocatePool \/ AllocatePoolFails \/ FillMap
           \/ FillMapFails
  BY <1>0, <1>7 DEF AllocateFails, RequerySize, AllocatePool, AllocatePoolFails, FillMap,
     FillMapFails, GivesUp
<1>8. CASE Translate
  BY <1>8 DEF Translate, Room, MapFits
<1>9. CASE ExitSucceeds \/ ExitRefused \/ ExitFails \/ FreeMapAndRetry
  BY <1>0, <1>9 DEF ExitSucceeds, ExitRefused, ExitFails, FreeMapAndRetry, GivesUp
<1>10. CASE WriteRsdp \/ WriteGopInfo \/ WriteGop \/ EnterKernel
  <2>1. pc \in Exited /\ pc' \in Exited /\ pc' # "allocate" /\ pages' = pages
    BY <1>10 DEF WriteRsdp, WriteGopInfo, WriteGop, EnterKernel, Writes
  <2>2. MapFits
    BY <2>1 DEF Room
  <2>3. MapFits'
    BY <2>1, <2>2 DEF MapFits
  <2> QED
    BY <2>1, <2>3 DEF Room
<1> QED
  BY <1>1, <1>2, <1>3, <1>4, <1>5, <1>6, <1>7, <1>8, <1>9, <1>10 DEF Next, Loader

-------------------------------------------------------------------------------
(***************************************************************************)
(* What the invariant says of the writes                                   *)
(***************************************************************************)

\* The addresses of kernel-config.cpp are integers, and the sizes naturals.
LEMMA Layout ==
    /\ Word = 8 /\ TotalAddressesSize = 48
    /\ MemoryMapAddress = 40 /\ EntryCountAddress = 32 /\ BitmapAddress = 24 /\ RsdpAddress = 16
    /\ GopAddress = 16 - GopSize /\ GopInfoAddress = 16 - GopSize - GopInfoSize
    /\ GopSize \in Nat /\ GopInfoSize \in Nat /\ EntrySize \in Nat /\ PageBytes \in Nat
  BY SizesAssumption DEF Word, TotalAddressesSize, MemoryMapAddress, EntryCountAddress,
     BitmapAddress, RsdpAddress, GopAddress, GopInfoAddress

\* So every write has an integer address and a natural length.
LEMMA WrittenTypes == Written => \A w \in memory : w.at \in Int /\ w.len \in Nat
<1> SUFFICES ASSUME Written, NEW w \in memory PROVE w.at \in Int /\ w.len \in Nat
  OBVIOUS
<1>1. \A m \in Maps : Len(m) * EntrySize \in Nat
  <2> SUFFICES ASSUME NEW m \in Maps PROVE Len(m) * EntrySize \in Nat
    OBVIOUS
  <2>1. Len(m) \in Nat
    BY MapsAssumption
  <2> QED
    BY <2>1, Layout
<1>2. \/ w.at = MemoryMapAddress /\ \E m \in Maps : w.len = Len(m) * EntrySize
      \/ w.at = EntryCountAddress /\ w.len = Word
      \/ w.at = BitmapAddress /\ w.len = Word
      \/ w.at = RsdpAddress /\ w.len = Word
      \/ w.at = GopAddress /\ w.len = GopSize
      \/ w.at = GopInfoAddress /\ w.len = GopInfoSize
  BY DEF Written
<1> QED
  BY <1>1, <1>2, Layout

\* What was written of the map is the firmware's map once it has been left.
LEMMA HandsCurrentMap == Fetched /\ Written => HandedMapIsCurrent
  BY DEF Fetched, Written, HandedMapIsCurrent

\* Two writes of different names lie apart.
LEMMA WritesDisjoint == Written => WritesAreDisjoint
<1> SUFFICES ASSUME Written, NEW v \in memory, NEW w \in memory, v.what # w.what
             PROVE  v.at + v.len <= w.at \/ w.at + w.len <= v.at
  BY DEF WritesAreDisjoint
<1> DEFINE At(u) ==
             \/ u.what = "map" /\ u.at = 40
             \/ u.what = "count" /\ u.at = 32 /\ u.len = 8
             \/ u.what = "bitmap" /\ u.at = 24 /\ u.len = 8
             \/ u.what = "rsdp" /\ u.at = 16 /\ u.len = 8
             \/ u.what = "gop" /\ u.at = 16 - GopSize /\ u.len = GopSize
             \/ u.what = "info" /\ u.at = 16 - GopSize - GopInfoSize /\ u.len = GopInfoSize
<1>1. At(v) /\ At(w)
  BY Layout DEF Written
<1>2. GopSize \in Nat /\ GopInfoSize \in Nat
  BY Layout
<1> QED
  BY <1>1, <1>2

\* The map, its count and the addresses lie in the buffer.
LEMMA MapStays == Fetched /\ Written /\ Room => MapStaysInBuffer
<1> SUFFICES ASSUME Fetched, Written, Room,
                    NEW w \in memory, w.what \in {"map", "count", "bitmap", "rsdp"}
             PROVE  w.at >= 0 /\ w.at + w.len <= pages * PageBytes
  BY DEF MapStaysInBuffer, Inside
<1> DEFINE room == pages * PageBytes
<1>1. /\ TotalAddressesSize <= room
      /\ \A m \in Maps : MemoryMapAddress + Len(m) * EntrySize <= room
  BY DEF Room, MapFits
<1>2. room \in Nat
  BY Layout DEF Fetched
<1> HIDE DEF room
<1>3. CASE w.what = "map"
  <2>1. w.at = MemoryMapAddress /\ \E m \in Maps : w.len = Len(m) * EntrySize
    BY <1>3 DEF Written
  <2> QED
    BY <1>1, <2>1, Layout DEF room
<1>4. CASE w.what # "map"
  <2>1. w.at \in {32, 24, 16} /\ w.len = 8
    BY <1>4, Layout DEF Written
  <2> QED
    BY <1>1, <1>2, <2>1, Layout DEF room
<1> QED
  BY <1>3, <1>4

\* The invariant holds in every reachable state.
THEOREM Invariance == Spec => []IInv
<1>1. IInv /\ [Next]_vars => IInv'
  BY PhasesStep, HoldingsStep, BuffersStep, FetchedStep, WrittenStep, RoomStep DEF IInv
<1> QED
  BY InitInvariant, <1>1, PTL DEF Spec

-------------------------------------------------------------------------------
(***************************************************************************)
(* What the runs check, for every size and every set of maps               *)
(***************************************************************************)

\* Every variable keeps to its type.
THEOREM TypeCorrect == Spec => []TypeOK
<1>1. IInv => TypeOK
  <2> SUFFICES ASSUME IInv PROVE TypeOK
    OBVIOUS
  <2>1. services \in BOOLEAN
    <3>1. services = (pc \notin Exited)
      BY DEF IInv, Phases
    <3> QED
      BY <3>1
  <2>2. fresh \in BOOLEAN /\ fwMap \in Maps /\ fetched \in Maps \cup {<< >>}
    BY DEF IInv, Fetched
  <2>3. mapSize \in Nat /\ pages \in Nat
    BY DEF IInv, Fetched
  <2>4. owned \subseteq Files \cup Pools \cup {"kernel", "buffer"}
    BY DEF IInv, Holdings
  <2>5. attempt \in 0 .. MaxAttempts /\ stranded \in 0 .. (MaxAttempts - 1)
    BY SizesAssumption DEF IInv, Buffers, KeptBuffers
  <2>6. \A w \in memory : w.at \in Int /\ w.len \in Nat
    BY WrittenTypes DEF IInv
  <2> QED
    BY <2>1, <2>2, <2>3, <2>4, <2>5, <2>6 DEF TypeOK
<1> QED
  BY Invariance, <1>1, PTL

\* Whichever call fails, the loader returns with its files closed, its pools freed and
\* boot services up; the kernel's pages stay once they are placed, and so does the
\* buffer of every attempt that got one.
THEOREM FailureKeepsPages == Spec => []FailureKeepsPagesAlone
<1>1. IInv => FailureKeepsPagesAlone
  <2> SUFFICES ASSUME IInv, pc = "failed"
               PROVE  /\ services
                      /\ owned \subseteq {"kernel", "buffer"}
                      /\ attempt > 0 => "kernel" \in owned
                      /\ KeptBuffers \in (attempt - 1) .. attempt
    BY DEF FailureKeepsPagesAlone
  <2>1. services
    BY DEF IInv, Phases, Exited
  <2>2. owned \subseteq {"kernel", "buffer"} /\ (attempt > 0 => "kernel" \in owned)
    BY DEF IInv, Holdings, Files, Pools, Exited
  <2> QED
    BY <2>1, <2>2 DEF IInv, Buffers
<1> QED
  BY Invariance, <1>1, PTL

\* The kernel gets the firmware's last map, nothing handed over is overwritten, the
\* map and the addresses stay in the buffer, and no boot service is called late.
THEOREM HandoffSound == Spec => []HandoffIsSound
<1>1. IInv => HandoffIsSound
  BY HandsCurrentMap, WritesDisjoint, MapStays DEF IInv, Phases, NoServiceAfterExit, HandoffIsSound
<1> QED
  BY Invariance, <1>1, PTL

===============================================================================
