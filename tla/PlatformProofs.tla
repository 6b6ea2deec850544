----------------------------- MODULE PlatformProofs -----------------------------
(***************************************************************************)
(* For every machine, register layout and caller: the types of Platform,   *)
(* that the write tests change the bit under test alone, that the kernel   *)
(* finds the tables, reaches the registers it names in memory it has       *)
(* mapped, and takes hidden devices' bases for what they are.              *)
(***************************************************************************)
EXTENDS Platform, SequenceTheorems, NaturalsInduction, WellFoundedInduction, TLAPS

-------------------------------------------------------------------------------
(***************************************************************************)
(* Numbers                                                                 *)
(***************************************************************************)

\* A non-empty set of naturals has a least element, which Min returns.
LEMMA MinIsLeast ==
    ASSUME NEW S \in SUBSET Nat, S # {}
    PROVE  Min(S) \in S
<1> DEFINE R == {ss \in Nat \X Nat : ss[1] < ss[2]}
<1>1. IsWellFoundedOn(R, Nat)
  BY NatLessThanWellFounded DEF OpToRel
<1>2. PICK x \in S : \A y \in S : << y, x >> \notin R
  <2> HIDE DEF R
  <2> QED
    BY <1>1, WFMin
<1>3. ASSUME NEW y \in S, y < x PROVE FALSE
  <2>1. << y, x >> \in Nat \X Nat /\ << y, x >>[1] = y /\ << y, x >>[2] = x
    OBVIOUS
  <2>2. << y, x >> \in R
    BY <1>3, <2>1
  <2> HIDE DEF R
  <2> QED
    BY <1>2, <2>2
<1>4. \A y \in S : x <= y
  BY <1>3
<1> QED
  BY <1>4 DEF Min

\* What is over when multiples of n are taken away.
LEMMA Remainder ==
    ASSUME NEW n \in Nat \ {0}, NEW k \in Int, NEW a \in 0 .. (n - 1)
    PROVE  (k * n + a) % n = a
<1> DEFINE v == k * n + a
           q == v \div n
           r == v % n
<1>1. v \in Int
  OBVIOUS
<1>2. q \in Int /\ r \in 0 .. (n - 1) /\ v = q * n + r
  <2> HIDE DEF v
  <2> QED
    BY <1>1
<1>3. v = k * n + a
  OBVIOUS
<1> HIDE DEF q, r, v
<1>4. (q - k) * n = a - r
  BY <1>2, <1>3
<1>5. q = k
  <2> DEFINE x == q - k
  <2>1. x \in Int /\ x * n = a - r
    BY <1>2, <1>4
  <2> HIDE DEF x
  <2>2. CASE x >= 1
    <3>1. x * n >= n
      BY <2>1, <2>2
    <3> QED
      BY <3>1, <2>1, <1>2
  <2>3. CASE x <= -1
    <3>1. x * n <= (-1) * n
      BY <2>1, <2>3
    <3> QED
      BY <3>1, <2>1, <1>2
  <2> QED
    BY <2>1, <2>2, <2>3, <1>2 DEF x
<1> QED
  BY <1>2, <1>3, <1>5 DEF r, v

\* Reducing what is small enough.
LEMMA SmallModulo ==
    ASSUME NEW n \in Nat \ {0}, NEW a \in 0 .. (n - 1)
    PROVE  a % n = a
<1>1. (0 * n + a) % n = a
  BY Remainder
<1> QED
  BY <1>1

-------------------------------------------------------------------------------
(***************************************************************************)
(* Addresses of configuration space                                        *)
(***************************************************************************)

\* An address as callers make them.
GoodAddress(a) ==
    a.bus \in 0 .. 255 /\ a.device \in 0 .. 31 /\ a.function \in 0 .. 7 /\ a.offset \in 0 .. 255

\* By port, the bridge selects the register that is named.
LEMMA PortDecodes ==
    ASSUME NEW a, GoodAddress(a)
    PROVE  SelectedByPort(LegacyAddress(a)) = Register(a)
<1> DEFINE b == a.bus
           d == a.device
           f == a.function
           o == a.offset
           v == b * 65536 + d * 2048 + f * 256 + o
<1>1. b \in 0 .. 255 /\ d \in 0 .. 31 /\ f \in 0 .. 7 /\ o \in 0 .. 255
  BY SMT DEF GoodAddress
<1>2. LegacyAddress(a) = v
  BY SMT DEF LegacyAddress
<1> HIDE DEF b, d, f, o
<1>3. v \in Nat
  BY <1>1, SMT
<1>4. v \div 65536 = b
  BY <1>1, SMT
<1>5. v \div 2048 = b * 32 + d
  BY <1>1, SMT
<1>6. v \div 256 = b * 256 + d * 8 + f
  BY <1>1, SMT
<1>7. v % 256 = o
  BY <1>1, SMT
<1>8. (b * 32 + d) % 32 = d /\ (b * 256 + d * 8 + f) % 8 = f
  BY <1>1, SMT
<1> HIDE DEF v
<1>9. SelectedByPort(v) = << b, d, f, o >>
  BY <1>4, <1>5, <1>6, <1>7, <1>8, SMT DEF SelectedByPort
<1> QED
  BY <1>2, <1>9, SMT DEF Register, b, d, f, o

\* Where a register lies in a window, and what the bridge makes of that.
LEMMA WindowDecodes ==
    ASSUME NEW a, GoodAddress(a), NEW e, e.base \in Nat, e.first \in Nat, e.last \in Nat,
           Owns(e, a.bus), a.cachedEntry = e, e # Null
    PROVE  /\ SelectedByWindow(MmioAddress(a), e) = Register(a)
           /\ e.base <= MmioAddress(a)
           /\ MmioAddress(a) + 8 <= e.base + McfgSize(e)
           /\ MmioAddress(a) \in Nat
<1> DEFINE b == a.bus
           d == a.device
           f == a.function
           o == a.offset
           k == b - e.first
           i == k * 1048576 + d * 32768 + f * 4096 + o
           m == e.base
<1>1. b \in 0 .. 255 /\ d \in 0 .. 31 /\ f \in 0 .. 7 /\ o \in 0 .. 255
  BY SMT DEF GoodAddress
<1>2. k \in Nat /\ e.first + k = b /\ k + 1 <= e.last - e.first + 1 /\ m \in Nat
  BY <1>1, SMT DEF Owns
<1>3. MmioAddress(a) = m + k * 1048576 + d * 32768 + f * 4096 + o
  BY SMT DEF MmioAddress, BusSize, DeviceSize, FunctionSize
<1> HIDE DEF b, d, f, o, m
<1>a. McfgSize(e) >= 1048576 * (k + 1)
  <2> DEFINE n == e.last - e.first + 1
  <2>1. n \in Int /\ k + 1 <= n
    BY <1>2, SMT
  <2> HIDE DEF n, k
  <2>2. 1048576 * n >= 1048576 * (k + 1)
    BY <1>2, <2>1, SMT
  <2> QED
    BY <2>2, SMT DEF McfgSize, BusSize, n
<1>b. McfgSize(e) \in Int
  BY SMT DEF McfgSize, BusSize
<1> HIDE DEF k
<1>4. MmioAddress(a) - m = i /\ MmioAddress(a) = m + i
  BY <1>1, <1>2, <1>3, SMT
<1>5. i \in Nat /\ i + 8 <= 1048576 * (k + 1)
  BY <1>1, <1>2, SMT
<1>6. i \div 1048576 = k
  BY <1>1, <1>2, SMT
<1>7. i \div 32768 = k * 32 + d
  BY <1>1, <1>2, SMT
<1>8. i \div 4096 = k * 256 + d * 8 + f
  BY <1>1, <1>2, SMT
<1>9. i % 4096 = o
  <2> DEFINE q == k * 256 + d * 8 + f
  <2>1. q \in Int /\ i = q * 4096 + o /\ o \in 0 .. 4095
    BY <1>1, <1>2, SMT
  <2> HIDE DEF q, i
  <2> QED
    BY <2>1, Remainder, SMT
<1>10. (k * 32 + d) % 32 = d
  BY <1>1, <1>2, Remainder, SMT
<1>11. (k * 256 + d * 8 + f) % 8 = f
  <2> DEFINE q == k * 32 + d
  <2>1. q \in Int /\ k * 256 + d * 8 + f = q * 8 + f
    BY <1>1, <1>2, SMT
  <2> HIDE DEF q
  <2> QED
    BY <1>1, <2>1, Remainder, SMT
<1> HIDE DEF i
<1>12. SelectedByWindow(MmioAddress(a), e) = << b, d, f, o >>
  <2>1. (MmioAddress(a) - m) \div BusSize = k
    BY <1>4, <1>6, SMT DEF BusSize
  <2>2. ((MmioAddress(a) - m) \div DeviceSize) % 32 = d
    BY <1>4, <1>7, <1>10, SMT DEF DeviceSize
  <2>3. ((MmioAddress(a) - m) \div FunctionSize) % 8 = f
    BY <1>4, <1>8, <1>11, SMT DEF FunctionSize
  <2>4. (MmioAddress(a) - m) % FunctionSize = o
    BY <1>4, <1>9, SMT DEF FunctionSize
  <2>5. SelectedByWindow(MmioAddress(a), e)
        = << e.first + (MmioAddress(a) - m) \div BusSize,
             ((MmioAddress(a) - m) \div DeviceSize) % 32,
             ((MmioAddress(a) - m) \div FunctionSize) % 8, (MmioAddress(a) - m) % FunctionSize >>
    BY Zenon DEF SelectedByWindow, m
  <2> QED
    BY <2>1, <2>2, <2>3, <2>4, <2>5, <1>2, Zenon
<1>13. Register(a) = << b, d, f, o >>
  BY Zenon DEF Register, b, d, f, o
<1>14. e.base <= MmioAddress(a) /\ MmioAddress(a) + 8 <= e.base + McfgSize(e) /\ MmioAddress(a) \in Nat
  BY <1>2, <1>4, <1>5, <1>a, <1>b, SMT DEF m
<1> QED
  BY <1>12, <1>13, <1>14, Zenon

-------------------------------------------------------------------------------
(***************************************************************************)
(* The firmware's tables                                                   *)
(***************************************************************************)

EntryTypes == [base : Nat, segment : Nat, first : 0 .. 255, last : 0 .. 255]

\* The windows of an MCFG table.
GoodEntries(entries) ==
    /\ entries \in Seq(EntryTypes)
    /\ \A e \in Range(entries) : e # Null /\ e.first <= e.last

\* The tables of a machine are a sequence.
LEMMA TablesAreListed ==
    ASSUME NEW m \in Machines
    PROVE  /\ Len(m.root.tables) \in Nat
           /\ DOMAIN m.root.tables = 1 .. Len(m.root.tables)
<1>1. m.root.tables \in Seq(Range(m.root.tables))
  BY TablesAssumption
<1> QED
  BY <1>1

\* A root table holds as many pointers as its length says.
LEMMA EntriesAreCounted ==
    ASSUME NEW m \in Machines
    PROVE  Entries(m.root) = Len(m.root.tables)
<1> DEFINE n == Len(m.root.tables)
<1>1. n \in Nat
  BY TablesAreListed
<1>2. m.root.length = 36 + (IF m.root.revision >= 2 THEN 8 ELSE 4) * n
  BY TablesAssumption
<1> HIDE DEF n
<1>3. CASE m.root.revision >= 2
  <2>1. m.root.length - HeaderSize = 8 * n
    BY <1>1, <1>2, <1>3, SMT DEF HeaderSize
  <2>2. PointerSize(m.root) = 8
    BY <1>3, SMT DEF PointerSize
  <2>3. (8 * n) \div 8 = n
    BY <1>1, SMT
  <2> QED
    BY <2>1, <2>2, <2>3, Zenon DEF Entries, n
<1>4. CASE ~(m.root.revision >= 2)
  <2>1. m.root.length - HeaderSize = 4 * n
    BY <1>1, <1>2, <1>4, SMT DEF HeaderSize
  <2>2. PointerSize(m.root) = 4
    BY <1>4, SMT DEF PointerSize
  <2>3. (4 * n) \div 4 = n
    BY <1>1, SMT
  <2> QED
    BY <2>1, <2>2, <2>3, Zenon DEF Entries, n
<1> QED
  BY <1>3, <1>4

\* findTable returns the first table with the signature, if there is one.
LEMMA FindsTheFirst ==
    ASSUME NEW m \in Machines, NEW signature
    PROVE  FindTable(m.root, signature) = FirstListed(m, signature)
<1>1. DOMAIN m.root.tables = 1 .. Entries(m.root)
  BY TablesAreListed, EntriesAreCounted
<1> QED
  BY <1>1, Zenon DEF FindTable, FirstListed

LEMMA FirstIsListed ==
    ASSUME NEW m \in Machines, NEW signature, FirstListed(m, signature) # Null
    PROVE  /\ FirstListed(m, signature) \in Range(m.root.tables)
           /\ FirstListed(m, signature).signature = signature
<1> DEFINE hits == {i \in DOMAIN m.root.tables : m.root.tables[i].signature = signature}
<1>1. hits # {} /\ FirstListed(m, signature) = m.root.tables[Min(hits)]
  BY Zenon DEF FirstListed
<1>2. hits \in SUBSET Nat
  BY TablesAreListed
<1>3. Min(hits) \in hits
  <2> HIDE DEF hits
  <2> QED
    BY <1>1, <1>2, MinIsLeast
<1> QED
  BY <1>1, <1>3, Zenon DEF Range

\* mcfg_load reads all entries of the table.
LEMMA EntriesAreRead ==
    ASSUME NEW m \in Machines, FirstListed(m, "MCFG") # Null
    PROVE  /\ McfgEntries(FirstListed(m, "MCFG")) = FirstListed(m, "MCFG").entries
           /\ GoodEntries(FirstListed(m, "MCFG").entries)
<1> DEFINE t == FirstListed(m, "MCFG")
           n == Len(t.entries)
<1>1. t \in Range(m.root.tables) /\ t.signature = "MCFG"
  BY FirstIsListed
<1> HIDE DEF t
<1>2. /\ t.entries \in Seq(EntryTypes)
      /\ t.length = 44 + 16 * n
      /\ \A e \in Range(t.entries) : e # Null /\ e.first <= e.last
  BY <1>1, TablesAssumption, Zenon DEF EntryTypes
<1>3. n \in Nat
  BY <1>2
<1>4. (t.length - McfgHeaderSize) \div McfgEntrySize = n
  <2> HIDE DEF n
  <2> QED
    BY <1>2, <1>3, SMT DEF McfgHeaderSize, McfgEntrySize
<1>5. SubSeq(t.entries, 1, n) = t.entries
  BY <1>2, SubSeqFull, Zenon
<1> QED
  BY <1>2, <1>4, <1>5, Zenon DEF McfgEntries, GoodEntries, t

\* mcfg_getEntry returns an entry that owns the bus.
LEMMA EntryOwnsBus ==
    ASSUME NEW entries, GoodEntries(entries), NEW bus, McfgGetEntry(entries, bus) # Null
    PROVE  /\ McfgGetEntry(entries, bus) \in Range(entries)
           /\ Owns(McfgGetEntry(entries, bus), bus)
<1> DEFINE owners == {i \in DOMAIN entries : Owns(entries[i], bus)}
<1>1. owners # {} /\ McfgGetEntry(entries, bus) = entries[Min(owners)]
  BY Zenon DEF McfgGetEntry
<1>2. owners \in SUBSET Nat
  BY DEF GoodEntries
<1>3. Min(owners) \in owners
  <2> HIDE DEF owners
  <2> QED
    BY <1>1, <1>2, MinIsLeast
<1> QED
  BY <1>1, <1>3, Zenon DEF Range

\* What an entry of the table holds.
LEMMA EntryTyped ==
    ASSUME NEW entries, GoodEntries(entries), NEW e \in Range(entries)
    PROVE  e # Null /\ e.base \in Nat /\ e.first \in Nat /\ e.last \in Nat /\ e.first <= e.last
<1>1. e \in EntryTypes
  BY DEF GoodEntries, Range
<1>2. e.first \in 0 .. 255 /\ e.last \in 0 .. 255 /\ e.base \in Nat
  BY <1>1 DEF EntryTypes
<1>3. e # Null /\ e.first <= e.last
  BY DEF GoodEntries
<1> QED
  BY <1>2, <1>3

LEMMA WindowHasSize ==
    ASSUME NEW entries, GoodEntries(entries), NEW e \in Range(entries)
    PROVE  e.base >= 0 /\ McfgSize(e) > 0
<1>1. e.base \in Nat /\ e.first \in Nat /\ e.last \in Nat /\ e.first <= e.last
  BY EntryTyped
<1> QED
  BY <1>1, SMT DEF McfgSize, BusSize

-------------------------------------------------------------------------------
(***************************************************************************)
(* The base of the power management controller                             *)
(***************************************************************************)

\* A base that getPwrmBaseFromFadt finds is the one the BAR would have shown.
LEMMA TimerShowsBase ==
    ASSUME NEW m \in Machines, m.pmcHidden,
           PwrmBaseFromFadt(FirstListed(m, "FACP")) # 0
    PROVE  PwrmBaseFromFadt(FirstListed(m, "FACP")) = m.pwrmbase
<1> DEFINE t == FirstListed(m, "FACP")
           b == m.pwrmbase
           address == PmTimer(t)[1]
<1>1. t # Null /\ PmTimer(t)[2] = 0 /\ ~(address < PmTimerOffset)
  BY Zenon DEF PwrmBaseFromFadt
<1>2. address \in Nat
  <2>1. t \in Range(m.root.tables) /\ t.signature = "FACP"
    BY <1>1, FirstIsListed
  <2> HIDE DEF t
  <2>2. t.timer \in Nat /\ t.xTimer \in Nat
    BY <2>1, TablesAssumption
  <2> QED
    BY <2>2 DEF PmTimer
<1>3. b \in Nat /\ b % BaseUnit = 0
  <2>1. b \in 0 .. (Word - 1) /\ b % BaseUnit = 0
    BY HardwareAssumption
  <2>2. Word \in Nat
    BY AddressAssumption
  <2> QED
    BY <2>1, <2>2, SMT
<1>4. address = b + PmTimerOffset
  <2>1. address >= PmTimerOffset
    BY <1>1, <1>2, SMT DEF PmTimerOffset
  <2> QED
    BY <1>1, <2>1, HardwareAssumption, Zenon
<1>5. PwrmBaseFromFadt(t) = (address - PmTimerOffset) - ((address - PmTimerOffset) % PageSize)
  BY Zenon DEF PwrmBaseFromFadt
<1> HIDE DEF address, b, t
<1>6. address - PmTimerOffset = b
  BY <1>3, <1>4, SMT DEF PmTimerOffset
<1>7. b % 4096 = 0
  <2> DEFINE q == b \div 8192
  <2>1. q \in Int /\ b = (2 * q) * 4096 + 0
    BY <1>3, SMT DEF BaseUnit
  <2> HIDE DEF q
  <2>2. 2 * q \in Int
    BY <2>1, SMT
  <2>3. ((2 * q) * 4096 + 0) % 4096 = 0
    BY <2>2, Remainder, SMT
  <2> QED
    BY <2>1, <2>3, SMT
<1> QED
  BY <1>3, <1>5, <1>6, <1>7, SMT DEF PageSize, b, t

\* BASEADDR holds the base.
LEMMA BaseFits ==
    ASSUME NEW m \in Machines
    PROVE  /\ m.pwrmbase \in Nat
           /\ m.pwrmbase - (m.pwrmbase % BaseUnit) = m.pwrmbase
           /\ BaseAddr(m.pwrmbase) = m.pwrmbase
<1>1. Word \in Nat \ {0}
  BY AddressAssumption
<1>2. m.pwrmbase \in 0 .. (Word - 1) /\ m.pwrmbase % BaseUnit = 0
  BY HardwareAssumption
<1>3. m.pwrmbase % Word = m.pwrmbase
  BY <1>1, <1>2, SmallModulo
<1>4. m.pwrmbase \in Nat
  BY <1>1, <1>2, SMT
<1>5. m.pwrmbase - (m.pwrmbase % BaseUnit) = m.pwrmbase
  BY <1>2, <1>4, SMT DEF BaseUnit
<1> QED
  BY <1>3, <1>4, <1>5, Zenon DEF BaseAddr

-------------------------------------------------------------------------------
(***************************************************************************)
(* The inductive invariant                                                 *)
(***************************************************************************)

Steps == {"sdt", "mcfg", "pciRead", "fadt", "testPorts", "testMemory", "unhide", "sbreg",
          "hide", "resetCause", "hpet", "chrono", "run"}
BeforeMcfg == {"sdt", "mcfg"}
BeforeFadt == {"sdt", "mcfg", "pciRead", "fadt"}
Testing == {"testPorts", "testMemory"}
AfterHide == {"resetCause", "hpet", "chrono", "run"}

\* The machine, and what has been found on it.
Found ==
    /\ machine \in Machines /\ asserts \in BOOLEAN /\ stopped \in BOOLEAN /\ step \in Steps
    /\ step = "mcfg" => root \in {machine.root, Null}
    /\ step \in BeforeMcfg => mcfg = << >>
    /\ step \notin BeforeMcfg =>
         /\ root = machine.root
         /\ Listed("MCFG") # Null /\ mcfg = Listed("MCFG").entries
    /\ step \notin BeforeFadt => fadt = Listed("FACP")
    /\ stopped /\ step = "fadt" => Listed("FACP") = Null
    /\ stopped /\ step = "hpet" => Listed("HPET") = Null
    /\ step = "chrono" => Listed("HPET") # Null

\* What has been mapped.
Mapped ==
    /\ \A w \in windows : w[1] >= 0 /\ w[2] > 0
    /\ step \notin BeforeMcfg => \A e \in Range(mcfg) : << e.base, McfgSize(e) >> \in windows
    /\ step = "chrono" => << Listed("HPET").address, PageSize >> \in windows

\* The write tests run where they are called, on a register whose first value only
\* the hardware has added to.
WriteTests ==
    /\ TestTypeOK
    /\ testing = "flip" => before \subseteq reg /\ reg \ before \subseteq Status
    /\ untested \subseteq Flippable
    /\ untested # {} \/ testing # "idle" => asserts /\ step \in Testing
    /\ asserts /\ step \notin BeforeMcfg \cup {"pciRead"} => Reachable(0)

\* The P2SB is shown between unhide and hide, and no lock is set on the way.
Hiding ==
    /\ p2sb \subseteq AllOnes /\ p2sb \cap Locks \subseteq machine.p2sb
    /\ step \in {"sbreg", "hide"} => Hide \notin p2sb
    /\ step \in AfterHide => Hide \in p2sb
    /\ sbreg # Null => sbreg = << machine.sbreg.rbah, machine.sbreg.rba >>
    /\ pwrm # Null => pwrm = machine.pwrmbase

Addresses == [bus : 0 .. 255, device : 0 .. 31, function : 0 .. 7, offset : 0 .. 255,
              cachedEntry : {Null} \cup Range(mcfg)]

\* An address caches the entry of its bus, or none.
GoodCaller(a) == a \in Addresses /\ a.cachedEntry \in {Null, McfgGetEntry(mcfg, a.bus)}

Caller == GoodCaller(addr) /\ (step # "run" => addr.cachedEntry = Null)

Reached ==
    /\ AccessesAreMapped /\ ReachesTheRegister
    /\ \A t \in touched : t >= 0

IInv == Found /\ Mapped /\ WriteTests /\ Hiding /\ Caller /\ Reached

-------------------------------------------------------------------------------
(***************************************************************************)
(* Accesses                                                                *)
(***************************************************************************)

\* The kernel's windows are the hardware's.
LEMMA WindowsAgree ==
    ASSUME Found, step \notin BeforeMcfg
    PROVE  GoodEntries(mcfg) /\ machine.mcfg = mcfg
<1>1. machine \in Machines /\ Listed("MCFG") # Null /\ mcfg = Listed("MCFG").entries
  BY DEF Found
<1>2. machine.mcfg = mcfg
  BY <1>1, HardwareAssumption DEF Listed
<1> QED
  BY <1>1, <1>2, EntriesAreRead DEF Listed

LEMMA CallersAreGood ==
    ASSUME NEW a, GoodCaller(a)
    PROVE  GoodAddress(a)
  BY DEF GoodCaller, Addresses, GoodAddress

\* An access in memory reaches the register that is named, in memory that has been
\* mapped.
LEMMA WindowReaches ==
    ASSUME Found, Mapped, step \notin BeforeMcfg,
           NEW a, GoodCaller(a), Resolved(a, mcfg).cachedEntry # Null
    PROVE  /\ ByWindow(a)[1] = ByWindow(a)[2]
           /\ MmioAddress(Resolved(a, mcfg)) \in Nat
           /\ \E w \in windows : /\ w[1] <= MmioAddress(Resolved(a, mcfg))
                                 /\ MmioAddress(Resolved(a, mcfg)) + 8 <= w[1] + w[2]
<1> DEFINE r == Resolved(a, mcfg)
           e == McfgGetEntry(mcfg, a.bus)
<1>1. GoodEntries(mcfg) /\ machine.mcfg = mcfg
  BY WindowsAgree
<1>2. a \in Addresses /\ a.cachedEntry \in {Null, e}
  BY DEF GoodCaller
<1>3. r.cachedEntry = e
  BY <1>2 DEF Resolved, Addresses
<1>4. r.bus = a.bus /\ r.device = a.device /\ r.function = a.function /\ r.offset = a.offset
  BY <1>2 DEF Resolved, Addresses
<1>5. GoodAddress(r)
  BY <1>4, CallersAreGood DEF GoodAddress
<1>6. e # Null /\ e \in Range(mcfg) /\ Owns(e, r.bus)
  BY <1>1, <1>3, <1>4, EntryOwnsBus
<1>7. e.base \in Nat /\ e.first \in Nat /\ e.last \in Nat
  BY <1>1, <1>6, EntryTyped
<1>8. Register(r) = Register(a)
  BY <1>4, Zenon DEF Register
<1>9. << e.base, McfgSize(e) >> \in windows
  BY <1>6 DEF Mapped
<1> HIDE DEF r, e
<1>10. /\ SelectedByWindow(MmioAddress(r), e) = Register(r)
       /\ e.base <= MmioAddress(r)
       /\ MmioAddress(r) + 8 <= e.base + McfgSize(e)
       /\ MmioAddress(r) \in Nat
  BY <1>3, <1>5, <1>6, <1>7, WindowDecodes, Zenon
<1>11. ByWindow(a) = << Register(a), SelectedByWindow(MmioAddress(r), e) >>
  BY <1>1, Zenon DEF ByWindow, r, e
<1>12. ByWindow(a)[1] = ByWindow(a)[2]
  BY <1>8, <1>10, <1>11
<1>13. \E w \in windows : w[1] <= MmioAddress(r) /\ MmioAddress(r) + 8 <= w[1] + w[2]
  BY <1>9, <1>10
<1> QED
  BY <1>10, <1>12, <1>13 DEF r

\* A step that only accesses registers that are reached by port, or in memory
\* through an entry.
LEMMA AccessesReach ==
    ASSUME Found, Mapped, step \notin BeforeMcfg, windows' = windows,
           NEW ports, NEW memory, Accesses(ports, memory),
           \A a \in ports : GoodAddress(a),
           \A a \in memory : GoodCaller(a) /\ Resolved(a, mcfg).cachedEntry # Null
    PROVE  Reached'
<1>1. touched' = Touches(memory)
  BY DEF Accesses
<1>2. selected' = {ByPort(a) : a \in ports} \cup {ByWindow(a) : a \in memory}
  BY DEF Accesses
<1>3. ASSUME NEW t \in touched'
      PROVE  t >= 0 /\ \E w \in windows' : w[1] <= t /\ t + 8 <= w[1] + w[2]
  <2>1. PICK a \in memory : t = MmioAddress(Resolved(a, mcfg))
    BY <1>1, <1>3 DEF Touches
  <2>2. /\ MmioAddress(Resolved(a, mcfg)) \in Nat
        /\ \E w \in windows : /\ w[1] <= MmioAddress(Resolved(a, mcfg))
                              /\ MmioAddress(Resolved(a, mcfg)) + 8 <= w[1] + w[2]
    BY WindowReaches
  <2> QED
    BY <2>1, <2>2
<1>4. ASSUME NEW pair \in selected'
      PROVE  pair[1] = pair[2]
  <2>1. CASE \E a \in ports : pair = ByPort(a)
    <3>1. PICK a \in ports : pair = ByPort(a)
      BY <2>1
    <3>2. SelectedByPort(LegacyAddress(a)) = Register(a)
      BY PortDecodes
    <3> QED
      BY <3>1, <3>2 DEF ByPort
  <2>2. CASE \E a \in memory : pair = ByWindow(a)
    <3>1. PICK a \in memory : pair = ByWindow(a)
      BY <2>2
    <3> QED
      BY <3>1, WindowReaches
  <2> QED
    BY <2>1, <2>2, <1>2, <1>4
<1> QED
  BY <1>3, <1>4 DEF Reached, AccessesAreMapped, ReachesTheRegister

LEMMA NothingReached ==
    ASSUME NoAccess
    PROVE  Reached'
  BY DEF NoAccess, Reached, AccessesAreMapped, ReachesTheRegister

\* The addresses of Kernel::Init, whose entry is that of bus 0.
LEMMA FixedAddresses ==
    ASSUME NEW device \in 0 .. 31, NEW function \in 0 .. 7, NEW offset \in 0 .. 255
    PROVE  LET a == Address(0, device, function, offset)
           IN  /\ GoodAddress(a) /\ GoodCaller(a)
               /\ Resolved(a, mcfg).cachedEntry = McfgGetEntry(mcfg, 0)
<1> DEFINE a == Address(0, device, function, offset)
<1>1. a \in Addresses /\ a.cachedEntry = Null /\ a.bus = 0
  BY DEF Address, Addresses
<1> HIDE DEF a
<1>2. GoodCaller(a)
  BY <1>1 DEF GoodCaller
<1>3. GoodAddress(a)
  BY <1>2, CallersAreGood
<1>4. Resolved(a, mcfg).cachedEntry = McfgGetEntry(mcfg, 0)
  BY <1>1 DEF Resolved, Addresses
<1> QED
  BY <1>2, <1>3, <1>4 DEF a

-------------------------------------------------------------------------------
(***************************************************************************)
(* The write tests                                                         *)
(***************************************************************************)

\* Since the first value was read, the hardware has only set status bits.
Fresh == testing = "flip" => before \subseteq reg /\ reg \ before \subseteq Status

LEMMA TestKept ==
    ASSUME TestTypeOK, Fresh, TestNext
    PROVE  TestTypeOK' /\ Fresh'
<1> USE DEF TestTypeOK, Fresh
<1>1. Writable \subseteq Bits /\ Status \subseteq Bits /\ Flippable \subseteq Bits \ CBits
  BY RegisterAssumption
<1>2. ASSUME NEW b \in Status, HardwareSets(b) PROVE TestTypeOK' /\ Fresh'
  BY <1>1, <1>2 DEF HardwareSets
<1>3. ASSUME NEW f \in Flippable, ReadBefore(f) PROVE TestTypeOK' /\ Fresh'
  BY <1>3 DEF ReadBefore
<1>4. CASE WriteFlipped
  <2>1. tmp' \subseteq Bits \ CBits
    <3>1. tmp' = Committed(before, Flipped(before, field))
      BY <1>4 DEF WriteFlipped
    <3>2. before \subseteq Bits /\ Fields \subseteq Bits \ CBits
      BY RegisterAssumption
    <3> QED
      BY <3>1, <3>2 DEF Committed
  <2>2. reg' \subseteq Bits
    BY <1>1, <1>4 DEF WriteFlipped, Written
  <2> QED
    BY <1>4, <2>1, <2>2 DEF WriteFlipped
<1>5. CASE ReadAfter
  BY <1>5 DEF ReadAfter
<1>6. CASE Restore
  <2>1. reg' \subseteq Bits
    BY <1>1, <1>6 DEF Restore, Written
  <2>2. (tmp = after) \in BOOLEAN
    OBVIOUS
  <2> QED
    BY <1>6, <2>1, <2>2 DEF Restore
<1>7. CASE TestReturns
  BY <1>7 DEF TestReturns
<1> QED
  BY <1>2, <1>3, <1>4, <1>5, <1>6, <1>7 DEF TestNext

\* A flip is written to its bit alone: the other bits that hold what is written are
\* as they were read, and no status bit gets a one.
LEMMA FlipIsClean ==
    ASSUME TestTypeOK, Fresh, WriteFlipped
    PROVE  reg' = IF field \in Writable
                  THEN (IF field \in before THEN reg \ {field} ELSE reg \cup {field})
                  ELSE reg
<1>1. /\ tmp' = Committed(before, Flipped(before, field)) /\ reg' = Written(tmp')
      /\ before \subseteq reg /\ reg \ before \subseteq Status
  BY DEF WriteFlipped, Fresh
<1>2. /\ field \in Fields /\ Status \subseteq CBits /\ CBits \cap Writable = {}
      /\ Writable \cap Status = {} /\ Fields \cap CBits = {}
  BY RegisterAssumption DEF TestTypeOK
<1>3. ASSUME NEW x
      PROVE  x \in tmp' <=> IF x = field THEN field \notin before
                                         ELSE x \in before /\ x \notin CBits
  BY <1>1, <1>2 DEF Committed, Flipped
<1>4. ASSUME NEW x
      PROVE  x \in reg' <=> \/ x \in Writable /\ x \in tmp'
                            \/ x \in reg /\ x \in Status /\ x \notin tmp'
                            \/ x \in reg /\ x \notin Writable /\ x \notin Status
  BY <1>1 DEF Written
<1>5. ASSUME NEW x
      PROVE  x \in reg' <=> IF x = field /\ field \in Writable THEN field \notin before
                                                             ELSE x \in reg
  <2>1. CASE x \in Writable
    BY <1>1, <1>2, <1>3, <1>4, <2>1
  <2>2. CASE x \in Status
    BY <1>1, <1>2, <1>3, <1>4, <2>2
  <2>3. CASE x \notin Writable /\ x \notin Status
    BY <1>4, <2>3
  <2> QED
    BY <2>1, <2>2, <2>3
<1>6. reg' \subseteq Bits /\ reg \subseteq Bits
  BY TestKept DEF TestNext, TestTypeOK
<1> QED
  BY <1>1, <1>5, <1>6

-------------------------------------------------------------------------------
(***************************************************************************)
(* The invariant holds                                                     *)
(***************************************************************************)

LEMMA InitHolds == Init => IInv
<1> SUFFICES ASSUME Init PROVE IInv
  OBVIOUS
<1> USE DEF Init
<1>1. Found
  BY DEF Found, Steps, BeforeMcfg, BeforeFadt
<1>2. Mapped
  BY DEF Mapped, BeforeMcfg
<1>3. WriteTests
  BY DEF WriteTests, TestInit, TestTypeOK, BeforeMcfg
<1>4. Hiding
  <2>1. machine.p2sb \subseteq AllOnes
    BY HardwareAssumption, Zenon DEF AllOnes
  <2> QED
    BY <2>1 DEF Hiding, AfterHide
<1>5. Caller
  <2>0. 0 \in 0 .. 31 /\ 0 \in 0 .. 7 /\ 0 \in 0 .. 255
    OBVIOUS
  <2>1. GoodCaller(addr)
    BY <2>0, FixedAddresses
  <2> QED
    BY <2>1 DEF Caller, Address
<1>6. Reached
  BY DEF Reached, AccessesAreMapped, ReachesTheRegister
<1> QED
  BY <1>1, <1>2, <1>3, <1>4, <1>5, <1>6 DEF IInv

\* The steps that neither call nor return in Kernel::Init.
Within ==
    \/ WriteTest \/ WriteTestReturns \/ \E b \in Status : StatusIsSet(b)
    \/ SetAddress \/ UseByPort \/ UseByMemory \/ UNCHANGED vars

LEMMA WithinKeeps ==
    ASSUME Within
    PROVE  UNCHANGED << machine, asserts, step, stopped, root, mcfg, fadt, windows, p2sb, sbreg, pwrm >>
  BY DEF Within, WriteTest, WriteTestReturns, StatusIsSet, SetAddress, UseByPort, UseByMemory,
         Use, vars, kernelVars, deviceVars

\* The calls once the tables are loaded.
Later ==
    \/ WriteTestsDone("testPorts", "testMemory") \/ WriteTestsDone("testMemory", "unhide")
    \/ SetHide("unhide", "sbreg", FALSE) \/ ReadSbreg \/ SetHide("hide", "resetCause", TRUE)
    \/ GetResetCause \/ HpetLoad \/ ChronoInit

LEMMA LaterKeeps ==
    ASSUME Later
    PROVE  /\ UNCHANGED << machine, asserts, stopped, root, mcfg, fadt >>
           /\ ~stopped /\ step \in Steps \ BeforeFadt /\ step' \in Steps \ BeforeFadt
<1>1. UNCHANGED << machine, asserts, stopped, root, mcfg, fadt >> /\ ~stopped
  BY DEF Later, WriteTestsDone, SetHide, ReadSbreg, GetResetCause, HpetLoad, ChronoInit, Call,
         kernelVars
<1>2. step \in Steps \ BeforeFadt /\ step' \in Steps \ BeforeFadt
  BY DEF Later, WriteTestsDone, SetHide, ReadSbreg, GetResetCause, HpetLoad, ChronoInit, Call,
         Steps, BeforeFadt
<1> QED
  BY <1>1, <1>2

LEMMA StepsAre ==
    ASSUME [Next]_vars
    PROVE  \/ LoadSdt \/ McfgLoad \/ TestPciRead \/ LoadFadt
           \/ Within \/ Later \/ Stop
  BY DEF Next, Within, Later, Halted

LEMMA FoundKept ==
    ASSUME Found, [Next]_vars
    PROVE  Found'
<1>0. /\ machine \in Machines /\ asserts \in BOOLEAN /\ stopped \in BOOLEAN /\ step \in Steps
  BY DEF Found
<1> USE DEF Found, Steps, BeforeMcfg, BeforeFadt
<1>1. CASE LoadSdt
  BY <1>0, <1>1 DEF LoadSdt, Call
<1>2. CASE McfgLoad
  <2>1. /\ step = "mcfg" /\ step' = "pciRead" /\ ~stopped
        /\ UNCHANGED << machine, asserts, stopped, root >>
        /\ mcfg' = McfgEntries(FindTable(root, "MCFG"))
        /\ root # Null /\ FindTable(root, "MCFG") # Null
    BY <1>2 DEF McfgLoad, Call, Proceeds
  <2>2. root = machine.root
    BY <2>1
  <2>3. FindTable(root, "MCFG") = Listed("MCFG")
    BY <1>0, <2>2, FindsTheFirst DEF Listed
  <2>4. McfgEntries(Listed("MCFG")) = Listed("MCFG").entries
    BY <1>0, <2>1, <2>3, EntriesAreRead DEF Listed
  <2>5. Listed("MCFG")' = Listed("MCFG")
    BY <2>1 DEF Listed
  <2> QED
    BY <1>0, <2>1, <2>2, <2>3, <2>4, <2>5
<1>3. CASE TestPciRead
  <2>1. /\ step = "pciRead" /\ step' = "fadt" /\ ~stopped
        /\ UNCHANGED << machine, asserts, stopped, root, mcfg, fadt >>
    BY <1>3 DEF TestPciRead, Call, kernelVars
  <2> QED
    BY <1>0, <2>1 DEF Listed
<1>4. CASE LoadFadt
  <2>1. /\ step = "fadt" /\ step' = "testPorts" /\ ~stopped
        /\ UNCHANGED << machine, asserts, stopped, root, mcfg >>
        /\ fadt' = FindTable(root, "FACP")
    BY <1>4 DEF LoadFadt, Call
  <2>2. FindTable(root, "FACP") = Listed("FACP")
    BY <1>0, <2>1, FindsTheFirst DEF Listed
  <2> QED
    BY <1>0, <2>1, <2>2 DEF Listed
<1>5. CASE Within
  <2>1. UNCHANGED << machine, asserts, step, stopped, root, mcfg, fadt >>
    BY <1>5, WithinKeeps
  <2> QED
    BY <1>0, <2>1 DEF Listed
<1>6. CASE Later
  <2>1. /\ UNCHANGED << machine, asserts, stopped, root, mcfg, fadt >>
        /\ ~stopped /\ step \in Steps \ BeforeFadt /\ step' \in Steps \ BeforeFadt
    BY <1>6, LaterKeeps
  <2>2. step' = "chrono" => Listed("HPET") # Null
    <3>1. SUFFICES ASSUME HpetLoad PROVE Listed("HPET") # Null
      BY <1>6 DEF Later, WriteTestsDone, SetHide, ReadSbreg, GetResetCause, ChronoInit, Call
    <3>2. FindTable(root, "HPET") # Null /\ root = machine.root
      BY <3>1, <2>1 DEF HpetLoad, Call, Proceeds
    <3> QED
      BY <1>0, <3>2, FindsTheFirst DEF Listed
  <2> QED
    BY <1>0, <2>1, <2>2 DEF Listed
<1>7. CASE Stop
  <2>1. /\ UNCHANGED << machine, asserts, step, root, mcfg, fadt >> /\ ~stopped /\ stopped' = TRUE
        /\ ~Proceeds
    BY <1>7 DEF Stop, kernelVars
  <2>2. step \in {"fadt", "hpet"} => root = machine.root
    BY <2>1
  <2>3. step = "fadt" => Listed("FACP") = Null
    BY <1>0, <2>1, <2>2, FindsTheFirst DEF Listed, Proceeds
  <2>4. step = "hpet" => Listed("HPET") = Null
    BY <1>0, <2>1, <2>2, FindsTheFirst DEF Listed, Proceeds
  <2> QED
    BY <1>0, <2>1, <2>3, <2>4 DEF Listed
<1> QED
  BY <1>1, <1>2, <1>3, <1>4, <1>5, <1>6, <1>7, StepsAre

LEMMA WriteTestsKept ==
    ASSUME Found, WriteTests, [Next]_vars
    PROVE  WriteTests'
<1>0. TestTypeOK /\ Fresh
  BY DEF WriteTests, Fresh
<1>1. TestTypeOK' /\ Fresh'
  <2>1. TestNext \/ UNCHANGED testVars
    BY DEF WriteTests, Next, LoadSdt, McfgLoad, TestPciRead, LoadFadt, WriteTest, WriteTestReturns,
           StatusIsSet, WriteTestsDone, SetHide, ReadSbreg, GetResetCause, HpetLoad, ChronoInit,
           SetAddress, UseByPort, UseByMemory, Use, Stop, Halted, vars, TestNext
  <2>2. CASE TestNext
    BY <1>0, <2>2, TestKept
  <2>3. CASE UNCHANGED testVars
    BY <1>0, <2>3 DEF testVars, TestTypeOK, Fresh
  <2> QED
    BY <2>1, <2>2, <2>3
<1>2. untested' \subseteq Flippable
  BY DEF WriteTests, Next, LoadSdt, McfgLoad, TestPciRead, LoadFadt, WriteTest, WriteTestReturns,
         StatusIsSet, WriteTestsDone, SetHide, ReadSbreg, GetResetCause, HpetLoad, ChronoInit,
         SetAddress, UseByPort, UseByMemory, Use, Stop, Halted, vars
<1>3. untested' # {} \/ testing' # "idle" => asserts' /\ step' \in Testing
  <2> USE DEF WriteTests, Testing, testVars
  <2>1. CASE LoadSdt \/ McfgLoad \/ TestPciRead
    BY <2>1 DEF LoadSdt, McfgLoad, TestPciRead, Call
  <2>2. CASE LoadFadt
    BY <2>2 DEF LoadFadt, Call
  <2>3. CASE WriteTest
    BY <2>3 DEF WriteTest, WriteFlipped, ReadAfter, Restore
  <2>4. CASE WriteTestReturns
    BY <2>4 DEF WriteTestReturns, TestReturns
  <2>5. CASE \E b \in Status : StatusIsSet(b)
    BY <2>5 DEF StatusIsSet, HardwareSets
  <2>6. CASE SetAddress \/ UseByPort \/ UseByMemory
    BY <2>6 DEF SetAddress, UseByPort, UseByMemory, Use
  <2>7. CASE UNCHANGED vars \/ Stop
    BY <2>7 DEF vars, Stop
  <2>8. CASE Later
    BY <2>8 DEF Later, WriteTestsDone, SetHide, ReadSbreg, GetResetCause, HpetLoad, ChronoInit, Call
  <2> QED
    BY <2>1, <2>2, <2>3, <2>4, <2>5, <2>6, <2>7, <2>8, StepsAre DEF Within
<1>4. asserts' /\ step' \notin BeforeMcfg \cup {"pciRead"} => Reachable(0)'
  <2> USE DEF WriteTests, BeforeMcfg, BeforeFadt
  <2>1. CASE LoadSdt \/ McfgLoad
    BY <2>1 DEF LoadSdt, McfgLoad, Call
  <2>2. CASE TestPciRead
    BY <2>2 DEF TestPciRead, Call, Proceeds, kernelVars, Reachable
  <2>3. CASE LoadFadt
    BY <2>3 DEF LoadFadt, Call, Reachable
  <2>4. CASE Within
    BY <2>4, WithinKeeps DEF Reachable
  <2>5. CASE Later
    BY <2>5, LaterKeeps DEF Reachable
  <2>6. CASE Stop
    BY <2>6 DEF Stop, kernelVars, Reachable
  <2> QED
    BY <2>1, <2>2, <2>3, <2>4, <2>5, <2>6, StepsAre
<1> QED
  BY <1>1, <1>2, <1>3, <1>4 DEF WriteTests, Fresh

\* getResetCause takes the controller's base for what it is, wherever it looks.
LEMMA BaseIsTheDevices ==
    ASSUME Found, step = "resetCause", ~(machine.pmcHidden /\ PwrmBase = 0)
    PROVE  PwrmBase = machine.pwrmbase /\ BaseAddr(PwrmBase) = machine.pwrmbase
<1>1. machine \in Machines /\ fadt = Listed("FACP")
  BY DEF Found, BeforeFadt
<1>2. PwrmBase = machine.pwrmbase
  <2>1. CASE machine.pmcHidden
    BY <1>1, <2>1, TimerShowsBase DEF PwrmBase, Listed
  <2>2. CASE ~machine.pmcHidden
    BY <1>1, <2>2, BaseFits DEF PwrmBase
  <2> QED
    BY <2>1, <2>2
<1> QED
  BY <1>1, <1>2, BaseFits

LEMMA MappedKept ==
    ASSUME Found, Mapped, [Next]_vars
    PROVE  Mapped'
<1>0. Found'
  BY FoundKept
<1> USE DEF Mapped, BeforeMcfg
<1>1. CASE LoadSdt
  BY <1>1 DEF LoadSdt, Call
<1>2. CASE McfgLoad
  <2>1. step' = "pciRead" /\ windows' = {<< e.base, McfgSize(e) >> : e \in Range(mcfg')}
    BY <1>2 DEF McfgLoad, Call
  <2>2. GoodEntries(mcfg')
    <3>1. /\ machine' \in Machines /\ Listed("MCFG")' # Null
          /\ mcfg' = Listed("MCFG")'.entries
      BY <1>0, <2>1 DEF Found
    <3> QED
      BY <3>1, EntriesAreRead DEF Listed
  <2>3. \A w \in windows' : w[1] >= 0 /\ w[2] > 0
    BY <2>1, <2>2, WindowHasSize
  <2> QED
    BY <2>1, <2>3
<1>3. CASE TestPciRead \/ LoadFadt
  BY <1>3 DEF TestPciRead, LoadFadt, Call, kernelVars
<1>4. CASE Within
  BY <1>4, WithinKeeps DEF Listed
<1>5. CASE Stop
  BY <1>5 DEF Stop, kernelVars, Listed
<1>6. CASE Later
  <2>0. UNCHANGED << machine, mcfg, root >> /\ step \notin BeforeMcfg
    BY <1>6, LaterKeeps DEF BeforeFadt
  <2>1. CASE GetResetCause
    <3>1. step = "resetCause" /\ step' = "hpet"
      BY <2>1 DEF GetResetCause, Call
    <3>2. CASE windows' = windows
      BY <2>0, <3>1, <3>2
    <3>3. CASE windows' # windows
      <4>1. pwrm' = BaseAddr(PwrmBase) /\ windows' = windows \cup {<< pwrm', PmcSize >>}
        BY <2>1, <3>3 DEF GetResetCause
      <4>2. pwrm' >= 0
        <5>1. machine \in Machines
          BY DEF Found
        <5>2. PwrmBase = machine.pwrmbase
          BY <2>1, <3>1, <3>3, BaseIsTheDevices DEF GetResetCause
        <5> QED
          BY <4>1, <5>1, <5>2, BaseFits
      <4>3. PmcSize > 0
        BY SMT DEF PmcSize, PageSize
      <4> QED
        BY <2>0, <3>1, <4>1, <4>2, <4>3
    <3> QED
      BY <3>2, <3>3
  <2>2. CASE HpetLoad
    <3>1. /\ step = "hpet" /\ step' = "chrono" /\ FindTable(root, "HPET") # Null
          /\ windows' = windows \cup {<< FindTable(root, "HPET").address, PageSize >>}
      BY <2>2 DEF HpetLoad, Call, Proceeds
    <3>2. machine \in Machines /\ root = machine.root
      BY <3>1 DEF Found
    <3>3. FindTable(root, "HPET") = Listed("HPET")
      BY <3>2, FindsTheFirst DEF Listed
    <3>4. Listed("HPET").address >= 0
      <4>1. /\ Listed("HPET") \in Range(machine.root.tables)
            /\ Listed("HPET").signature = "HPET"
        BY <3>1, <3>2, <3>3, FirstIsListed DEF Listed
      <4>2. Listed("HPET").address \in Nat
        BY <3>2, <4>1, TablesAssumption
      <4> QED
        BY <4>2
    <3>5. PageSize > 0
      BY SMT DEF PageSize
    <3>6. Listed("HPET")' = Listed("HPET")
      BY <2>0 DEF Listed
    <3> QED
      BY <2>0, <3>1, <3>3, <3>4, <3>5, <3>6
  <2>3. CASE ~GetResetCause /\ ~HpetLoad
    <3>1. UNCHANGED windows /\ step' # "chrono"
      BY <1>6, <2>3 DEF Later, WriteTestsDone, SetHide, ReadSbreg, ChronoInit, Call, kernelVars
    <3> QED
      BY <2>0, <3>1
  <2> QED
    BY <2>1, <2>2, <2>3
<1> QED
  BY <1>1, <1>2, <1>3, <1>4, <1>5, <1>6, StepsAre

LEMMA HidingKept ==
    ASSUME Found, Hiding, [Next]_vars
    PROVE  Hiding'
<1>0. Hide \notin Locks /\ Locks \subseteq P2sbFields /\ Hide \in P2sbFields
  BY DEF Hide, Locks, P2sbFields
<1> USE DEF Hiding, AfterHide
<1>1. CASE LoadSdt \/ McfgLoad \/ TestPciRead \/ LoadFadt
  BY <1>1 DEF LoadSdt, McfgLoad, TestPciRead, LoadFadt, Call, deviceVars
<1>2. CASE Within
  BY <1>2, WithinKeeps
<1>3. CASE Stop
  BY <1>3 DEF Stop, deviceVars
<1>4. CASE WriteTestsDone("testPorts", "testMemory") \/ WriteTestsDone("testMemory", "unhide")
           \/ HpetLoad \/ ChronoInit
  BY <1>4 DEF WriteTestsDone, HpetLoad, ChronoInit, Call, deviceVars
<1>5. CASE SetHide("unhide", "sbreg", FALSE)
  <2>1. /\ step' = "sbreg" /\ UNCHANGED << machine, sbreg, pwrm >>
        /\ p2sb' \in {P2sbcWritten(FALSE), P2sbcWritten(FALSE) \cup (p2sb \cap Locks)}
    BY <1>5 DEF SetHide, Call
  <2>2. P2sbcWritten(FALSE) \subseteq AllOnes \ P2sbFields
    BY DEF P2sbcWritten, P2sbcRead
  <2> HIDE DEF Hide, Locks, P2sbFields
  <2>3. p2sb' \subseteq AllOnes /\ Hide \notin p2sb' /\ p2sb' \cap Locks \subseteq p2sb \cap Locks
    BY <1>0, <2>1, <2>2
  <2> QED
    BY <2>1, <2>3
<1>6. CASE ReadSbreg
  <2>1. /\ step = "sbreg" /\ step' = "hide" /\ UNCHANGED << machine, p2sb, pwrm >>
        /\ sbreg' = IF Hide \in p2sb THEN AllOnes ELSE << machine.sbreg.rbah, machine.sbreg.rba >>
    BY <1>6 DEF ReadSbreg, Call
  <2> QED
    BY <2>1
<1>7. CASE SetHide("hide", "resetCause", TRUE)
  <2>1. /\ step' = "resetCause" /\ UNCHANGED << machine, sbreg, pwrm >>
        /\ p2sb' \in {P2sbcWritten(TRUE), P2sbcWritten(TRUE) \cup (p2sb \cap Locks)}
    BY <1>7 DEF SetHide, Call
  <2>2. /\ P2sbcWritten(TRUE) \subseteq AllOnes /\ Hide \in P2sbcWritten(TRUE)
        /\ P2sbcWritten(TRUE) \cap Locks = {}
    BY <1>0 DEF P2sbcWritten, P2sbcRead, AllOnes, Locks
  <2>3. p2sb' \subseteq AllOnes /\ Hide \in p2sb' /\ p2sb' \cap Locks \subseteq p2sb \cap Locks
    BY <2>1, <2>2
  <2> QED
    BY <2>1, <2>3
<1>8. CASE GetResetCause
  <2>1. /\ step = "resetCause" /\ step' = "hpet" /\ UNCHANGED << machine, p2sb, sbreg >>
        /\ \/ pwrm' = pwrm
           \/ pwrm' = BaseAddr(PwrmBase) /\ ~(machine.pmcHidden /\ PwrmBase = 0)
    <3>1. /\ step = "resetCause" /\ step' = "hpet" /\ machine' = machine
          /\ p2sb' = p2sb /\ sbreg' = sbreg
      BY <1>8 DEF GetResetCause, Call
    <3>2. CASE machine.pmcHidden /\ PwrmBase = 0
      <4>1. UNCHANGED << windows, pwrm >>
        BY <1>8, <3>2, Zenon DEF GetResetCause
      <4> QED
        BY <3>1, <4>1
    <3>3. CASE ~(machine.pmcHidden /\ PwrmBase = 0)
      <4>1. pwrm' = BaseAddr(PwrmBase)
        BY <1>8, <3>3, Zenon DEF GetResetCause
      <4> QED
        BY <3>1, <3>3, <4>1
    <3> QED
      BY <3>2, <3>3
  <2>2. pwrm' = pwrm \/ pwrm' = machine.pwrmbase
    BY <2>1, BaseIsTheDevices
  <2> QED
    BY <2>1, <2>2
<1> QED
  BY <1>1, <1>2, <1>3, <1>4, <1>5, <1>6, <1>7, <1>8, StepsAre DEF Later

LEMMA CallerKept ==
    ASSUME Found, Caller, [Next]_vars
    PROVE  Caller'
<1> USE DEF Caller
<1>1. CASE LoadSdt \/ McfgLoad
  <2>1. step \in BeforeMcfg /\ step' # "run" /\ step # "run" /\ addr' = addr
    BY <1>1 DEF LoadSdt, McfgLoad, Call, BeforeMcfg
  <2>2. addr.cachedEntry = Null /\ addr \in Addresses
    BY <2>1 DEF GoodCaller
  <2>3. addr \in Addresses'
    BY <2>2 DEF Addresses
  <2> QED
    BY <2>1, <2>2, <2>3 DEF GoodCaller
<1>2. CASE TestPciRead \/ LoadFadt \/ Stop \/ WriteTest \/ WriteTestReturns
           \/ (\E b \in Status : StatusIsSet(b)) \/ UseByPort \/ UNCHANGED vars
  <2>1. mcfg' = mcfg /\ addr' = addr /\ (step = "run" => step' = "run")
    <3>1. CASE TestPciRead \/ LoadFadt
      BY <3>1 DEF TestPciRead, LoadFadt, kernelVars, Call
    <3>2. CASE Stop
      BY <3>2 DEF Stop, kernelVars
    <3>3. CASE WriteTest \/ WriteTestReturns
      BY <3>3 DEF WriteTest, WriteTestReturns, kernelVars
    <3>4. CASE \E b \in Status : StatusIsSet(b)
      BY <3>4 DEF StatusIsSet, kernelVars
    <3>5. CASE UseByPort
      BY <3>5 DEF UseByPort, Use, kernelVars
    <3>6. CASE UNCHANGED vars
      BY <3>6 DEF vars, kernelVars
    <3> QED
      BY <1>2, <3>1, <3>2, <3>3, <3>4, <3>5, <3>6
  <2> QED
    BY <2>1 DEF GoodCaller, Addresses
<1>3. CASE Later
  <2>1. mcfg' = mcfg /\ addr' = addr /\ step # "run"
    BY <1>3 DEF Later, WriteTestsDone, SetHide, ReadSbreg, GetResetCause, HpetLoad, ChronoInit,
                Call, kernelVars
  <2> QED
    BY <2>1 DEF GoodCaller, Addresses
<1>4. CASE SetAddress
  <2>1. step = "run" /\ step' = "run" /\ mcfg' = mcfg
    BY <1>4 DEF SetAddress, Use, kernelVars
  <2>2. addr \in Addresses /\ addr.cachedEntry \in {Null, McfgGetEntry(mcfg, addr.bus)}
    BY DEF GoodCaller
  <2>3. ASSUME NEW b \in Buses, addr' = SetBus(addr, b) PROVE GoodCaller(addr')
    <3>1. b \in 0 .. 255
      BY AddressAssumption
    <3>2. CASE addr.bus = b
      BY <2>2, <2>3, <3>2 DEF SetBus, GoodCaller
    <3>3. CASE addr.bus # b
      <4>1. addr' = [addr EXCEPT !.bus = b, !.cachedEntry = Null]
        BY <2>3, <3>3 DEF SetBus
      <4>2. addr' \in Addresses /\ addr'.cachedEntry = Null
        <5>1. addr' = [bus |-> b, device |-> addr.device, function |-> addr.function,
                       offset |-> addr.offset, cachedEntry |-> Null]
          BY <2>2, <4>1 DEF Addresses
        <5> QED
          BY <2>2, <3>1, <5>1 DEF Addresses
      <4> QED
        BY <4>2 DEF GoodCaller
    <3> QED
      BY <3>2, <3>3
  <2>4. ASSUME NEW d \in {0, 31}, addr' = [addr EXCEPT !.device = d] PROVE GoodCaller(addr')
    BY <2>2, <2>4 DEF GoodCaller, Addresses
  <2>5. ASSUME NEW f \in {0, 7}, addr' = [addr EXCEPT !.function = f] PROVE GoodCaller(addr')
    BY <2>2, <2>5 DEF GoodCaller, Addresses
  <2>6. ASSUME NEW o \in Offsets, addr' = [addr EXCEPT !.offset = o] PROVE GoodCaller(addr')
    <3>1. o \in 0 .. 255
      BY AddressAssumption
    <3> QED
      BY <2>2, <2>6, <3>1 DEF GoodCaller, Addresses
  <2>7. GoodCaller(addr')
    BY <1>4, <2>3, <2>4, <2>5, <2>6 DEF SetAddress
  <2> QED
    BY <2>1, <2>7 DEF GoodCaller, Addresses
<1>5. CASE UseByMemory
  <2>1. /\ step = "run" /\ step' = "run" /\ mcfg' = mcfg /\ addr' = Resolved(addr, mcfg)
        /\ Resolved(addr, mcfg).cachedEntry # Null
    BY <1>5 DEF UseByMemory, Use, kernelVars, Proceeds
  <2>2. addr \in Addresses /\ addr.cachedEntry \in {Null, McfgGetEntry(mcfg, addr.bus)}
    BY DEF GoodCaller
  <2>3. GoodEntries(mcfg)
    BY <2>1, WindowsAgree DEF BeforeMcfg
  <2>4. /\ addr'.cachedEntry = McfgGetEntry(mcfg, addr.bus) /\ addr'.bus = addr.bus
    BY <2>1, <2>2 DEF Resolved, Addresses
  <2>5. McfgGetEntry(mcfg, addr.bus) \in Range(mcfg)
    BY <2>1, <2>3, <2>4, EntryOwnsBus
  <2>6. addr' \in Addresses
    BY <2>1, <2>2, <2>5 DEF Resolved, Addresses
  <2> QED
    BY <2>1, <2>4, <2>6 DEF GoodCaller, Addresses
<1> QED
  BY <1>1, <1>2, <1>3, <1>4, <1>5, StepsAre DEF Within

\* The registers of the reset cause lie within what getResetCause maps.
LEMMA CausesFit ==
    ASSUME NEW base \in Nat, NEW c \in CauseOffsets
    PROVE  base <= base + c /\ base + c + 8 <= base + PmcSize /\ base + c >= 0
<1>1. c \in 6436 .. 6444
  BY SMT DEF CauseOffsets
<1>2. PmcSize = 8192
  BY SMT DEF PmcSize, PageSize
<1> QED
  BY <1>1, <1>2, SMT

LEMMA ReachedKept ==
    ASSUME IInv, [Next]_vars
    PROVE  Reached'
<1> USE DEF IInv
<1>1. CASE LoadSdt \/ McfgLoad \/ LoadFadt \/ WriteTestReturns \/ HpetLoad \/ SetAddress \/ Stop
           \/ WriteTestsDone("testPorts", "testMemory") \/ WriteTestsDone("testMemory", "unhide")
  <2>1. NoAccess
    BY <1>1 DEF LoadSdt, McfgLoad, LoadFadt, WriteTestReturns, HpetLoad, SetAddress, Stop,
                WriteTestsDone
  <2> QED
    BY <2>1, NothingReached
<1>2. CASE UNCHANGED vars \/ \E b \in Status : StatusIsSet(b)
  <2>1. UNCHANGED << windows, touched, selected >>
    BY <1>2 DEF vars, StatusIsSet, accessVars, kernelVars
  <2> QED
    BY <2>1 DEF Reached, AccessesAreMapped, ReachesTheRegister
<1>3. CASE TestPciRead
  <2>1. step = "pciRead" /\ windows' = windows /\ (asserts => Reachable(0))
        /\ IF asserts THEN Accesses({ESPI_DID_VID}, {ESPI_DID_VID}) ELSE NoAccess
    BY <1>3 DEF TestPciRead, Call, Proceeds, kernelVars
  <2>2. /\ GoodAddress(ESPI_DID_VID) /\ GoodCaller(ESPI_DID_VID)
        /\ Resolved(ESPI_DID_VID, mcfg).cachedEntry = McfgGetEntry(mcfg, 0)
    <3>1. 31 \in 0 .. 31 /\ 0 \in 0 .. 7 /\ 0 \in 0 .. 255
      BY SMT
    <3> QED
      BY <3>1, FixedAddresses, Zenon DEF ESPI_DID_VID
  <2>3. CASE asserts
    <3>1. Accesses({ESPI_DID_VID}, {ESPI_DID_VID}) /\ step \notin BeforeMcfg
      BY <2>1, <2>3 DEF BeforeMcfg
    <3>2. \A a \in {ESPI_DID_VID} : GoodAddress(a)
      BY <2>2
    <3>3. \A a \in {ESPI_DID_VID} : GoodCaller(a) /\ Resolved(a, mcfg).cachedEntry # Null
      BY <2>1, <2>2, <2>3 DEF Reachable
    <3> QED
      BY <2>1, <3>1, <3>2, <3>3, AccessesReach
  <2>4. CASE ~asserts
    BY <2>1, <2>4, NothingReached
  <2> QED
    BY <2>3, <2>4
<1>4. CASE WriteTest
  <2> DEFINE a == Address(0, 31, TestFunction[field'], 4)
  <2>1. /\ step \in Testing /\ windows' = windows
        /\ IF step = "testPorts" THEN Accesses({a}, {}) ELSE Accesses({}, {a})
    BY <1>4 DEF WriteTest, Testing, TestAccess, kernelVars
  <2>2. untested # {} \/ testing # "idle"
    BY <1>4 DEF WriteTest, WriteFlipped, ReadAfter, Restore
  <2>3. step \notin BeforeMcfg \cup {"pciRead"}
    BY <2>1 DEF Testing, BeforeMcfg
  <2>4. Reachable(0)
    BY <2>2, <2>3 DEF WriteTests
  <2>5. TestFunction[field'] \in 0 .. 7
    <3>1. field' \in Flippable
      BY <1>4 DEF WriteTest, ReadBefore, WriteFlipped, ReadAfter, Restore, WriteTests, TestTypeOK
    <3> QED
      BY <3>1, AddressAssumption
  <2>6. GoodAddress(a) /\ GoodCaller(a) /\ Resolved(a, mcfg).cachedEntry = McfgGetEntry(mcfg, 0)
    <3>1. 31 \in 0 .. 31 /\ 4 \in 0 .. 255
      BY SMT
    <3> QED
      BY <2>5, <3>1, FixedAddresses, Zenon
  <2> HIDE DEF a
  <2>7. Resolved(a, mcfg).cachedEntry # Null
    BY <2>4, <2>6 DEF Reachable
  <2>8. CASE step = "testPorts"
    <3>1. Accesses({a}, {})
      BY <2>1, <2>8
    <3> QED
      BY <2>1, <2>3, <2>6, <3>1, AccessesReach
  <2>9. CASE step # "testPorts"
    <3>1. Accesses({}, {a})
      BY <2>1, <2>9
    <3> QED
      BY <2>1, <2>3, <2>6, <2>7, <3>1, AccessesReach
  <2> QED
    BY <2>8, <2>9
<1>5. ASSUME NEW here \in {"unhide", "hide"}, NEW then, NEW hide, SetHide(here, then, hide)
      PROVE  Reached'
  <2>1. /\ step = here /\ windows' = windows
        /\ IF asserts THEN Accesses({}, {P2SBC, P2SB_ID}) ELSE Accesses({P2SBC}, {})
    BY <1>5 DEF SetHide, Call, kernelVars
  <2>2. step \notin BeforeMcfg \cup {"pciRead"}
    BY <2>1 DEF BeforeMcfg
  <2>3. /\ GoodAddress(P2SBC) /\ GoodCaller(P2SBC)
        /\ Resolved(P2SBC, mcfg).cachedEntry = McfgGetEntry(mcfg, 0)
        /\ GoodAddress(P2SB_ID) /\ GoodCaller(P2SB_ID)
        /\ Resolved(P2SB_ID, mcfg).cachedEntry = McfgGetEntry(mcfg, 0)
    <3>1. 31 \in 0 .. 31 /\ 1 \in 0 .. 7 /\ 0 \in 0 .. 255 /\ 224 \in 0 .. 255
      BY SMT
    <3>2. \A o \in 0 .. 255 :
             /\ GoodAddress(Address(0, 31, 1, o)) /\ GoodCaller(Address(0, 31, 1, o))
             /\ Resolved(Address(0, 31, 1, o), mcfg).cachedEntry = McfgGetEntry(mcfg, 0)
      BY <3>1, FixedAddresses, Zenon
    <3>3. /\ \E o \in 0 .. 255 : P2SBC = Address(0, 31, 1, o)
          /\ \E o \in 0 .. 255 : P2SB_ID = Address(0, 31, 1, o)
      BY <3>1, SMT DEF P2SBC, P2SB_ID
    <3> QED
      BY <3>2, <3>3, Zenon
  <2>4. CASE asserts
    <3>1. Reachable(0)
      BY <2>2, <2>4 DEF WriteTests
    <3>2. \A a \in {P2SBC, P2SB_ID} : GoodCaller(a) /\ Resolved(a, mcfg).cachedEntry # Null
      BY <2>3, <3>1 DEF Reachable
    <3>3. Accesses({}, {P2SBC, P2SB_ID})
      BY <2>1, <2>4
    <3> QED
      BY <2>1, <2>2, <3>2, <3>3, AccessesReach
  <2>5. CASE ~asserts
    <3>1. Accesses({P2SBC}, {})
      BY <2>1, <2>5
    <3>2. \A a \in {P2SBC} : GoodAddress(a)
      BY <2>3
    <3> QED
      BY <2>1, <2>2, <3>1, <3>2, AccessesReach
  <2> QED
    BY <2>4, <2>5
<1>6. CASE ReadSbreg
  <2>1. /\ step = "sbreg" /\ windows' = windows /\ Reachable(0)
        /\ Accesses({}, {SBREG_BAR, SBREG_BARH})
    BY <1>6 DEF ReadSbreg, Call, Proceeds, kernelVars
  <2>2. step \notin BeforeMcfg
    BY <2>1 DEF BeforeMcfg
  <2>3. /\ GoodCaller(SBREG_BAR) /\ Resolved(SBREG_BAR, mcfg).cachedEntry = McfgGetEntry(mcfg, 0)
        /\ GoodCaller(SBREG_BARH) /\ Resolved(SBREG_BARH, mcfg).cachedEntry = McfgGetEntry(mcfg, 0)
    <3>1. 31 \in 0 .. 31 /\ 1 \in 0 .. 7 /\ 16 \in 0 .. 255 /\ 20 \in 0 .. 255
      BY SMT
    <3> QED
      BY <3>1, FixedAddresses, Zenon DEF SBREG_BAR, SBREG_BARH
  <2>4. \A a \in {SBREG_BAR, SBREG_BARH} : GoodCaller(a) /\ Resolved(a, mcfg).cachedEntry # Null
    BY <2>1, <2>3 DEF Reachable
  <2> QED
    BY <2>1, <2>2, <2>4, AccessesReach
<1>7. CASE GetResetCause
  <2>1. step = "resetCause" /\ selected' = {ByPort(PWRMBASE)}
    BY <1>7 DEF GetResetCause, Call
  <2>2. ReachesTheRegister'
    <3>1. 31 \in 0 .. 31 /\ 2 \in 0 .. 7 /\ 16 \in 0 .. 255
      BY SMT
    <3>2. GoodAddress(PWRMBASE)
      BY <3>1, FixedAddresses, Zenon DEF PWRMBASE
    <3>3. ByPort(PWRMBASE)[1] = ByPort(PWRMBASE)[2]
      BY <3>2, PortDecodes DEF ByPort
    <3> QED
      BY <2>1, <3>3 DEF ReachesTheRegister
  <2>3. CASE touched' = {}
    BY <2>2, <2>3 DEF Reached, AccessesAreMapped
  <2>4. CASE touched' # {}
    <3>1. /\ ~(machine.pmcHidden /\ PwrmBase = 0) /\ pwrm' = BaseAddr(PwrmBase)
          /\ windows' = windows \cup {<< pwrm', PmcSize >>}
          /\ touched' = {pwrm' + c : c \in CauseOffsets}
      BY <1>7, <2>4 DEF GetResetCause
    <3>2. pwrm' \in Nat
      <4>1. machine \in Machines
        BY DEF Found
      <4> QED
        BY <2>1, <3>1, <4>1, BaseIsTheDevices, BaseFits
    <3>3. << pwrm', PmcSize >> \in windows'
      BY <3>1
    <3>4. ASSUME NEW t \in touched'
          PROVE  pwrm' <= t /\ t + 8 <= pwrm' + PmcSize /\ t >= 0
      <4>1. PICK c \in CauseOffsets : t = pwrm' + c
        BY <3>1, <3>4, Zenon
      <4> QED
        BY <3>2, <4>1, CausesFit, Zenon
    <3>5. AccessesAreMapped'
      BY <3>3, <3>4 DEF AccessesAreMapped
    <3> QED
      BY <2>2, <3>4, <3>5 DEF Reached
  <2> QED
    BY <2>3, <2>4
<1>8. CASE ChronoInit
  <2> DEFINE base == Listed("HPET").address
  <2>1. /\ step = "chrono" /\ windows' = windows /\ selected' = {}
        /\ touched' = {FindTable(root, "HPET").address + o : o \in {0, 16}}
    BY <1>8 DEF ChronoInit, Call, kernelVars
  <2>2. machine \in Machines /\ root = machine.root /\ Listed("HPET") # Null
    BY <2>1 DEF Found, BeforeMcfg
  <2>3. FindTable(root, "HPET") = Listed("HPET")
    BY <2>2, FindsTheFirst DEF Listed
  <2>4. base \in Nat
    <3>1. Listed("HPET") \in Range(machine.root.tables) /\ Listed("HPET").signature = "HPET"
      BY <2>2, FirstIsListed DEF Listed
    <3> QED
      BY <2>2, <3>1, TablesAssumption
  <2>5. << base, PageSize >> \in windows'
    BY <2>1 DEF Mapped
  <2>6. touched' = {base + o : o \in {0, 16}}
    BY <2>1, <2>3
  <2> HIDE DEF base
  <2>7. ASSUME NEW t \in touched'
        PROVE  base <= t /\ t + 8 <= base + PageSize /\ t >= 0
    BY <2>4, <2>6, SMT DEF PageSize
  <2>8. AccessesAreMapped'
    BY <2>5, <2>7 DEF AccessesAreMapped
  <2> QED
    BY <2>1, <2>7, <2>8 DEF Reached, ReachesTheRegister
<1>9. CASE UseByPort
  <2>1. step = "run" /\ windows' = windows /\ Accesses({addr}, {})
    BY <1>9 DEF UseByPort, Use, kernelVars
  <2>2. \A a \in {addr} : GoodAddress(a)
    BY CallersAreGood DEF Caller
  <2> QED
    BY <2>1, <2>2, AccessesReach DEF BeforeMcfg
<1>10. CASE UseByMemory
  <2>1. /\ step = "run" /\ windows' = windows /\ Accesses({}, {addr})
        /\ Resolved(addr, mcfg).cachedEntry # Null
    BY <1>10 DEF UseByMemory, Use, kernelVars, Proceeds
  <2>2. \A a \in {addr} : GoodCaller(a) /\ Resolved(a, mcfg).cachedEntry # Null
    BY <2>1 DEF Caller
  <2> QED
    BY <2>1, <2>2, AccessesReach DEF BeforeMcfg
<1> QED
  BY <1>1, <1>2, <1>3, <1>4, <1>5, <1>6, <1>7, <1>8, <1>9, <1>10, StepsAre DEF Within, Later

-------------------------------------------------------------------------------
(***************************************************************************)
(* What the run checks, for every machine                                  *)
(***************************************************************************)

\* The invariant holds of every behaviour.
LEMMA Invariance == Spec => []IInv
<1>1. IInv /\ [Next]_vars => IInv'
  BY FoundKept, MappedKept, WriteTestsKept, HidingKept, CallerKept, ReachedKept DEF IInv
<1> QED
  BY InitHolds, <1>1, PTL DEF Spec

\* The kernel's variables have their types, and an address that is reused caches an
\* entry of the table it was read from.
THEOREM TypeCorrect == Spec => []TypeOK
<1>1. IInv => TypeOK
  BY DEF IInv, Found, Mapped, WriteTests, Hiding, Caller, GoodCaller, Addresses, Reached, TypeOK
<1> QED
  BY Invariance, <1>1, PTL

\* Whatever the machine, the kernel uses the first table of each kind, and stops for
\* the want of one only where there is none.
THEOREM TablesFound == Spec => []FindsTheTable
<1>1. IInv => FindsTheTable
  BY DEF IInv, Found, BeforeMcfg, BeforeFadt, FindsTheTable
<1> QED
  BY Invariance, <1>1, PTL

\* Whatever the machine and however a caller moves its address, device memory is
\* accessed where mapMMIO has mapped it, and the register reached is the one named.
THEOREM AccessesRight == Spec => []AccessesAreRight
<1>1. IInv => AccessesAreRight
  BY DEF IInv, Reached, AccessesAreRight
<1> QED
  BY Invariance, <1>1, PTL

\* What get_SBREG_BAR and getResetCause take for the bases of hidden devices are
\* their bases, and the P2SB is hidden again with no lock set.
THEOREM BasesRight == Spec => []BasesAreTheDevices
<1>1. IInv => BasesAreTheDevices
  BY DEF IInv, Hiding, AfterHide, BasesAreTheDevices, SbregIsTheDevices, CausesAreThePMCs
<1> QED
  BY Invariance, <1>1, PTL

\* Whatever the layout of the register, and whatever status bits the hardware sets
\* meanwhile, the write of a test changes the bit under test alone.
THEOREM FlipsOneBit == Spec => FlipTouchesOneBit
<1> DEFINE Clean ==
      WriteFlipped =>
        reg' = IF field \in Writable
               THEN (IF field \in before THEN reg \ {field} ELSE reg \cup {field})
               ELSE reg
<1>1. IInv => TestTypeOK /\ Fresh
  BY DEF IInv, WriteTests, Fresh
<1>2. IInv /\ [Next]_vars => [Clean]_testVars
  BY <1>1, FlipIsClean
<1>3. Spec => [][Clean]_testVars
  BY Invariance, <1>2, PTL DEF Spec
<1> QED
  BY <1>3 DEF FlipTouchesOneBit

===============================================================================
