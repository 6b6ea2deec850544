-------------------------------- MODULE Platform --------------------------------
(***************************************************************************)
(* The second half of Kernel::Init (src/kernel/kernel.cpp): the firmware's *)
(* tables, PCI configuration space through ports and through memory, the   *)
(* write tests (PciRegister), the P2SB that hides its registers, the cause *)
(* of the last reset, HPET and chrono; and after it any caller of          *)
(* PCIConfigAddress.  Each call is a step, but for the write tests, whose  *)
(* register the hardware changes on its own.  A failed assertion, a null   *)
(* pointer that is followed and a panic all stop the kernel.               *)
(***************************************************************************)
EXTENDS Acpi, PciRegister

CONSTANTS
    Machines,    \* the firmware's tables and the hardware behind them
    P2sbBits,    \* bits of P2SBC that its declaration does not name
    TestFunction, \* the PCI function of the register a field is tested in
    Buses, Offsets \* what callers set an address to

VARIABLES
    machine,     \* the machine the kernel runs on
    asserts,     \* whether the build has assertions (no NDEBUG)
    step,        \* the next call of Kernel::Init
    stopped,
    root,        \* sdtHeader: the root table, or Null
    mcfg,        \* mcfg_entries
    fadt,        \* fadt
    windows,     \* what mapMMIO has mapped: base and size
    touched,     \* addresses in memory the last step accessed as MMIO
    selected,    \* registers the last step meant, and what the bridge selected
    p2sb,        \* hardware: the P2SBC register
    sbreg,       \* what get_SBREG_BAR returned
    pwrm,        \* the base getResetCause used, or Null
    addr,        \* a caller's PCIConfigAddress
    untested     \* write tests that pciWriteTestRoutine has still to run

kernelVars == <<root, mcfg, fadt, windows>>
accessVars == <<touched, selected>>
deviceVars == <<p2sb, sbreg, pwrm>>
vars == <<machine, asserts, step, stopped, kernelVars, accessVars, deviceVars, addr,
          untested, testVars>>

Hide == "HIDE"
Locks == {"SBILOCK", "MASKLOCK"}
P2sbFields == Locks \cup {Hide}

-------------------------------------------------------------------------------
NoAccess == touched' = {} /\ selected' = {}

\* A configuration access by port and one by memory.
ByPort(a) == << Register(a), SelectedByPort(LegacyAddress(a)) >>

ByWindow(a) ==
    LET r == Resolved(a, mcfg)
    IN  << Register(a), SelectedByWindow(MmioAddress(r), McfgGetEntry(machine.mcfg, a.bus)) >>

Touches(as) == {MmioAddress(Resolved(a, mcfg)) : a \in as}

Accesses(ports, memory) ==
    /\ touched' = Touches(memory)
    /\ selected' = {ByPort(a) : a \in ports} \cup {ByWindow(a) : a \in memory}

Reachable(bus) == McfgGetEntry(mcfg, bus) # Null

ESPI_DID_VID == Address(0, 31, 0, 0)
P2SBC == Address(0, 31, 1, 224)
P2SB_ID == Address(0, 31, 1, 0)
SBREG_BAR == Address(0, 31, 1, 16)
SBREG_BARH == Address(0, 31, 1, 20)
PWRMBASE == Address(0, 31, 2, 16)

\* The first table of its kind in a machine's list, whatever lengths say.
FirstListed(m, signature) ==
    LET hits == {i \in DOMAIN m.root.tables : m.root.tables[i].signature = signature}
    IN  IF hits = {} THEN Null ELSE m.root.tables[Min(hits)]

\* PCIConfigAddress keeps bus and offset in eight bits.
ASSUME AddressAssumption ==
    /\ Word \in Nat \ {0}
    /\ TestFunction \in [Flippable -> 0 .. 7]
    /\ Buses \subseteq 0 .. 255 /\ Offsets \subseteq 0 .. 255

\* The firmware's tables have their types, and lengths that fit what they hold.
ASSUME TablesAssumption ==
    \A m \in Machines :
        /\ m.root # Null /\ m.root.revision \in Nat
        /\ m.root.tables \in Seq(Range(m.root.tables))
        /\ m.root.length = 36 + (IF m.root.revision >= 2 THEN 8 ELSE 4) * Len(m.root.tables)
        /\ \A t \in Range(m.root.tables) :
             /\ t.signature = "MCFG" =>
                  /\ t.entries \in Seq([base : Nat, segment : Nat, first : 0 .. 255, last : 0 .. 255])
                  /\ t.length = 44 + 16 * Len(t.entries)
                  /\ \A e \in Range(t.entries) : e # Null /\ e.first <= e.last
             /\ t.signature = "FACP" =>
                  t.length \in Nat /\ t.timer \in Nat /\ t.xTimer \in Nat /\ t.xSpace \in Nat
             /\ t.signature = "HPET" => t.address \in Nat

\* The hardware is where the tables say: the ECAM windows, and a PM timer in
\* memory, which is a register of the power management controller.
ASSUME HardwareAssumption ==
    \A m \in Machines :
        /\ FirstListed(m, "MCFG") # Null => m.mcfg = FirstListed(m, "MCFG").entries
        /\ m.p2sb \subseteq P2sbBits \cup P2sbFields
        /\ m.pwrmbase \in 0 .. (Word - 1) /\ m.pwrmbase % BaseUnit = 0
        /\ LET table == FirstListed(m, "FACP")
               timer == PmTimer(table)
           IN  m.pmcHidden /\ table # Null /\ timer[2] = 0 /\ timer[1] >= PmTimerOffset =>
                   timer[1] = m.pwrmbase + PmTimerOffset

-------------------------------------------------------------------------------
\* The call at the head of Kernel::Init, or of a caller, meets no failed assertion,
\* no null pointer and no panic.
Proceeds ==
    CASE step = "sdt" -> asserts => machine.rsdtAddress # 0
      [] step = "mcfg" ->
           /\ root # Null
           /\ FindTable(root, "MCFG") # Null
           /\ asserts => \A e \in Range(McfgEntries(FindTable(root, "MCFG"))) : e.segment = 0
      [] step = "pciRead" -> asserts => Reachable(0)
      [] step = "fadt" -> asserts => FindTable(root, "FACP") # Null
      [] step = "sbreg" -> Reachable(0) /\ (asserts => Hide \notin p2sb)
      [] step = "hpet" -> FindTable(root, "HPET") # Null
      [] step = "run" -> Resolved(addr, mcfg).cachedEntry # Null
      [] OTHER -> TRUE

\* The call returns, and `then' is next.
Call(here, then) ==
    /\ step = here /\ ~stopped /\ Proceeds
    /\ step' = then
    /\ UNCHANGED <<machine, asserts, stopped>>

\* rsdp_load and sdtHeader_load: a root table whose signature does not fit the
\* revision is dropped.
SdtFits == machine.root.signature = IF machine.revision >= 2 THEN "XSDT" ELSE "RSDT"

LoadSdt ==
    /\ Call("sdt", "mcfg")
    /\ root' = IF SdtFits THEN machine.root ELSE Null
    /\ NoAccess
    /\ UNCHANGED <<mcfg, fadt, windows, deviceVars, addr, untested, testVars>>

McfgLoad ==
    /\ Call("mcfg", "pciRead")
    /\ mcfg' = McfgEntries(FindTable(root, "MCFG"))
    /\ windows' = {<< e.base, McfgSize(e) >> : e \in Range(mcfg')}
    /\ NoAccess
    /\ UNCHANGED <<root, fadt, deviceVars, addr, untested, testVars>>

\* testPCIRead: the same register by port and by memory.  The tests are empty in a
\* build without assertions.
TestPciRead ==
    /\ Call("pciRead", "fadt")
    /\ IF asserts THEN Accesses({ESPI_DID_VID}, {ESPI_DID_VID}) ELSE NoAccess
    /\ UNCHANGED <<kernelVars, deviceVars, addr, untested, testVars>>

LoadFadt ==
    /\ Call("fadt", "testPorts")
    /\ fadt' = FindTable(root, "FACP")
    /\ untested' = IF asserts THEN Flippable ELSE {}
    /\ NoAccess
    /\ UNCHANGED <<root, mcfg, windows, deviceVars, addr, testVars>>

\* pciWriteTestRoutine: every case once by port, then every case by memory.
TestAccess ==
    LET a == Address(0, 31, TestFunction[field'], 4)
    IN  IF step = "testPorts" THEN Accesses({a}, {}) ELSE Accesses({}, {a})

WriteTest ==
    /\ step \in {"testPorts", "testMemory"} /\ ~stopped
    /\ \/ \E f \in untested : ReadBefore(f) /\ untested' = untested \ {f}
       \/ (WriteFlipped \/ ReadAfter \/ Restore) /\ UNCHANGED untested
    /\ TestAccess
    /\ UNCHANGED <<machine, asserts, step, stopped, kernelVars, deviceVars, addr>>

WriteTestReturns ==
    /\ TestReturns /\ NoAccess
    /\ UNCHANGED <<machine, asserts, step, stopped, kernelVars, deviceVars, addr, untested>>

StatusIsSet(b) ==
    /\ testing # "idle"
    /\ HardwareSets(b)
    /\ UNCHANGED <<machine, asserts, step, stopped, kernelVars, accessVars, deviceVars, addr,
                   untested>>

WriteTestsDone(here, then) ==
    /\ Call(here, then)
    /\ untested = {} /\ testing = "idle"
    /\ untested' = IF asserts /\ here = "testPorts" THEN Flippable ELSE {}
    /\ NoAccess
    /\ UNCHANGED <<kernelVars, deviceVars, addr, testVars>>

-------------------------------------------------------------------------------
\* A hidden device answers every read with ones, and takes every write; a lock
\* that is set may stay.
AllOnes == P2sbBits \cup P2sbFields
P2sbcRead == IF Hide \in p2sb THEN AllOnes ELSE p2sb

\* What unhide_p2sb and hide_p2sb write: with assertions the register as it was
\* read, without them the fields alone; both clear the two locks.
P2sbcWritten(hide) ==
    (IF asserts THEN P2sbcRead \ P2sbFields ELSE {}) \cup (IF hide THEN {Hide} ELSE {})

\* unhide_p2sb and hide_p2sb read and write by memory with assertions, and verify
\* with P2SB_ID; without them they write by port.
SetHide(here, then, hide) ==
    /\ Call(here, then)
    /\ p2sb' \in {P2sbcWritten(hide), P2sbcWritten(hide) \cup (p2sb \cap Locks)}
    /\ IF asserts THEN Accesses({}, {P2SBC, P2SB_ID}) ELSE Accesses({P2SBC}, {})
    /\ UNCHANGED <<kernelVars, sbreg, pwrm, addr, untested, testVars>>

\* The body of get_SBREG_BAR, between the two ends of ScopedP2SBCUnhide.
ReadSbreg ==
    /\ Call("sbreg", "hide")
    /\ sbreg' = IF Hide \in p2sb THEN AllOnes ELSE << machine.sbreg.rbah, machine.sbreg.rba >>
    /\ Accesses({}, {SBREG_BAR, SBREG_BARH})
    /\ UNCHANGED <<kernelVars, p2sb, pwrm, addr, untested, testVars>>

\* The register reads as ones where the firmware has hidden it.
PwrmBase ==
    IF machine.pmcHidden THEN PwrmBaseFromFadt(fadt)
    ELSE machine.pwrmbase - (machine.pwrmbase % BaseUnit)

\* getResetCause
GetResetCause ==
    /\ Call("resetCause", "hpet")
    /\ IF machine.pmcHidden /\ PwrmBase = 0
       THEN touched' = {} /\ UNCHANGED <<windows, pwrm>>
       ELSE /\ pwrm' = BaseAddr(PwrmBase)
            /\ windows' = windows \cup {<< pwrm', PmcSize >>}
            /\ touched' = {pwrm' + c : c \in CauseOffsets}
    /\ selected' = {ByPort(PWRMBASE)}
    /\ UNCHANGED <<root, mcfg, fadt, p2sb, sbreg, addr, untested, testVars>>

\* hpet_load, and the page that Kernel::Init maps for it.
HpetLoad ==
    /\ Call("hpet", "chrono")
    /\ windows' = windows \cup {<< FindTable(root, "HPET").address, PageSize >>}
    /\ NoAccess
    /\ UNCHANGED <<root, mcfg, fadt, deviceVars, addr, untested, testVars>>

\* chrono::init: the period, and the bit that starts the counter.
ChronoInit ==
    /\ Call("chrono", "run")
    /\ touched' = {FindTable(root, "HPET").address + o : o \in {0, 16}}
    /\ selected' = {}
    /\ UNCHANGED <<kernelVars, deviceVars, addr, untested, testVars>>

-------------------------------------------------------------------------------
\* A caller moves its address, and reads the register it names.
Use ==
    /\ step = "run" /\ ~stopped
    /\ UNCHANGED <<machine, asserts, step, stopped, kernelVars, deviceVars, untested, testVars>>

SetAddress ==
    /\ Use /\ NoAccess
    /\ \/ \E b \in Buses : addr' = SetBus(addr, b)
       \/ \E d \in {0, 31} : addr' = [addr EXCEPT !.device = d]
       \/ \E f \in {0, 7} : addr' = [addr EXCEPT !.function = f]
       \/ \E o \in Offsets : addr' = [addr EXCEPT !.offset = o]

UseByPort ==
    /\ Use /\ Accesses({addr}, {})
    /\ UNCHANGED addr

UseByMemory ==
    /\ Use
    /\ Proceeds
    /\ Accesses({}, {addr})
    /\ addr' = Resolved(addr, mcfg)

-------------------------------------------------------------------------------
\* A failed assertion, a null pointer or a panic.
Stop ==
    /\ ~Proceeds /\ ~stopped
    /\ stopped' = TRUE
    /\ NoAccess
    /\ UNCHANGED <<machine, asserts, step, kernelVars, deviceVars, addr, untested, testVars>>

\* panic: cli and hlt, for ever.
Halted == stopped /\ UNCHANGED vars

Init ==
    /\ machine \in Machines
    /\ asserts \in BOOLEAN
    /\ step = "sdt" /\ stopped = FALSE
    /\ root = Null /\ mcfg = << >> /\ fadt = Null /\ windows = {}
    /\ touched = {} /\ selected = {}
    /\ p2sb = machine.p2sb
    /\ sbreg = Null /\ pwrm = Null
    /\ addr = Address(0, 0, 0, 0)
    /\ untested = {}
    /\ TestInit /\ reg = machine.status

Next ==
    \/ LoadSdt \/ McfgLoad \/ TestPciRead \/ LoadFadt
    \/ WriteTest \/ WriteTestReturns
    \/ \E b \in Status : StatusIsSet(b)
    \/ WriteTestsDone("testPorts", "testMemory") \/ WriteTestsDone("testMemory", "unhide")
    \/ SetHide("unhide", "sbreg", FALSE) \/ ReadSbreg \/ SetHide("hide", "resetCause", TRUE)
    \/ GetResetCause \/ HpetLoad \/ ChronoInit
    \/ SetAddress \/ UseByPort \/ UseByMemory
    \/ Stop \/ Halted

Spec == Init /\ [][Next]_vars

-------------------------------------------------------------------------------
(***************************************************************************)
(* Properties                                                              *)
(***************************************************************************)

\* The variables have their types, and an address caches an entry of the table.
TypeOK ==
    /\ TestTypeOK
    /\ machine \in Machines /\ asserts \in BOOLEAN /\ stopped \in BOOLEAN
    /\ \A t \in touched : t >= 0
    /\ \A w \in windows : w[1] >= 0 /\ w[2] > 0
    /\ p2sb \subseteq AllOnes
    /\ untested \subseteq Flippable
    /\ addr.cachedEntry \in {Null} \cup Range(mcfg)

\* Whatever the kernel reaches in device memory lies in a range that mapMMIO has
\* mapped before: mcfg_load maps every bus an entry owns, getResetCause every
\* register it reads, and Kernel::Init the page of the HPET.
AccessesAreMapped ==
    \A t \in touched : \E w \in windows : w[1] <= t /\ t + 8 <= w[1] + w[2]

\* Both ways into configuration space reach the register that the address names,
\* however a caller has moved it since: an entry that operator() has cached is
\* never used for a bus it does not own, and the two encodings of bus, device and
\* function agree with the host bridge's.
ReachesTheRegister == \A pair \in selected : pair[1] = pair[2]

\* Device memory and configuration space are only accessed where they are.
AccessesAreRight == AccessesAreMapped /\ ReachesTheRegister

\* The tables the kernel uses are the first ones of their kind that the firmware
\* lists, under an RSDT as under an XSDT, and it stops for the want of a table
\* only where there is none.
Listed(signature) == FirstListed(machine, signature)

FindsTheTable ==
    /\ step \notin {"sdt", "mcfg"} => root = machine.root /\ mcfg = Listed("MCFG").entries
    /\ step \notin {"sdt", "mcfg", "pciRead", "fadt"} => fadt = Listed("FACP")
    /\ stopped /\ step = "fadt" => Listed("FACP") = Null
    /\ stopped /\ step = "hpet" => Listed("HPET") = Null

\* get_SBREG_BAR returns what the device has in its BAR, although the firmware hid
\* the device, and leaves the device hidden and locks nothing.
SbregIsTheDevices ==
    /\ sbreg # Null => sbreg = << machine.sbreg.rbah, machine.sbreg.rba >>
    /\ step \in {"resetCause", "hpet", "chrono", "run"} =>
         Hide \in p2sb /\ p2sb \cap Locks \subseteq machine.p2sb

\* The registers that getResetCause reads are the power management controller's:
\* the base it derives from the PM timer, where the BAR is hidden, is the one that
\* the BAR would have shown.
CausesAreThePMCs == pwrm # Null => pwrm = machine.pwrmbase

\* Neither hiding of the firmware's misleads the kernel.
BasesAreTheDevices == SbregIsTheDevices /\ CausesAreThePMCs

===============================================================================
