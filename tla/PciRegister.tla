----------------------------- MODULE PciRegister -----------------------------
(***************************************************************************)
(* A PCI configuration register seen through Register<...> of              *)
(* include/kernel/register/register.hpp, and the write test of             *)
(* include/kernel/acpi/pci/pci-test.hpp on it: read, flip one bit, write,  *)
(* read, write the first value back.  The register's bits are declared as  *)
(* plain fields, as C_Bit (write 1 to clear), or not at all; the hardware  *)
(* decides what a write does, and sets status bits at any time.  A value   *)
(* is the set of its one bits.                                             *)
(***************************************************************************)
EXTENDS Naturals, FiniteSets

CONSTANTS
    Bits,        \* the bits of the register
    Writable,    \* bits that hold what is written
    Status,      \* bits that the hardware sets and a written 1 clears
    CBits,       \* bits declared as C_Bit
    Fields,      \* bits declared as plain fields, const ones included
    Flippable    \* the fields a test flips; the hardware may have locked one

ASSUME RegisterAssumption ==
    /\ Writable \subseteq Bits /\ Status \subseteq Bits \ Writable
    /\ CBits \subseteq Bits /\ Fields \subseteq Bits \ CBits
    /\ Flippable \subseteq Fields \ Status
    \* Declared as the hardware has them: no status bit is plain, and no C_Bit
    \* holds what is written (every commit would clear it).
    /\ Status \subseteq CBits /\ CBits \cap Writable = {}

VARIABLES
    reg,      \* the hardware register
    testing,  \* where the test is
    field,    \* the bit under test
    before,   \* the value read first
    tmp,      \* what tmp() committed
    after,    \* the value read back
    passed    \* what the test returned last

testVars == <<reg, testing, field, before, tmp, after, passed>>

TestInit ==
    /\ reg \in SUBSET Bits
    /\ testing = "idle"
    /\ field \in Flippable
    /\ before = {} /\ tmp = {} /\ after = {}
    /\ passed = FALSE

\* Slip: a C_Bit encodes the value that was read.
CommittedAsRead(raw, fields) == (raw \ (Fields \cup CBits)) \cup (fields \cap (Fields \cup CBits))

\* Register::operator(): undeclared bits as they were read, plain fields as they
\* are set, and a one in a C_Bit only where clear() was called, which the test
\* never does.
Committed(raw, fields) == (raw \ (Fields \cup CBits)) \cup (fields \cap Fields)

\* tmp.set<F>(!tmp.get<F>())
Flipped(value, f) == IF f \in value THEN value \ {f} ELSE value \cup {f}

\* What the hardware makes of a written value.
Written(value) ==
    (value \cap Writable)
    \cup ((reg \cap Status) \ value)
    \cup (reg \ (Writable \cup Status))

HardwareSets(b) ==
    /\ reg' = reg \cup {b}
    /\ UNCHANGED <<testing, field, before, tmp, after, passed>>

ReadBefore(f) ==
    /\ testing = "idle"
    /\ testing' = "flip"
    /\ field' = f
    /\ before' = reg
    /\ UNCHANGED <<reg, tmp, after, passed>>

WriteFlipped ==
    /\ testing = "flip"
    /\ testing' = "check"
    /\ tmp' = Committed(before, Flipped(before, field))
    /\ reg' = Written(tmp')
    /\ UNCHANGED <<field, before, after, passed>>

ReadAfter ==
    /\ testing = "check"
    /\ testing' = "restore"
    /\ after' = reg
    /\ UNCHANGED <<reg, field, before, tmp, passed>>

\* "restore original value regardless of outcome": the raw value, ones of status
\* bits included, which clears them.
Restore ==
    /\ testing = "restore"
    /\ testing' = "done"
    /\ reg' = Written(before)
    /\ passed' = (tmp = after)
    /\ UNCHANGED <<field, before, tmp, after>>

TestReturns ==
    /\ testing = "done"
    /\ testing' = "idle"
    /\ before' = {} /\ tmp' = {} /\ after' = {}
    /\ UNCHANGED <<reg, field, passed>>

TestNext ==
    \/ \E b \in Status : HardwareSets(b)
    \/ \E f \in Flippable : ReadBefore(f)
    \/ WriteFlipped \/ ReadAfter \/ Restore \/ TestReturns

-------------------------------------------------------------------------------
(***************************************************************************)
(* Properties                                                              *)
(***************************************************************************)

TestTypeOK ==
    /\ reg \subseteq Bits
    /\ testing \in {"idle", "flip", "check", "restore", "done"}
    /\ field \in Flippable
    /\ before \subseteq Bits /\ after \subseteq Bits
    /\ tmp \subseteq Bits \ CBits    \* no C_Bit is committed with a one
    /\ passed \in BOOLEAN

\* The write of the test changes the bit under test, unless it is locked, and
\* nothing else: no status bit is cleared that was set before, or in between.
FlipTouchesOneBit ==
    [][WriteFlipped =>
         reg' = IF field \in Writable
                THEN (IF field \in before THEN reg \ {field} ELSE reg \cup {field})
                ELSE reg]_testVars

===============================================================================
