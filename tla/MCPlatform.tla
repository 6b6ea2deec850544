------------------------------- MODULE MCPlatform -------------------------------
(***************************************************************************)
(* Machines that differ where the code does: the revision and the list of  *)
(* tables, one or two ECAM windows, who hides what, and where the PM timer *)
(* is.  The register of the write tests is STATUS_COMMAND of the SPI       *)
(* function in small: a field to flip, another that the hardware has       *)
(* locked, two status bits declared as C_Bit, a read-only field and an     *)
(* undeclared bit.                                                         *)
(***************************************************************************)
EXTENDS Platform

CONSTANTS BME, MSE, DPE, RMA, CLIST, FBC, Reserved

MCTestFunction == [f \in Flippable |-> IF f = BME THEN 0 ELSE 2]

Base == 33554432       \* 32 MiB
Pmc == 268435456       \* 256 MiB
Bar == [rbah |-> 1, rba |-> 13, low |-> 4]    \* bits 32-63, 28-31 and 0-27

Entry(base, first, last) == [base |-> base, segment |-> 0, first |-> first, last |-> last]
MCFG(entries) ==
    [signature |-> "MCFG", length |-> 44 + 16 * Len(entries), entries |-> entries]
FACP(length, xTimer, xSpace) ==
    [signature |-> "FACP", length |-> length, xTimer |-> xTimer, xSpace |-> xSpace, timer |-> 1032]
HPET == [signature |-> "HPET", address |-> 251658240]
Other == [signature |-> "SSDT"]

One == << Entry(Base, 0, 1) >>
Two == << Entry(Base, 0, 1), Entry(Base + 8 * BusSize, 2, 3) >>
Away == << Entry(Base, 1, 2) >>
Segment == << [Entry(Base, 0, 1) EXCEPT !.segment = 1] >>

Root(revision, tables) ==
    [signature |-> IF revision >= 2 THEN "XSDT" ELSE "RSDT", revision |-> revision,
     length |-> 36 + (IF revision >= 2 THEN 8 ELSE 4) * Len(tables), tables |-> tables]

Machine(revision, tables, entries) ==
    [revision |-> revision, rsdtAddress |-> 1, root |-> Root(revision, tables),
     mcfg |-> entries, pmcHidden |-> TRUE, pwrmbase |-> Pmc, p2sb |-> {Hide, Reserved},
     sbreg |-> Bar, status |-> {}]

Timer == FACP(244, Pmc + 6396, 0)
Usual == << Timer, Other, MCFG(Two), HPET >>

New == Machine(2, Usual, Two)
Old == Machine(0, << MCFG(One), Other, FACP(116, 0, 0), HPET >>, One)

\* The tables are looked for, and one is missing, unusable or listed twice.
Stopping == {
    [New EXCEPT !.rsdtAddress = 0],
    [New EXCEPT !.root.signature = "RSDT"],
    Machine(0, << Timer, HPET >>, One),
    Machine(2, << MCFG(One), HPET >>, One),
    Machine(2, << MCFG(One), Timer >>, One),
    Machine(2, << MCFG(Away), Timer, HPET >>, Away),
    Machine(2, << MCFG(Segment), Timer, HPET >>, Segment)}

Timers == {FACP(244, t[1], t[2]) : t \in
    {<< Pmc + 6396, 1 >>, << 6395, 0 >>, << 0, 0 >>, << Pmc + 6396, 0 >>}}

MCMachines ==
    Stopping
    \cup {New, Old}
    \cup {[New EXCEPT !.pmcHidden = FALSE, !.p2sb = {"SBILOCK"}, !.status = {BME, DPE, FBC}],
          [Old EXCEPT !.pmcHidden = FALSE, !.status = {MSE, CLIST}]}
    \cup {Machine(2, << t, MCFG(One), HPET, Timer >>, One) : t \in Timers}

===============================================================================
