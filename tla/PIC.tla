---------------------------------- MODULE PIC ----------------------------------
(***************************************************************************)
(* The pair of 8259 interrupt controllers as src/kernel/interrupt/pic.cpp  *)
(* and idt.cpp use it: operators over a record p with the requests that    *)
(* wait (irr), those in service (isr), the lines masked (imr) and the      *)
(* vector of line 0 (base).  Lines are edge triggered.  Lines 8 to 15 are  *)
(* the second controller's and reach the processor through line 2.         *)
(***************************************************************************)
EXTENDS Integers

Lines == 0 .. 15
Cascade == 2
Slave == 8 .. 15
SpuriousLine == 7

\* Priority: line 2 stands for the second controller's lines.
Rank(l) == IF l \in Slave THEN 20 + l ELSE IF l > Cascade THEN 40 + l ELSE l

\* A request waits for the processor unless it is masked, its controller's
\* cascade is, or something of the same or higher priority is in service.
Waiting(p) ==
    {l \in p.irr \ p.imr : /\ l \in Slave => Cascade \notin p.imr
                           /\ \A s \in p.isr : Rank(l) < Rank(s)}

Foremost(p) == CHOOSE l \in Waiting(p) : \A k \in Waiting(p) : Rank(l) <= Rank(k)

\* Edges on lines are kept whether the lines are masked or not.
Raise(p, lines) == [p EXCEPT !.irr = @ \cup lines]

\* The processor acknowledges: the foremost request goes into service, or has
\* been withdrawn and line 7 is reported with nothing in service.
Acknowledge(p) ==
    LET l == Foremost(p)
    IN  [p EXCEPT !.irr = @ \ {l}, !.isr = @ \cup {l} \cup (IF l \in Slave THEN {Cascade} ELSE {})]

Withdraw(p) == [p EXCEPT !.irr = @ \ {Foremost(p)}]

\* A non-specific end of interrupt to one controller.
EndForemost(isr) == {l \in isr : \E k \in isr : Rank(k) < Rank(l)}

\* ICW1 to ICW4 forget edges, service and masks.
Initialised(base) == [irr |-> {}, imr |-> {}, isr |-> {}, base |-> base]

\* Slip: every line asked for is shifted to the first bit.
PICMaskUnshifted(wanted) == Lines \ ({l \div 16 : l \in wanted} \cup {Cascade})

\* Interrupts::getPICMask for both controllers: the lines asked for and the cascade.
PICMask(wanted) == Lines \ (wanted \cup {Cascade})

\* Slip: the masks are not written.
PicRemapUnmasked(wanted) == Initialised(32)

\* pic_remap: both controllers anew, lines 0-15 to vectors 0x20-0x2F, masks.
PicRemap(wanted) == [Initialised(32) EXCEPT !.imr = PICMask(wanted)]

\* Slip: the first controller is left out for a line of its own.
PicEoiForSlave(p, irq) ==
    IF irq \in Slave THEN [p EXCEPT !.isr = EndForemost(@ \cap Slave) \cup EndForemost(@ \ Slave)]
    ELSE p

\* pic_eoi: the first controller always, the second for its own lines.
PicEoi(p, irq) ==
    LET second == p.isr \cap Slave
    IN  [p EXCEPT !.isr = EndForemost(@ \ Slave)
                          \cup (IF irq \in Slave THEN EndForemost(second) ELSE second)]

===============================================================================
