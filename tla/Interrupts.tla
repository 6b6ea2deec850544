------------------------------- MODULE Interrupts -------------------------------
(***************************************************************************)
(* From idt_init to the main loop with interrupts coming in:               *)
(* src/kernel/interrupt/idt.cpp and pic.cpp, keyboard/ps2.cpp, the         *)
(* registration of the tick callback (include/kernel/time/time.hpp,        *)
(* kernel.cpp) and the stubs of isr_stubs.nasm.  The main program runs one *)
(* port access or store at a time; the processor takes an interrupt at any *)
(* boundary where its flag allows it.  Timer, keyboard, mouse, the 8042    *)
(* and the 8259s are the environment.  What the bytes mean is in Keyboard, *)
(* so a byte is a number here, or the answer of a device.                  *)
(***************************************************************************)
EXTENDS PIC, SequencesExt

CONSTANTS
    MaxBytes,      \* bound on the bytes the user types
    MaxMouse       \* bound on the bytes the mouse sends

ASSUME InterruptsAssumption ==
    MaxBytes \in Nat /\ MaxMouse \in Nat

VARIABLES
    pc,          \* where idt_init and Kernel::Init are
    ran,         \* the main program has run since the last tick
    flag,        \* the processor's interrupt flag
    handler,     \* the line whose interrupt is being handled, or None
    pic,         \* the 8259s
    pitOn,       \* the timer has been programmed
    command,     \* the 8042's command byte
    reply,       \* the 8042 owes the answer to command 0x20
    obf,         \* the 8042's output buffer: empty or one byte
    kbd,         \* bytes in the keyboard
    typed,       \* bytes typed so far
    moved,       \* mouse bytes so far
    config,      \* config of ps2_init
    drained,     \* what ps2_init took for the acknowledgement
    gates,       \* vectors with an entry in idt
    idtLoaded,   \* idt is the processor's table
    callBackNum, \* callBackNum
    callbacks,   \* callbacks: which entries point to a function
    called,      \* entries that timerTick called last
    heard        \* bytes that HandleKeyBoardIRQ has read

cpuVars == <<pc, ran, flag, handler>>
portVars == <<command, reply, obf, kbd, typed, moved>>
tableVars == <<gates, idtLoaded, callBackNum, callbacks>>
logVars == <<config, drained, called, heard>>
vars == <<cpuVars, pic, pitOn, portVars, tableVars, logVars>>

None == -1
Timer == 0
Keyboard == 1
Mouse == 12

Byte(n) == [kind |-> "key", value |-> n]
Ack == [kind |-> "ack", value |-> 0]
MouseByte == [kind |-> "mouse", value |-> 0]
Keys == {Byte(n) : n \in 1 .. MaxBytes}

CommandBytes == [irq1 : BOOLEAN, irq12 : BOOLEAN, clockOff : BOOLEAN, mouseOff : BOOLEAN,
                 translate : BOOLEAN]

\* The lines the 8042 drives, given what it holds.
Line(o, c) ==
    IF o = << >> THEN {}
    ELSE IF Head(o).kind = "mouse" THEN (IF c.irq12 THEN {Mouse} ELSE {})
    ELSE IF c.irq1 THEN {Keyboard} ELSE {}

\* The 8042 goes to buffer o and command byte c; a line that rises is an edge.
Controller(o, c) ==
    /\ obf' = o
    /\ command' = c
    /\ pic' = Raise(pic, Line(o, c) \ Line(obf, command))

-------------------------------------------------------------------------------
(***************************************************************************)
(* The environment                                                         *)
(***************************************************************************)

\* The timer's edge.  A period is longer than a handler: the main program has
\* run since the last one.
PitTick ==
    /\ pitOn /\ ran
    /\ pic' = Raise(pic, {Timer})
    /\ ran' = FALSE
    /\ UNCHANGED <<pc, flag, handler, pitOn, portVars, tableVars, logVars>>

Type ==
    /\ typed < MaxBytes
    /\ typed' = typed + 1
    /\ kbd' = Append(kbd, Byte(typed'))
    /\ UNCHANGED <<cpuVars, pic, pitOn, command, reply, obf, moved, tableVars, logVars>>

\* The keyboard sends when its clock is not held and the buffer is free.
KeyboardSends ==
    /\ kbd # << >> /\ obf = << >> /\ ~command.clockOff
    /\ Controller(<< Head(kbd) >>, command)
    /\ kbd' = Tail(kbd)
    /\ UNCHANGED <<cpuVars, pitOn, reply, typed, moved, tableVars, logVars>>

MouseSends ==
    /\ moved < MaxMouse /\ obf = << >> /\ ~command.mouseOff
    /\ moved' = moved + 1
    /\ Controller(<< MouseByte >>, command)
    /\ UNCHANGED <<cpuVars, pitOn, reply, kbd, typed, tableVars, logVars>>

\* The 8042 answers command 0x20 with its command byte.
ControllerReplies ==
    /\ reply /\ obf = << >>
    /\ Controller(<< [kind |-> "config", value |-> command] >>, command)
    /\ reply' = FALSE
    /\ UNCHANGED <<cpuVars, pitOn, kbd, typed, moved, tableVars, logVars>>

-------------------------------------------------------------------------------
(***************************************************************************)
(* The main program: steps the processor makes when it has no interrupt to *)
(* take                                                                    *)
(***************************************************************************)

Main(here, there) ==
    /\ pc = here /\ handler = None
    /\ flag => Waiting(pic) = {}
    /\ pc' = there
    /\ ran' = TRUE
    /\ handler' = handler

InitPic ==
    /\ Main("remap", "pit")
    /\ pic' = PicRemap({Timer, Keyboard})
    /\ UNCHANGED <<flag, pitOn, portVars, tableVars, logVars>>

PitInit ==
    /\ Main("pit", "keyboard")
    /\ pitOn' = TRUE
    /\ UNCHANGED <<flag, pic, portVars, tableVars, logVars>>

\* ps2_init: command 0xAD.
Ps2DisableKeyboard ==
    /\ Main("keyboard", "mouse")
    /\ Controller(obf, [command EXCEPT !.clockOff = TRUE])
    /\ UNCHANGED <<flag, pitOn, reply, kbd, typed, moved, tableVars, logVars>>

\* Slip: the keyboard is disabled twice.
Ps2DisableKeyboardAgain ==
    /\ Main("mouse", "flush")
    /\ Controller(obf, [command EXCEPT !.clockOff = TRUE])
    /\ UNCHANGED <<flag, pitOn, reply, kbd, typed, moved, tableVars, logVars>>

\* Command 0xA7.
Ps2DisableMouse ==
    /\ Main("mouse", "flush")
    /\ Controller(obf, [command EXCEPT !.mouseOff = TRUE])
    /\ UNCHANGED <<flag, pitOn, reply, kbd, typed, moved, tableVars, logVars>>

\* Slip: nothing is flushed.
Ps2FlushNothing ==
    /\ Main("flush", "ask")
    /\ UNCHANGED <<flag, pic, pitOn, portVars, tableVars, logVars>>

\* while (inb(0x64) & 1) inb(0x60);
Ps2Flush ==
    /\ \/ Main("flush", "flush") /\ obf # << >>
       \/ Main("flush", "ask") /\ obf = << >>
    /\ Controller(<< >>, command)
    /\ UNCHANGED <<flag, pitOn, reply, kbd, typed, moved, tableVars, logVars>>

Ps2Ask ==
    /\ Main("ask", "config")
    /\ reply' = TRUE
    /\ UNCHANGED <<flag, pic, pitOn, command, obf, kbd, typed, moved, tableVars, logVars>>

\* What a byte read from port 0x60 says when it is taken for a command byte.
AsCommand(b) == IF b.kind = "config" THEN {b.value} ELSE CommandBytes

\* The wait for the answer, and config with its three bits changed.
Ps2Read ==
    /\ Main("config", "write") /\ obf # << >>
    /\ \E c \in AsCommand(Head(obf)) :
           config' = [c EXCEPT !.irq1 = TRUE, !.clockOff = FALSE, !.irq12 = FALSE]
    /\ Controller(<< >>, command)
    /\ UNCHANGED <<flag, pitOn, reply, kbd, typed, moved, tableVars, drained, called, heard>>

\* Command 0x60 with config.
Ps2Write ==
    /\ Main("write", "enable")
    /\ Controller(obf, config)
    /\ UNCHANGED <<flag, pitOn, reply, kbd, typed, moved, tableVars, logVars>>

\* Command 0xAE, then 0xF4 to the keyboard, which may forget what it holds.
Ps2Enable ==
    /\ Main("enable", "scan")
    /\ Controller(obf, [command EXCEPT !.clockOff = FALSE])
    /\ UNCHANGED <<flag, pitOn, reply, kbd, typed, moved, tableVars, logVars>>

Ps2Scan ==
    /\ Main("scan", "ack")
    /\ kbd' \in {Append(kbd, Ack), << Ack >>}
    /\ UNCHANGED <<flag, pic, pitOn, command, reply, obf, typed, moved, tableVars, logVars>>

\* The bounded wait for the acknowledgement: one byte, or none came in time.
Ps2Drain ==
    /\ Main("ack", "gates")
    /\ drained' = obf
    /\ Controller(<< >>, command)
    /\ UNCHANGED <<flag, pitOn, reply, kbd, typed, moved, tableVars, config, called, heard>>

ExceptionVectors == 0 .. 19 \ {15}
IrqVectors == 32 .. 47
SyscallVector == 128

IdtSet ==
    /\ Main("gates", "load")
    /\ gates' = ExceptionVectors \cup IrqVectors \cup {SyscallVector}
    /\ UNCHANGED <<flag, pic, pitOn, portVars, idtLoaded, callBackNum, callbacks, logVars>>

IdtLoad ==
    /\ Main("load", "sti")
    /\ idtLoaded' = TRUE
    /\ UNCHANGED <<flag, pic, pitOn, portVars, gates, callBackNum, callbacks, logVars>>

Sti ==
    /\ Main("sti", "first")
    /\ flag' = TRUE
    /\ UNCHANGED <<pic, pitOn, portVars, tableVars, logVars>>

\* setTickCallbacks(kernel::KeyBoardTick), store by store: nothing orders the two
\* stores of callbacks[callBackNum++] = first, and the build may have either first.
SetTickCallbacks(step, next) ==
    /\ Main(step, next)
    /\ \/ callBackNum = 0 /\ callBackNum' = 1 /\ callbacks' = callbacks
       \/ callbacks = {} /\ callbacks' = {0} /\ callBackNum' = callBackNum
    /\ UNCHANGED <<flag, pic, pitOn, portVars, gates, idtLoaded, logVars>>

\* The rest of Kernel::Init and Run.
Run ==
    /\ Main("run", "run")
    /\ UNCHANGED <<flag, pic, pitOn, portVars, tableVars, logVars>>

-------------------------------------------------------------------------------
(***************************************************************************)
(* Interrupts                                                              *)
(***************************************************************************)

\* The processor takes the foremost request through an interrupt gate.  A
\* request whose line has fallen is the same interrupt on an emulated 8259 and
\* a spurious one, which leaves nothing in service, on the real part.
Interrupt ==
    /\ handler = None /\ flag /\ Waiting(pic) # {}
    /\ \/ handler' = Foremost(pic) /\ pic' = Acknowledge(pic)
       \/ /\ Foremost(pic) \notin {Timer} \cup Line(obf, command)
          /\ handler' = SpuriousLine /\ pic' = Withdraw(pic)
    /\ flag' = FALSE
    /\ UNCHANGED <<pc, ran, pitOn, portVars, tableVars, logVars>>

\* isr_handler's end and the stub's iretq.
Return ==
    /\ pic' = PicEoi(pic, handler)
    /\ handler' = None
    /\ flag' = TRUE

\* The entries that are counted point to functions.
CountedAreStored == 0 .. callBackNum - 1 \subseteq callbacks

\* timerTick calls every registered callback.
TimerTick ==
    /\ handler = Timer /\ CountedAreStored
    /\ called' = 0 .. callBackNum - 1
    /\ Return
    /\ UNCHANGED <<pc, ran, pitOn, portVars, tableVars, config, drained, heard>>

\* It calls a null pointer: isr_handler panics at the page fault, and the
\* processor halts with its flag off.
TimerFaults ==
    /\ handler = Timer /\ ~CountedAreStored
    /\ handler' = None
    /\ pc' = "halted"
    /\ UNCHANGED <<ran, flag, pic, pitOn, portVars, tableVars, logVars>>

\* HandleKeyBoardIRQ drains the buffer; the next byte may come between two reads.
KeyboardReads ==
    /\ handler = Keyboard /\ obf # << >>
    /\ heard' = Append(heard, Head(obf))
    /\ Controller(<< >>, command)
    /\ UNCHANGED <<cpuVars, pitOn, reply, kbd, typed, moved, tableVars, config, drained, called>>

KeyboardReturns ==
    /\ handler = Keyboard /\ obf = << >>
    /\ Return
    /\ UNCHANGED <<pc, ran, pitOn, portVars, tableVars, logVars>>

\* isr_handler prints a line for any other.
UnknownIrq ==
    /\ handler \notin {None, Timer, Keyboard}
    /\ Return
    /\ UNCHANGED <<pc, ran, pitOn, portVars, tableVars, logVars>>

-------------------------------------------------------------------------------
Init ==
    /\ pc = "remap" /\ ran = TRUE
    /\ flag = FALSE /\ handler = None
    /\ pic = [irr |-> {}, imr |-> {}, isr |-> {}, base |-> 8]
    /\ pitOn = FALSE
    /\ command \in {c \in CommandBytes : ~c.clockOff}
    /\ reply = FALSE /\ obf = << >> /\ kbd = << >>
    /\ typed = 0 /\ moved = 0
    /\ config = command
    /\ drained = << >>
    /\ gates = {} /\ idtLoaded = FALSE
    /\ callBackNum = 0 /\ callbacks = {}
    /\ called = {} /\ heard = << >>

Boot ==
    \/ InitPic \/ PitInit
    \/ Ps2DisableKeyboard \/ Ps2DisableMouse \/ Ps2Flush \/ Ps2Ask \/ Ps2Read \/ Ps2Write
    \/ Ps2Enable \/ Ps2Scan \/ Ps2Drain
    \/ IdtSet \/ IdtLoad \/ Sti
    \/ SetTickCallbacks("first", "second") \/ SetTickCallbacks("second", "run")
    \/ Run

Handle == Interrupt \/ TimerTick \/ TimerFaults \/ KeyboardReads \/ KeyboardReturns \/ UnknownIrq

Processor == Boot \/ Handle

Next == Processor \/ PitTick \/ Type \/ KeyboardSends \/ MouseSends \/ ControllerReplies

Fairness ==
    /\ WF_vars(Processor)
    /\ WF_vars(PitTick)
    /\ WF_vars(KeyboardSends)
    /\ WF_vars(ControllerReplies)

Spec == Init /\ [][Next]_vars /\ Fairness

-------------------------------------------------------------------------------
(***************************************************************************)
(* Properties                                                              *)
(***************************************************************************)

TypeOK ==
    /\ pc \in {"remap", "pit", "keyboard", "mouse", "flush", "ask", "config", "write",
               "enable", "scan", "ack", "gates", "load", "sti", "first", "second", "run", "halted"}
    /\ ran \in BOOLEAN /\ flag \in BOOLEAN
    /\ handler \in Lines \cup {None}
    /\ pic \in [irr : SUBSET Lines, imr : SUBSET Lines, isr : SUBSET Lines, base : {8, 32}]
    /\ pitOn \in BOOLEAN /\ reply \in BOOLEAN
    /\ command \in CommandBytes /\ config \in CommandBytes
    /\ Len(obf) <= 1 /\ Len(kbd) <= MaxBytes + 1
    /\ typed \in 0 .. MaxBytes /\ moved \in 0 .. MaxMouse
    /\ gates \subseteq 0 .. 255 /\ idtLoaded \in BOOLEAN
    /\ callBackNum \in 0 .. 1 /\ callbacks \subseteq {0}
    /\ Len(drained) <= 1 /\ ToSet(heard) \subseteq Keys \cup {Ack}

\* An interrupt that is taken, a spurious one included, leads into the kernel's
\* own table, to an entry that is there, and is none that nobody asked for.  A
\* tick finds every callback it calls, but for a tick between the two stores of
\* setTickCallbacks: there a build that counts first calls a null pointer, and
\* the kernel stops (TimerFaults).
InterruptsAreExpected ==
    handler # None =>
        /\ idtLoaded /\ pic.base + handler \in gates
        /\ handler \in {Timer, Keyboard, SpuriousLine}
        /\ handler = Timer /\ pc # "second" => CountedAreStored

Initialised8042 == pc \in {"gates", "load", "sti", "first", "second", "run"}

\* ps2_init leaves the command byte as the firmware had it but for the bits it
\* means to change, whatever is typed or moved meanwhile: above all the
\* translation of scan codes, on which the driver's tables rest.  At its end the
\* keyboard is on with its interrupt and the mouse is off.
CommandByteIsKept ==
    [][/\ command'.translate = command.translate
       /\ Initialised8042' => /\ command'.irq1 /\ ~command'.clockOff
                              /\ ~command'.irq12 /\ command'.mouseOff]_vars

\* Once ps2_init is done, every byte the keyboard has or gets is read by the
\* handler: no edge is lost for good, whatever was in the buffer when the lines
\* were initialised and enabled, and nothing stays in service, unless a tick in
\* the middle of setTickCallbacks stopped the kernel.
EveryByteIsHeard ==
    \A b \in Keys :
        (Initialised8042 /\ b \in ToSet(kbd \o obf)) ~> (b \in ToSet(heard) \/ pc = "halted")

\* The timer is served again and again, whatever the keyboard sends.
TicksGoOn == []<>(handler = Timer \/ pc = "halted")

===============================================================================
