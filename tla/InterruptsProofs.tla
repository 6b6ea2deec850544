---------------------------- MODULE InterruptsProofs ----------------------------
(***************************************************************************)
(* For any number of bytes typed and moved: every interrupt that is taken  *)
(* finds what it needs in place, but for a tick in the middle of            *)
(* setTickCallbacks, and ps2_init keeps the command byte.                  *)
(***************************************************************************)
EXTENDS Interrupts, SequenceTheorems, TLAPS

-------------------------------------------------------------------------------
(***************************************************************************)
(* The invariant                                                           *)
(***************************************************************************)

Bytes == Keys \cup {Ack}
Vectors == ExceptionVectors \cup IrqVectors \cup {SyscallVector}

\* Where the boot is, in order.
ToFlush == {"remap", "pit", "keyboard", "mouse", "flush"}
Held == {"flush", "ask", "config", "write"}
ToScan == ToFlush \cup {"ask", "config", "write", "enable", "scan"}
Written == {"enable", "scan", "ack"} \cup {"gates", "load", "sti", "first", "second", "run", "halted"}
Live == {"first", "second", "run", "halted"}

\* Interrupts come when everything is set up, and from two lines alone.
Processing ==
    /\ pc \in ToScan \cup Written
    /\ ran \in BOOLEAN /\ flag \in BOOLEAN /\ pitOn \in BOOLEAN /\ idtLoaded \in BOOLEAN
    /\ handler \in {None, Timer, Keyboard, SpuriousLine}
    /\ flag \/ handler # None => pc \in Live \ {"halted"}
    /\ handler # None => ~flag
    /\ pc \in {"sti"} \cup Live => idtLoaded
    /\ gates = IF pc \in {"load", "sti"} \cup Live THEN Vectors ELSE {}

\* The lines that have edges, and after pic_remap which of them are masked.
Requests ==
    /\ pic \in [irr : SUBSET {Timer, Keyboard, Mouse}, imr : SUBSET Lines, isr : SUBSET Lines,
                base : {8, 32}]
    /\ pc # "remap" => pic.base = 32 /\ pic.imr = PICMask({Timer, Keyboard})

\* How far the two stores of setTickCallbacks are, in either order.
Stores ==
    /\ pc \notin {"second", "run", "halted"} => callBackNum = 0 /\ callbacks = {}
    /\ pc = "second" => \/ callBackNum = 1 /\ callbacks = {}
                        \/ callBackNum = 0 /\ callbacks = {0}
    /\ pc = "run" => callBackNum = 1 /\ callbacks = {0}
    /\ pc = "halted" => callBackNum = 1 /\ callbacks = {}

\* What the keyboard holds: bytes typed and one acknowledgement.
Typing ==
    /\ typed \in 0 .. MaxBytes /\ moved \in 0 .. MaxMouse
    /\ kbd \in Seq(Bytes)
    /\ Len(kbd) <= typed + (IF pc \in ToScan THEN 0 ELSE 1)

Holds(bytes) == obf = << >> \/ \E b \in bytes : obf = << b >>

AnswerTo(c) == [kind |-> "config", value |-> c]

\* What ps2_init is to leave in a command byte.
Configured(c) == c.irq1 /\ ~c.clockOff /\ ~c.irq12 /\ c.mouseOff

\* What the 8042 holds: while both devices are off, nothing but the answer to
\* command 0x20, so that config is the command byte.
Wire ==
    /\ command \in CommandBytes /\ config \in CommandBytes /\ reply \in BOOLEAN
    /\ pc \in ToFlush => ~reply /\ Holds(Bytes \cup {MouseByte})
    /\ pc \in {"mouse"} \cup Held => command.clockOff
    /\ pc \in Held => command.mouseOff
    /\ pc = "ask" => ~reply /\ obf = << >>
    /\ pc = "config" => Holds({AnswerTo(command)}) /\ (reply => obf = << >>)
    /\ pc = "write" => /\ ~reply /\ obf = << >>
                       /\ Configured(config) /\ config.translate = command.translate
    /\ pc \in Written => ~reply /\ Holds(Bytes) /\ Configured(command)

\* What has been read is what was sent.
Reading == heard \in Seq(Bytes) /\ Len(drained) <= 1

IInv == Processing /\ Requests /\ Stores /\ Typing /\ Wire /\ Reading

-------------------------------------------------------------------------------
(***************************************************************************)
(* The operators                                                           *)
(***************************************************************************)

\* Edges add requests and change nothing else.
LEMMA RaiseRequests ==
    ASSUME Requests, NEW lines \in SUBSET {Timer, Keyboard, Mouse}, pic' = Raise(pic, lines),
           pc = "remap" => pc' = "remap"
    PROVE  Requests'
<1>1. pic' = [irr |-> pic.irr \cup lines, imr |-> pic.imr, isr |-> pic.isr, base |-> pic.base]
  BY DEF Requests, Raise
<1>2. pic.irr \cup lines \in SUBSET {Timer, Keyboard, Mouse}
  <2>1. pic.irr \in SUBSET {Timer, Keyboard, Mouse}
    BY DEF Requests
  <2> QED
    BY <2>1
<1>3. pc' # "remap" => pic.base = 32 /\ pic.imr = PICMask({Timer, Keyboard})
  BY DEF Requests
<1> QED
  BY <1>1, <1>2, <1>3 DEF Requests

\* The 8042 drives its two lines alone.
LEMMA LinesOf8042 == \A o, c : Line(o, c) \in SUBSET {Timer, Keyboard, Mouse}
  BY DEF Line

\* The foremost of the requests of timer and keyboard.
LEMMA ForemostWaits ==
    ASSUME Waiting(pic) \in SUBSET {Timer, Keyboard}, Waiting(pic) # {}
    PROVE  Foremost(pic) \in Waiting(pic)
<1> DEFINE Least(l) == \A k \in Waiting(pic) : Rank(l) <= Rank(k)
<1>1. Rank(0) = 0 /\ Rank(1) = 1
  BY DEF Rank, Slave, Cascade
<1>2. \E l \in Waiting(pic) : Least(l)
  <2>1. CASE Timer \in Waiting(pic)
    BY <1>1, <2>1 DEF Timer, Keyboard
  <2>2. CASE Timer \notin Waiting(pic)
    BY <1>1, <2>2 DEF Timer, Keyboard
  <2> QED
    BY <2>1, <2>2
<1> QED
  BY <1>2 DEF Foremost

\* Once pic_remap has masked the rest, requests of timer and keyboard alone wait.
LEMMA OnlyTwoWait ==
    ASSUME Requests, pc # "remap"
    PROVE  Waiting(pic) \in SUBSET {Timer, Keyboard}
  BY DEF Requests, Waiting, PICMask, Lines, Cascade, Timer, Keyboard, Mouse

\* An end of interrupt leaves no more in service than there was.
LEMMA EoiEnds ==
    ASSUME Requests, NEW irq, pic' = PicEoi(pic, irq), pc' = pc
    PROVE  Requests'
  BY DEF Requests, PicEoi, EndForemost

-------------------------------------------------------------------------------
(***************************************************************************)
(* The invariant is inductive                                              *)
(***************************************************************************)

\* The firmware's state satisfies the invariant.
LEMMA InitInvariant == Init => IInv
<1> SUFFICES ASSUME Init PROVE IInv
  OBVIOUS
<1>1. Processing
  BY DEF Init, Processing, ToScan, ToFlush, Written, Live
<1>2. Requests
  BY DEF Init, Requests
<1>3. Stores
  BY DEF Init, Stores
<1>4. Typing
  BY InterruptsAssumption DEF Init, Typing, ToScan, ToFlush
<1>5. Wire
  BY DEF Init, Wire, ToFlush, Held, Written, Holds
<1>6. Reading
  BY DEF Init, Reading
<1> QED
  BY <1>1, <1>2, <1>3, <1>4, <1>5, <1>6 DEF IInv

\* An interrupt is taken of timer or keyboard, or as a spurious one.
LEMMA InterruptTaken ==
    ASSUME Processing, Requests, Interrupt
    PROVE  /\ handler' \in {Timer, Keyboard, SpuriousLine} /\ pc \in Live
           /\ Requests'
<1>1. pc \in Live /\ pc # "remap" /\ pc' = pc /\ Waiting(pic) # {}
  BY DEF Interrupt, Processing, Live
<1>2. Foremost(pic) \in {Timer, Keyboard}
  BY <1>1, OnlyTwoWait, ForemostWaits
<1>3. pic' = Acknowledge(pic) \/ pic' = Withdraw(pic)
  BY DEF Interrupt
<1>4. \E isr \in SUBSET Lines :
          pic' = [irr |-> pic.irr \ {Foremost(pic)}, imr |-> pic.imr, isr |-> isr, base |-> pic.base]
  <2>1. pic.isr \cup {Foremost(pic)} \cup {Cascade} \in SUBSET Lines
    BY <1>2 DEF Requests, Lines, Cascade, Timer, Keyboard
  <2>2. CASE pic' = Acknowledge(pic)
    BY <2>1, <2>2 DEF Requests, Acknowledge
  <2>3. CASE pic' = Withdraw(pic)
    BY <2>3 DEF Requests, Withdraw
  <2> QED
    BY <1>3, <2>2, <2>3
<1>5. Requests'
  BY <1>1, <1>4 DEF Requests
<1> QED
  BY <1>1, <1>2, <1>5 DEF Interrupt

\* What every step of the main program does to the processor.
LEMMA MainSteps ==
    ASSUME NEW here, NEW there, Main(here, there)
    PROVE  /\ pc = here /\ pc' = there /\ ran' = TRUE
           /\ handler = None /\ handler' = None
  BY DEF Main

\* No interrupt is taken before everything is in place.
LEMMA ProcessingStep == Processing /\ Requests /\ [Next]_vars => Processing'
<1> SUFFICES ASSUME Processing, Requests, [Next]_vars PROVE Processing'
  OBVIOUS
<1> USE DEF Processing, ToScan, ToFlush, Written, Live
<1>1. CASE UNCHANGED vars \/ PitTick \/ Type \/ KeyboardSends \/ MouseSends \/ ControllerReplies
           \/ KeyboardReads
  <2>1. UNCHANGED <<pc, flag, handler, pitOn, gates, idtLoaded>> /\ ran' \in BOOLEAN
    BY <1>1 DEF vars, cpuVars, tableVars, PitTick, Type, KeyboardSends, MouseSends,
       ControllerReplies, KeyboardReads
  <2> QED
    BY <2>1
<1>2. CASE InitPic \/ PitInit \/ Ps2DisableKeyboard \/ Ps2DisableMouse \/ Ps2Flush
           \/ Ps2Ask \/ Ps2Read \/ Ps2Write
           \/ Ps2Enable \/ Ps2Scan \/ Ps2Drain
  <2> DEFINE Before == ToScan \cup {"ack", "gates"}
  <2>1. UNCHANGED <<flag, gates, idtLoaded>> /\ pitOn' \in {pitOn, TRUE}
    BY <1>2 DEF InitPic, PitInit, Ps2DisableKeyboard, Ps2DisableMouse,
       Ps2Flush, Ps2Ask, Ps2Read, Ps2Write,
       Ps2Enable, Ps2Scan, Ps2Drain, tableVars
  <2>2. \E here, there \in Before : Main(here, there)
    BY <1>2 DEF InitPic, PitInit, Ps2DisableKeyboard, Ps2DisableMouse,
       Ps2Flush, Ps2Ask, Ps2Read, Ps2Write,
       Ps2Enable, Ps2Scan, Ps2Drain
  <2>3. pc \in Before /\ pc' \in Before /\ handler = None /\ handler' = None /\ ran' = TRUE
    BY <2>2, MainSteps
  <2> QED
    BY <2>1, <2>3
<1>3. CASE IdtSet
  <2>1. /\ pc = "gates" /\ pc' = "load" /\ handler = None /\ handler' = None /\ ran' = TRUE
        /\ gates' = Vectors /\ UNCHANGED <<flag, pitOn, idtLoaded>>
    BY <1>3 DEF IdtSet, Main, Vectors
  <2> QED
    BY <2>1
<1>4. CASE IdtLoad
  BY <1>4, MainSteps DEF IdtLoad
<1>5. CASE Sti
  <2>1. /\ pc = "sti" /\ pc' = "first" /\ UNCHANGED <<pitOn, gates, idtLoaded>>
        /\ flag' = TRUE /\ handler' = None /\ ran' = TRUE
    BY <1>5, MainSteps DEF Sti, tableVars
  <2> QED
    BY <2>1
<1>6. CASE SetTickCallbacks("first", "second") \/ SetTickCallbacks("second", "run") \/ Run
  <2>1. /\ pc \in Live /\ pc' \in {"second", "run"} /\ UNCHANGED <<flag, pitOn, gates, idtLoaded>>
        /\ handler = None /\ handler' = None /\ ran' \in BOOLEAN
    BY <1>6, MainSteps DEF SetTickCallbacks, Run, tableVars
  <2> QED
    BY <2>1
<1>7. CASE Interrupt
  <2>1. handler' \in {Timer, Keyboard, SpuriousLine} /\ pc \in Live
    BY <1>7, InterruptTaken
  <2> QED
    BY <1>7, <2>1 DEF Interrupt, tableVars
<1>8. CASE TimerTick \/ KeyboardReturns \/ UnknownIrq
  <2>1. handler # None /\ handler' = None /\ flag' = TRUE
        /\ UNCHANGED <<pc, ran, pitOn, gates, idtLoaded>>
    BY <1>8 DEF TimerTick, KeyboardReturns, UnknownIrq, Return, tableVars, None, Timer, Keyboard
  <2> QED
    BY <2>1
<1>9. CASE TimerFaults
  <2>1. /\ handler = Timer /\ handler' = None /\ pc' = "halted"
        /\ UNCHANGED <<ran, flag, pitOn, gates, idtLoaded>>
    BY <1>9 DEF TimerFaults, tableVars
  <2> QED
    BY <2>1 DEF Timer, None
<1> QED
  BY <1>1, <1>2, <1>3, <1>4, <1>5, <1>6, <1>7, <1>8, <1>9 DEF Next, Processor, Boot, Handle

\* Before pic_remap no line is masked that matters; afterwards the masks stay.
LEMMA RequestsStep == Processing /\ Requests /\ [Next]_vars => Requests'
<1> SUFFICES ASSUME Processing, Requests, [Next]_vars PROVE Requests'
  OBVIOUS
<1>1. CASE UNCHANGED vars \/ Type
  BY <1>1 DEF vars, cpuVars, Type, Requests
<1>2. CASE PitTick
  <2>1. {Timer} \in SUBSET {Timer, Keyboard, Mouse}
    OBVIOUS
  <2> QED
    BY <1>2, <2>1, RaiseRequests DEF PitTick
<1>3. ASSUME NEW o, NEW c, Controller(o, c), pc = "remap" => pc' = "remap"
      PROVE  Requests'
  <2>1. Line(o, c) \ Line(obf, command) \in SUBSET {Timer, Keyboard, Mouse}
    BY LinesOf8042
  <2> QED
    BY <1>3, <2>1, RaiseRequests DEF Controller
<1>4. CASE KeyboardSends \/ MouseSends \/ ControllerReplies \/ KeyboardReads
  BY <1>3, <1>4 DEF KeyboardSends, MouseSends, ControllerReplies, KeyboardReads, cpuVars
<1>5. CASE Ps2DisableKeyboard \/ Ps2DisableMouse \/ Ps2Flush \/ Ps2Read \/ Ps2Write \/ Ps2Enable
           \/ Ps2Drain
  BY <1>3, <1>5 DEF Ps2DisableKeyboard, Ps2DisableMouse, Ps2Flush, Ps2Read, Ps2Write,
     Ps2Enable, Ps2Drain, Main
<1>6. CASE InitPic
  <2>1. pic' = [irr |-> {}, imr |-> PICMask({Timer, Keyboard}), isr |-> {}, base |-> 32]
    BY <1>6 DEF InitPic, PicRemap, Initialised
  <2>2. PICMask({Timer, Keyboard}) \in SUBSET Lines
    BY DEF PICMask
  <2> QED
    BY <2>1, <2>2 DEF Requests
<1>7. CASE PitInit \/ Ps2Ask \/ Ps2Scan \/ IdtSet \/ IdtLoad \/ Sti \/ Run
           \/ SetTickCallbacks("first", "second") \/ SetTickCallbacks("second", "run")
  <2>1. pic' = pic /\ (pc = "remap" => pc' = "remap")
    BY <1>7 DEF PitInit, Ps2Ask, Ps2Scan, IdtSet, IdtLoad, Sti, Run, SetTickCallbacks, Main
  <2> QED
    BY <2>1 DEF Requests
<1>10. CASE TimerFaults
  <2>1. pic' = pic /\ pc # "remap" /\ pc' # "remap"
    BY <1>10 DEF TimerFaults, Processing, Live, None, Timer
  <2> QED
    BY <2>1 DEF Requests
<1>8. CASE Interrupt
  BY <1>8, InterruptTaken
<1>9. CASE TimerTick \/ KeyboardReturns \/ UnknownIrq
  BY <1>9, EoiEnds DEF TimerTick, KeyboardReturns, UnknownIrq, Return
<1> QED
  BY <1>1, <1>2, <1>4, <1>5, <1>6, <1>7, <1>8, <1>9, <1>10 DEF Next, Processor, Boot, Handle

\* setTickCallbacks runs once, in one of its two orders.
LEMMA StoresStep == Processing /\ Stores /\ [Next]_vars => Stores'
<1> SUFFICES ASSUME Processing, Stores, [Next]_vars PROVE Stores'
  OBVIOUS
<1> USE DEF Stores
<1>1. ASSUME UNCHANGED <<callBackNum, callbacks>>,
             pc' = pc \/ {pc, pc'} \cap {"second", "run", "halted"} = {} \/ (pc = "run" /\ pc' = "run")
      PROVE  Stores'
  BY <1>1
<1>2. CASE UNCHANGED vars \/ PitTick \/ Type \/ KeyboardSends \/ MouseSends \/ ControllerReplies
           \/ KeyboardReads
  BY <1>1, <1>2 DEF vars, cpuVars, tableVars, PitTick, Type, KeyboardSends, MouseSends,
     ControllerReplies, KeyboardReads
<1>3. CASE InitPic \/ PitInit \/ Ps2DisableKeyboard \/ Ps2DisableMouse \/ Ps2Flush
           \/ Ps2Ask \/ Ps2Read \/ Ps2Write
           \/ Ps2Enable \/ Ps2Scan \/ Ps2Drain \/ IdtSet \/ IdtLoad \/ Sti
  <2>1. UNCHANGED <<callBackNum, callbacks>>
    BY <1>3 DEF InitPic, PitInit, Ps2DisableKeyboard, Ps2DisableMouse,
       Ps2Flush, Ps2Ask, Ps2Read, Ps2Write, Ps2Enable,
       Ps2Scan, Ps2Drain, IdtSet, IdtLoad, Sti, tableVars
  <2>2. {pc, pc'} \cap {"second", "run", "halted"} = {}
    BY <1>3 DEF InitPic, PitInit, Ps2DisableKeyboard, Ps2DisableMouse,
       Ps2Flush, Ps2Ask, Ps2Read, Ps2Write, Ps2Enable,
       Ps2Scan, Ps2Drain, IdtSet, IdtLoad, Sti, Main
  <2> QED
    BY <1>1, <2>1, <2>2
<1>4. CASE SetTickCallbacks("first", "second")
  <2>1. pc = "first" /\ pc' = "second" /\ callBackNum = 0 /\ callbacks = {}
    BY <1>4 DEF SetTickCallbacks, Main
  <2>2. \/ callBackNum' = 1 /\ callbacks' = {}
        \/ callBackNum' = 0 /\ callbacks' = {0}
    BY <1>4, <2>1 DEF SetTickCallbacks
  <2> QED
    BY <2>1, <2>2
<1>5. CASE SetTickCallbacks("second", "run")
  <2>1. pc = "second" /\ pc' = "run"
    BY <1>5 DEF SetTickCallbacks, Main
  <2>2. callBackNum' = 1 /\ callbacks' = {0}
    BY <1>5, <2>1 DEF SetTickCallbacks
  <2> QED
    BY <2>1, <2>2
<1>6. CASE Run
  BY <1>6 DEF Run, Main, tableVars
<1>7. CASE Interrupt \/ TimerTick \/ KeyboardReturns \/ UnknownIrq
  BY <1>1, <1>7 DEF Interrupt, TimerTick, KeyboardReturns, UnknownIrq, tableVars
<1>8. CASE TimerFaults
  <2>1. pc \in Live /\ ~CountedAreStored /\ pc' = "halted" /\ UNCHANGED <<callBackNum, callbacks>>
    BY <1>8 DEF TimerFaults, Processing, None, Timer, tableVars
  <2>2. callBackNum = 1 /\ callbacks = {}
    <3>1. callBackNum = 0 => CountedAreStored
      BY DEF CountedAreStored
    <3>2. callBackNum = 1 /\ callbacks = {0} => CountedAreStored
      BY DEF CountedAreStored
    <3> QED
      BY <2>1, <3>1, <3>2 DEF Live
  <2> QED
    BY <2>1, <2>2
<1> QED
  BY <1>2, <1>3, <1>4, <1>5, <1>6, <1>7, <1>8 DEF Next, Processor, Boot, Handle

\* A byte that is typed or an acknowledgement goes to the end, a byte that is sent
\* leaves at the front.
LEMMA TypingStep == Processing /\ Typing /\ [Next]_vars => Typing'
<1> SUFFICES ASSUME Processing, Typing, [Next]_vars PROVE Typing'
  OBVIOUS
<1>0. ASSUME UNCHANGED <<kbd, typed>>, moved' \in 0 .. MaxMouse,
             pc' = pc \/ (pc \in ToScan /\ pc' \in ToScan) \/ (pc \notin ToScan /\ pc' \notin ToScan)
      PROVE  Typing'
  BY <1>0 DEF Typing
<1>1. CASE UNCHANGED vars \/ PitTick \/ MouseSends \/ ControllerReplies \/ Interrupt \/ TimerTick
           \/ KeyboardReads \/ KeyboardReturns \/ UnknownIrq
  <2>1. UNCHANGED <<pc, kbd, typed>>
    BY <1>1 DEF vars, cpuVars, portVars, PitTick, MouseSends, ControllerReplies, Interrupt, TimerTick,
       KeyboardReads, KeyboardReturns, UnknownIrq
  <2>2. moved' = moved \/ (moved < MaxMouse /\ moved' = moved + 1)
    BY <1>1 DEF vars, portVars, PitTick, MouseSends, ControllerReplies, Interrupt, TimerTick,
       KeyboardReads, KeyboardReturns, UnknownIrq
  <2>3. moved' \in 0 .. MaxMouse
    BY <2>2, InterruptsAssumption DEF Typing
  <2> QED
    BY <1>0, <2>1, <2>3
<1>2. CASE Type
  <2>1. typed' = typed + 1 /\ typed' \in 1 .. MaxBytes
    BY <1>2, InterruptsAssumption DEF Type, Typing
  <2>2. Byte(typed') \in Bytes
    BY <2>1 DEF Bytes, Keys
  <2>3. kbd' = Append(kbd, Byte(typed')) /\ UNCHANGED <<pc, moved>>
    BY <1>2 DEF Type, cpuVars
  <2>4. kbd' \in Seq(Bytes) /\ Len(kbd') = Len(kbd) + 1 /\ Len(kbd) \in Nat
    BY <2>2, <2>3 DEF Typing
  <2> QED
    BY <2>1, <2>3, <2>4, InterruptsAssumption DEF Typing
<1>3. CASE KeyboardSends
  <2>1. kbd # << >> /\ kbd' = Tail(kbd) /\ UNCHANGED <<pc, typed, moved>>
    BY <1>3 DEF KeyboardSends, cpuVars
  <2>2. kbd' \in Seq(Bytes) /\ Len(kbd') = Len(kbd) - 1 /\ Len(kbd) \in Nat
    BY <2>1 DEF Typing
  <2> QED
    BY <2>1, <2>2, InterruptsAssumption DEF Typing
<1>4. CASE Ps2Scan
  <2>1. Ack \in Bytes
    BY DEF Bytes
  <2>2. pc \in ToScan /\ pc' \notin ToScan /\ UNCHANGED <<typed, moved>>
    BY <1>4 DEF Ps2Scan, Main, ToScan, ToFlush
  <2>3. kbd' = Append(kbd, Ack) \/ kbd' = << Ack >>
    BY <1>4 DEF Ps2Scan
  <2>4. kbd' \in Seq(Bytes) /\ Len(kbd') \in Nat /\ Len(kbd) \in Nat
        /\ Len(kbd') <= Len(kbd) + 1
    <3>1. kbd \in Seq(Bytes) /\ Len(kbd) \in Nat
      BY DEF Typing
    <3>2. CASE kbd' = Append(kbd, Ack)
      BY <2>1, <3>1, <3>2
    <3>3. CASE kbd' = << Ack >>
      <4>1. kbd' \in Seq(Bytes) /\ Len(kbd') = 1
        BY <2>1, <3>3
      <4> QED
        BY <3>1, <4>1
    <3> QED
      BY <2>3, <3>2, <3>3
  <2> QED
    BY <2>2, <2>4, InterruptsAssumption DEF Typing
<1>5. CASE InitPic \/ PitInit \/ Ps2DisableKeyboard \/ Ps2DisableMouse \/ Ps2Flush
           \/ Ps2Ask \/ Ps2Read \/ Ps2Write \/ Ps2Enable
  <2>1. UNCHANGED <<kbd, typed, moved>>
    BY <1>5 DEF InitPic, PitInit, Ps2DisableKeyboard, Ps2DisableMouse,
       Ps2Flush, Ps2Ask, Ps2Read, Ps2Write, Ps2Enable, portVars
  <2>2. pc \in ToScan /\ pc' \in ToScan
    BY <1>5 DEF InitPic, PitInit, Ps2DisableKeyboard, Ps2DisableMouse,
       Ps2Flush, Ps2Ask, Ps2Read, Ps2Write, Ps2Enable, Main,
       ToScan, ToFlush
  <2> QED
    BY <1>0, <2>1, <2>2 DEF Typing
<1>6. CASE Ps2Drain \/ IdtSet \/ IdtLoad \/ Sti \/ Run
           \/ SetTickCallbacks("first", "second") \/ SetTickCallbacks("second", "run")
  <2>1. UNCHANGED <<kbd, typed, moved>>
    BY <1>6 DEF Ps2Drain, IdtSet, IdtLoad, Sti, Run, SetTickCallbacks, portVars
  <2>2. pc \notin ToScan /\ pc' \notin ToScan
    BY <1>6 DEF Ps2Drain, IdtSet, IdtLoad, Sti, Run, SetTickCallbacks, Main, ToScan, ToFlush
  <2> QED
    BY <1>0, <2>1, <2>2 DEF Typing
<1>7. CASE TimerFaults
  <2>1. UNCHANGED <<kbd, typed, moved>> /\ pc \in Live /\ pc' \notin ToScan
    BY <1>7 DEF TimerFaults, Processing, None, Timer, portVars, ToScan, ToFlush
  <2>2. pc \notin ToScan
    BY <2>1 DEF Live, ToScan, ToFlush
  <2> QED
    BY <1>0, <2>1, <2>2 DEF Typing
<1> QED
  BY <1>1, <1>2, <1>3, <1>4, <1>5, <1>6, <1>7 DEF Next, Processor, Boot, Handle

\* The byte in a buffer that is not empty.
LEMMA HeldByte ==
    ASSUME NEW bytes, Holds(bytes), obf # << >>
    PROVE  Head(obf) \in bytes
  BY DEF Holds

\* What a byte in the keyboard is when it comes to the front.
LEMMA FrontByte ==
    ASSUME Typing, kbd # << >>
    PROVE  Head(kbd) \in Bytes
  BY DEF Typing

\* Steps that leave the 8042 alone.
LEMMA WireKept ==
    ASSUME Wire, UNCHANGED <<command, config, reply, obf>>,
           \/ pc' = pc
           \/ {pc, pc'} \subseteq ToFlush \ ({"mouse"} \cup Held)
           \/ {pc, pc'} \subseteq Written
    PROVE  Wire'
  BY DEF Wire, Holds, Configured, AnswerTo, ToFlush, Held, Written

\* With its devices off the 8042 has nothing to hold but the answer it owes.
LEMMA WireStep == Processing /\ Typing /\ Wire /\ [Next]_vars => Wire'
<1> SUFFICES ASSUME Processing, Typing, Wire, [Next]_vars PROVE Wire'
  OBVIOUS
<1>0. /\ ToFlush = {"remap", "pit", "keyboard", "mouse", "flush"}
      /\ Held = {"flush", "ask", "config", "write"}
      /\ Written = {"enable", "scan", "ack", "gates", "load", "sti", "first", "second", "run", "halted"}
      /\ pc \in ToFlush \cup Held \cup Written
  BY DEF Processing, ToScan, ToFlush, Held, Written
<1>1. CASE UNCHANGED vars \/ PitTick \/ Type \/ Interrupt \/ TimerTick \/ KeyboardReturns \/ UnknownIrq
  <2>1. UNCHANGED <<pc, command, config, reply, obf>>
    BY <1>1 DEF vars, cpuVars, portVars, logVars, PitTick, Type, Interrupt, TimerTick,
       KeyboardReturns, UnknownIrq
  <2> QED
    BY <2>1, WireKept
<1>2. CASE KeyboardSends
  <2>1. /\ obf' = << Head(kbd) >> /\ Head(kbd) \in Bytes
        /\ UNCHANGED <<pc, command, config, reply>> /\ pc \notin Held
    BY <1>2, FrontByte DEF KeyboardSends, Controller, cpuVars, logVars, Wire
  <2> QED
    BY <1>0, <2>1 DEF Wire, Holds
<1>3. CASE MouseSends
  <2>1. /\ obf' = << MouseByte >> /\ UNCHANGED <<pc, command, config, reply>>
        /\ pc \notin Held \cup Written
    BY <1>3 DEF MouseSends, Controller, cpuVars, logVars, Wire, Configured
  <2> QED
    BY <1>0, <2>1 DEF Wire, Holds
<1>4. CASE ControllerReplies
  <2>1. /\ obf' = << AnswerTo(command) >> /\ UNCHANGED <<pc, command, config>>
        /\ reply /\ reply' = FALSE
    BY <1>4 DEF ControllerReplies, Controller, cpuVars, logVars, AnswerTo
  <2>2. pc = "config"
    BY <1>0, <2>1 DEF Wire
  <2>3. Holds({AnswerTo(command)})'
    BY <2>1 DEF Holds, AnswerTo
  <2> QED
    BY <1>0, <2>1, <2>2, <2>3 DEF Wire
<1>5. CASE KeyboardReads
  <2>1. pc \in Written
    BY <1>0, <1>5 DEF KeyboardReads, Processing, Live, None, Keyboard
  <2>2. obf' = << >> /\ UNCHANGED <<pc, command, config, reply>>
    BY <1>5 DEF KeyboardReads, Controller, cpuVars
  <2> QED
    BY <1>0, <2>1, <2>2 DEF Wire, Holds
<1>6. CASE InitPic \/ PitInit \/ IdtSet \/ IdtLoad \/ Sti \/ Run
           \/ SetTickCallbacks("first", "second") \/ SetTickCallbacks("second", "run")
  <2>1. UNCHANGED <<command, config, reply, obf>>
    BY <1>6 DEF InitPic, PitInit, IdtSet, IdtLoad, Sti, Run, SetTickCallbacks, portVars, logVars
  <2>2. {pc, pc'} \subseteq ToFlush \ ({"mouse"} \cup Held) \/ {pc, pc'} \subseteq Written
    BY <1>0, <1>6 DEF InitPic, PitInit, IdtSet, IdtLoad, Sti, Run, SetTickCallbacks, Main
  <2> QED
    BY <2>1, <2>2, WireKept
<1>7. CASE Ps2DisableKeyboard
  <2>1. /\ pc = "keyboard" /\ pc' = "mouse" /\ UNCHANGED <<config, reply, obf>>
        /\ command' = [command EXCEPT !.clockOff = TRUE]
    BY <1>7 DEF Ps2DisableKeyboard, Controller, Main, logVars
  <2>2. command' \in CommandBytes /\ command'.clockOff
    BY <2>1 DEF Wire, CommandBytes
  <2> QED
    BY <1>0, <2>1, <2>2 DEF Wire, Holds
<1>15. CASE Ps2DisableMouse
  <2>1. /\ pc = "mouse" /\ pc' = "flush" /\ UNCHANGED <<config, reply, obf>>
        /\ command' = [command EXCEPT !.mouseOff = TRUE]
    BY <1>15 DEF Ps2DisableMouse, Controller, Main, logVars
  <2>2. command' \in CommandBytes /\ command'.clockOff /\ command'.mouseOff
    BY <2>1 DEF Wire, CommandBytes
  <2> QED
    BY <1>0, <2>1, <2>2 DEF Wire, Holds
<1>16. CASE TimerFaults
  <2>1. UNCHANGED <<command, config, reply, obf>> /\ {pc, pc'} \subseteq Written
    BY <1>0, <1>16 DEF TimerFaults, Processing, Live, None, Timer, portVars, logVars
  <2> QED
    BY <2>1, WireKept
<1>8. CASE Ps2Flush
  <2>1. /\ pc = "flush" /\ pc' \in {"flush", "ask"} /\ obf' = << >>
        /\ UNCHANGED <<command, config, reply>>
    BY <1>8 DEF Ps2Flush, Controller, Main, logVars
  <2> QED
    BY <1>0, <2>1 DEF Wire, Holds
<1>9. CASE Ps2Ask
  <2>1. /\ pc = "ask" /\ pc' = "config" /\ reply' = TRUE /\ UNCHANGED <<command, config, obf>>
    BY <1>9 DEF Ps2Ask, Main, logVars
  <2> QED
    BY <1>0, <2>1 DEF Wire, Holds
<1>10. CASE Ps2Read
  <2>1. /\ pc = "config" /\ pc' = "write" /\ obf # << >> /\ obf' = << >>
        /\ UNCHANGED <<command, reply>>
    BY <1>10 DEF Ps2Read, Controller, Main
  <2>2. Head(obf) = AnswerTo(command)
    BY <2>1, HeldByte DEF Wire
  <2>3. config' = [command EXCEPT !.irq1 = TRUE, !.clockOff = FALSE, !.irq12 = FALSE]
    <3>1. AnswerTo(command).kind = "config" /\ AnswerTo(command).value = command
      BY DEF AnswerTo
    <3>2. AsCommand(Head(obf)) = {command}
      BY <2>2, <3>1 DEF AsCommand
    <3> QED
      BY <1>10, <3>2 DEF Ps2Read
  <2>4. command \in CommandBytes /\ command.mouseOff /\ ~reply
    BY <1>0, <2>1 DEF Wire
  <2>5. config' \in CommandBytes /\ Configured(config') /\ config'.translate = command.translate
    BY <2>3, <2>4 DEF CommandBytes, Configured
  <2> QED
    BY <1>0, <2>1, <2>4, <2>5 DEF Wire, Configured
<1>11. CASE Ps2Write
  <2>1. /\ pc = "write" /\ pc' = "enable" /\ command' = config /\ UNCHANGED <<config, reply, obf>>
    BY <1>11 DEF Ps2Write, Controller, Main, logVars
  <2> QED
    BY <1>0, <2>1 DEF Wire, Holds, Configured
<1>12. CASE Ps2Enable
  <2>1. /\ pc = "enable" /\ pc' = "scan" /\ UNCHANGED <<config, reply, obf>>
        /\ command' = [command EXCEPT !.clockOff = FALSE]
    BY <1>12 DEF Ps2Enable, Controller, Main, logVars
  <2>2. command' \in CommandBytes /\ Configured(command')
    BY <1>0, <2>1 DEF Wire, CommandBytes, Configured
  <2> QED
    BY <1>0, <2>1, <2>2 DEF Wire, Holds, Configured
<1>13. CASE Ps2Scan
  <2>1. UNCHANGED <<command, config, reply, obf>> /\ {pc, pc'} \subseteq Written
    BY <1>0, <1>13 DEF Ps2Scan, Main, logVars
  <2> QED
    BY <2>1, WireKept
<1>14. CASE Ps2Drain
  <2>1. pc = "ack" /\ pc' = "gates" /\ obf' = << >> /\ UNCHANGED <<command, config, reply>>
    BY <1>14 DEF Ps2Drain, Controller, Main
  <2> QED
    BY <1>0, <2>1 DEF Wire, Holds, Configured
<1> QED
  BY <1>1, <1>2, <1>3, <1>4, <1>5, <1>6, <1>7, <1>8, <1>9, <1>10, <1>11, <1>12, <1>13, <1>14,
     <1>15, <1>16
     DEF Next, Processor, Boot, Handle

\* Only what the keyboard sent is read after the flush.
LEMMA ReadingStep == Processing /\ Wire /\ Reading /\ [Next]_vars => Reading'
<1> SUFFICES ASSUME Processing, Wire, Reading, [Next]_vars PROVE Reading'
  OBVIOUS
<1>0. pc \in Live \/ pc = "ack" => Holds(Bytes)
  BY DEF Wire, Written, Live
<1>1. CASE KeyboardReads
  <2>1. handler = Keyboard /\ obf # << >> /\ heard' = Append(heard, Head(obf)) /\ UNCHANGED drained
    BY <1>1 DEF KeyboardReads
  <2>2. Head(obf) \in Bytes
    BY <1>0, <2>1, HeldByte DEF Processing, None, Keyboard
  <2> QED
    BY <2>1, <2>2 DEF Reading
<1>2. CASE Ps2Drain
  <2>1. pc = "ack" /\ drained' = obf /\ UNCHANGED heard
    BY <1>2 DEF Ps2Drain, Main
  <2>2. Len(obf) <= 1
    <3>1. obf = << >> \/ \E b : obf = << b >>
      BY <1>0, <2>1 DEF Holds
    <3>2. CASE obf = << >>
      BY <3>2
    <3>3. CASE obf # << >>
      <4>1. PICK b : obf = << b >>
        BY <3>1, <3>3
      <4>2. Len(obf) = 1
        BY <4>1
      <4> QED
        BY <4>2
    <3> QED
      BY <3>2, <3>3
  <2> QED
    BY <2>1, <2>2 DEF Reading
<1>3. CASE UNCHANGED <<drained, heard>>
  BY <1>3 DEF Reading
<1>4. CASE UNCHANGED vars \/ PitTick \/ Type \/ KeyboardSends \/ MouseSends \/ ControllerReplies
           \/ Interrupt \/ TimerTick \/ TimerFaults \/ KeyboardReturns \/ UnknownIrq
  BY <1>3, <1>4 DEF vars, logVars, PitTick, Type, KeyboardSends, MouseSends, ControllerReplies,
     Interrupt, TimerTick, TimerFaults, KeyboardReturns, UnknownIrq
<1>5. CASE InitPic \/ PitInit \/ Ps2DisableKeyboard \/ Ps2DisableMouse \/ Ps2Flush
           \/ Ps2Ask \/ Ps2Read \/ Ps2Write
           \/ Ps2Enable \/ Ps2Scan \/ IdtSet \/ IdtLoad \/ Sti \/ Run
           \/ SetTickCallbacks("first", "second") \/ SetTickCallbacks("second", "run")
  BY <1>3, <1>5 DEF InitPic, PitInit, Ps2DisableKeyboard, Ps2DisableMouse,
     Ps2Flush, Ps2Ask, Ps2Read, Ps2Write, Ps2Enable,
     Ps2Scan, IdtSet, IdtLoad, Sti, Run, SetTickCallbacks, logVars
<1> QED
  BY <1>1, <1>2, <1>4, <1>5 DEF Next, Processor, Boot, Handle

\* The invariant holds in every reachable state.
THEOREM Invariance == Spec => []IInv
<1>1. IInv /\ [Next]_vars => IInv'
  BY ProcessingStep, RequestsStep, StoresStep, TypingStep, WireStep, ReadingStep DEF IInv
<1> QED
  BY InitInvariant, <1>1, PTL DEF Spec

-------------------------------------------------------------------------------
(***************************************************************************)
(* What the run checks, for any number of bytes                            *)
(***************************************************************************)

\* Every variable keeps to its type.
THEOREM TypeCorrect == Spec => []TypeOK
<1>1. IInv => TypeOK
  <2> SUFFICES ASSUME IInv PROVE TypeOK
    OBVIOUS
  <2> USE DEF IInv
  <2>1. pc \in {"remap", "pit", "keyboard", "mouse", "flush", "ask", "config", "write",
                "enable", "scan", "ack", "gates", "load", "sti", "first", "second", "run", "halted"}
    BY DEF Processing, ToScan, ToFlush, Written
  <2>2. ran \in BOOLEAN /\ flag \in BOOLEAN /\ pitOn \in BOOLEAN /\ idtLoaded \in BOOLEAN
    BY DEF Processing
  <2>3. handler \in Lines \cup {None}
    BY DEF Processing, Lines, Timer, Keyboard, SpuriousLine
  <2>4. pic \in [irr : SUBSET Lines, imr : SUBSET Lines, isr : SUBSET Lines, base : {8, 32}]
    <3>1. {Timer, Keyboard, Mouse} \subseteq Lines
      BY DEF Lines, Timer, Keyboard, Mouse
    <3> QED
      BY <3>1 DEF Requests
  <2>5. command \in CommandBytes /\ config \in CommandBytes /\ reply \in BOOLEAN
    BY DEF Wire
  <2>6. Len(obf) <= 1
    <3>1. obf = << >> \/ \E b : obf = << b >>
      BY <2>1 DEF Wire, Holds, ToFlush, Written
    <3> QED
      BY <3>1
  <2>7. Len(kbd) <= MaxBytes + 1 /\ typed \in 0 .. MaxBytes /\ moved \in 0 .. MaxMouse
    BY InterruptsAssumption DEF Typing
  <2>8. gates \subseteq 0 .. 255
    <3>1. Vectors \subseteq 0 .. 255
      BY DEF Vectors, ExceptionVectors, IrqVectors, SyscallVector
    <3> QED
      BY <3>1 DEF Processing
  <2>9. callBackNum \in 0 .. 1 /\ callbacks \subseteq {0}
    BY DEF Stores
  <2>10. Len(drained) <= 1 /\ ToSet(heard) \subseteq Keys \cup {Ack}
    BY DEF Reading, ToSet, Bytes
  <2> QED
    BY <2>1, <2>2, <2>3, <2>4, <2>5, <2>6, <2>7, <2>8, <2>9, <2>10 DEF TypeOK
<1> QED
  BY Invariance, <1>1, PTL

\* Every interrupt that is taken, a spurious one included, finds its gate in the
\* kernel's table, none comes that is masked, and a tick outside setTickCallbacks
\* finds the callbacks it calls, whichever of its two stores the build makes first.
THEOREM InterruptsExpected == Spec => []InterruptsAreExpected
<1>1. IInv => InterruptsAreExpected
  <2> SUFFICES ASSUME IInv, handler # None
               PROVE  /\ idtLoaded /\ pic.base + handler \in gates
                      /\ handler \in {Timer, Keyboard, SpuriousLine}
                      /\ pc # "second" => CountedAreStored
    BY DEF InterruptsAreExpected
  <2>1. /\ handler \in {Timer, Keyboard, SpuriousLine}
        /\ pc \in Live /\ pc # "halted" /\ idtLoaded /\ gates = Vectors
    BY DEF IInv, Processing
  <2>2. pic.base = 32
    BY <2>1 DEF IInv, Requests, Live
  <2>3. pic.base + handler \in IrqVectors
    BY <2>1, <2>2 DEF Timer, Keyboard, SpuriousLine, IrqVectors
  <2>4. pc # "second" => CountedAreStored
    <3>1. pc # "second" => callBackNum = 0 \/ (callBackNum = 1 /\ callbacks = {0})
      BY <2>1 DEF IInv, Stores
    <3> QED
      BY <3>1 DEF CountedAreStored
  <2> QED
    BY <2>1, <2>3, <2>4 DEF Vectors
<1> QED
  BY Invariance, <1>1, PTL

\* The one exception that can stop the kernel: a build that counts the callback
\* before it stores it, and a tick between the two stores.
THEOREM HaltsBetweenStores ==
    Spec => [][pc' = "halted" /\ pc # "halted" =>
                   pc = "second" /\ handler = Timer /\ callBackNum = 1 /\ callbacks = {}]_vars
<1> DEFINE Halts == pc' = "halted" /\ pc # "halted" =>
                      pc = "second" /\ handler = Timer /\ callBackNum = 1 /\ callbacks = {}
<1>1. IInv /\ [Next]_vars => [Halts]_vars
  <2> SUFFICES ASSUME IInv, Next, pc' = "halted", pc # "halted"
               PROVE  pc = "second" /\ handler = Timer /\ callBackNum = 1 /\ callbacks = {}
    BY Zenon
  <2>1. CASE TimerFaults
    <3>1. pc \in Live /\ handler = Timer /\ ~CountedAreStored
      BY <2>1 DEF TimerFaults, IInv, Processing, None, Timer
    <3>2. callBackNum = 0 \/ (callBackNum = 1 /\ callbacks = {0}) => CountedAreStored
      BY DEF CountedAreStored
    <3> QED
      BY <3>1, <3>2 DEF IInv, Stores, Live
  <2>2. CASE Boot
    BY <2>2 DEF Boot, InitPic, PitInit, Ps2DisableKeyboard, Ps2DisableMouse, Ps2Flush, Ps2Ask,
       Ps2Read, Ps2Write, Ps2Enable, Ps2Scan, Ps2Drain, IdtSet, IdtLoad, Sti, SetTickCallbacks,
       Run, Main
  <2>3. CASE Interrupt \/ TimerTick \/ KeyboardReads \/ KeyboardReturns \/ UnknownIrq
             \/ PitTick \/ Type \/ KeyboardSends \/ MouseSends \/ ControllerReplies
    BY <2>3 DEF Interrupt, TimerTick, KeyboardReads, KeyboardReturns, UnknownIrq, PitTick, Type,
       KeyboardSends, MouseSends, ControllerReplies, cpuVars
  <2> QED
    BY <2>1, <2>2, <2>3 DEF Next, Processor, Handle
<1> QED
  BY Invariance, <1>1, PTL DEF Spec

\* ps2_init changes the bits it means to change and no others, above all not the
\* translation of scan codes.
THEOREM CommandByteKept == Spec => CommandByteIsKept
<1> DEFINE Kept == /\ command'.translate = command.translate
                   /\ Initialised8042' => /\ command'.irq1 /\ ~command'.clockOff
                                          /\ ~command'.irq12 /\ command'.mouseOff
<1>1. IInv /\ IInv' /\ [Next]_vars => [Kept]_vars
  <2> SUFFICES ASSUME IInv, IInv', Next PROVE Kept
    BY Zenon
  <2>1. Initialised8042' => Configured(command)'
    BY DEF IInv, Wire, Initialised8042, Written
  <2>2. command'.translate = command.translate
    <3>1. CASE UNCHANGED command
      BY <3>1
    <3>2. CASE Ps2DisableKeyboard \/ Ps2DisableMouse \/ Ps2Enable
      <4>1. command \in CommandBytes
        BY DEF IInv, Wire
      <4> QED
        BY <3>2, <4>1 DEF Ps2DisableKeyboard, Ps2DisableMouse, Ps2Enable, Controller, CommandBytes
    <3>3. CASE Ps2Write
      <4>1. pc = "write" /\ command' = config
        BY <3>3 DEF Ps2Write, Controller, Main
      <4> QED
        BY <4>1 DEF IInv, Wire
    <3>4. CASE PitTick \/ Type \/ KeyboardSends \/ MouseSends \/ ControllerReplies
               \/ Interrupt \/ TimerTick \/ TimerFaults \/ KeyboardReads
               \/ KeyboardReturns \/ UnknownIrq
      BY <3>1, <3>4 DEF PitTick, Type, KeyboardSends, MouseSends, ControllerReplies, Interrupt,
         TimerTick, TimerFaults, KeyboardReads, KeyboardReturns, UnknownIrq, portVars, Controller
    <3>5. CASE InitPic \/ PitInit \/ Ps2Flush \/ Ps2Ask \/ Ps2Read \/ Ps2Scan \/ Ps2Drain
               \/ IdtSet \/ IdtLoad \/ Sti \/ Run
               \/ SetTickCallbacks("first", "second") \/ SetTickCallbacks("second", "run")
      BY <3>1, <3>5 DEF InitPic, PitInit, Ps2Flush, Ps2Ask, Ps2Read, Ps2Scan, Ps2Drain, IdtSet,
         IdtLoad, Sti, Run, SetTickCallbacks, portVars, Controller
    <3> QED
      BY <3>2, <3>3, <3>4, <3>5 DEF Next, Processor, Boot, Handle
  <2> QED
    BY <2>1, <2>2 DEF Configured
<1>2. Spec => [][Kept]_vars
  BY Invariance, <1>1, PTL DEF Spec
<1> QED
  BY <1>2 DEF CommandByteIsKept

===============================================================================
