------------------------------- MODULE Keyboard -------------------------------
(***************************************************************************)
(* The keyboard driver of src/kernel/keyboard/keyboard.cpp: the interrupt  *)
(* handler that decodes the bytes of the PS/2 controller, and the timer's  *)
(* KeyBoardTick that repeats the keys that are held.  Both run with        *)
(* interrupts off.  The controller offers one byte at a time, and a step   *)
(* of the interrupt handler is one turn of its loop: that the timer may    *)
(* come between two turns is what happens when the second byte comes after *)
(* the handler has returned.  `out' are the characters that the last step  *)
(* enqueued; their order is KeyQueue's.  Keys, mouse and the bytes on      *)
(* their way are the environment.  Scan codes are those of the code.       *)
(***************************************************************************)
EXTENDS Integers, SequencesExt, FiniteSets

CONSTANTS
    CharCodes,     \* press codes that resolveChar turns into a character
    OtherCodes,    \* press codes without one (a zero of the tables, or past them)
    ShiftCodes,    \* 0x2A, 0x36
    CapsCode,      \* 0x3A
    Arrows,        \* function: press code of an arrow, after 0xE0, to its KEY_
    ForeignCodes,  \* press codes after 0xE0 that are no arrows
    MouseBytes,    \* bytes the mouse may send
    RepeatDelay,   \* REPEAT_DELAY in ticks (500)
    RepeatRate,    \* REPEAT_RATE in ticks (33)
    MaxTick,       \* bound on time
    MaxDown        \* bound on the keys down at a time

VARIABLES
    down,        \* environment: the keys that are physically down
    wire,        \* environment: bytes of a key event on their way
    port,        \* the byte the controller offers at port 0x60, if it has one
    keysHeld,    \* keys_held
    lastPress,   \* last_press_time
    nextRepeat,  \* next_repeat_time
    shiftHeld,   \* shift_held
    capsLock,    \* caps_lock
    extended,    \* extended
    now,         \* ticksSinceStart
    out,         \* the characters the last step enqueued
    made,        \* history: when a key's last character was made, and how
    unheard      \* history: keys pressed whose character has not come yet

driverVars == <<keysHeld, lastPress, nextRepeat, shiftHeld, capsLock, extended>>
vars == <<down, wire, port, driverVars, now, out, made, unheard>>

\* A key is its press code and whether 0xE0 goes before it.
Keys == ((CharCodes \cup OtherCodes \cup ShiftCodes \cup {CapsCode}) \X {FALSE})
        \cup ((DOMAIN Arrows \cup ForeignCodes) \X {TRUE})

ExtendedByte == 224   \* 0xE0
ReleaseMin == 128     \* RELEASE_MIN
PressMax == 127       \* PRESS_MAX

KeyByte(b) == [aux |-> FALSE, data |-> b]
MouseByte(b) == [aux |-> TRUE, data |-> b]

\* What the keyboard sends when a key goes down (or repeats) or up.
Make(k) == (IF k[2] THEN << KeyByte(ExtendedByte) >> ELSE << >>) \o << KeyByte(k[1]) >>
Break(k) == (IF k[2] THEN << KeyByte(ExtendedByte) >> ELSE << >>)
            \o << KeyByte(k[1] + ReleaseMin) >>

HeldCodes == CharCodes \cup OtherCodes \cup Range(Arrows)

\* The codes are those of different keys, no release looks like the prefix, and
\* the KEY_ of an arrow is no code that a key sends.
ASSUME CodesAssumption ==
    /\ CharCodes \cup OtherCodes \cup ShiftCodes \cup {CapsCode}
         \cup DOMAIN Arrows \cup ForeignCodes
         \subseteq 0 .. (PressMax - 1) \ {ExtendedByte - ReleaseMin}
    /\ CharCodes \cap OtherCodes = {}
    /\ (CharCodes \cup OtherCodes) \cap (ShiftCodes \cup {CapsCode}) = {}
    /\ CapsCode \notin ShiftCodes
    /\ DOMAIN Arrows \cap ForeignCodes = {}
    /\ Range(Arrows) \subseteq ReleaseMin .. 255
    /\ \A c, d \in DOMAIN Arrows : Arrows[c] = Arrows[d] => c = d

ASSUME TimesAssumption ==
    /\ RepeatDelay \in Nat /\ RepeatRate \in Nat \ {0} /\ RepeatRate <= RepeatDelay
    /\ MaxTick \in Nat

\* resolveChar: the character's key and the table it comes from.
ResolveChar(s, code) ==
    IF code \notin CharCodes THEN {}
    ELSE {[key |-> code, table |-> IF s.shift THEN "shift"
                                   ELSE IF s.caps THEN "caps" ELSE "plain"]}

\* The sequence ESC [ A (B, C, D) of an arrow.
ArrowSequence(arrow) ==
    {[key |-> arrow, table |-> "ESC"], [key |-> arrow, table |-> "["],
     [key |-> arrow, table |-> "direction"]}

-------------------------------------------------------------------------------
(***************************************************************************)
(* A turn of HandleKeyBoardIRQ's loop, over the driver's state s           *)
(***************************************************************************)

\* Slip: `extended' is reset by arrows only.
HandleExtendedStays(s, b) ==
    LET code == b % ReleaseMin
    IN  IF code \notin DOMAIN Arrows THEN s
        ELSE IF b < PressMax
        THEN [s EXCEPT !.ext = FALSE, !.held = @ \cup {Arrows[code]},
                       !.out = @ \cup ArrowSequence(Arrows[code])]
        ELSE [s EXCEPT !.ext = FALSE, !.held = @ \ {Arrows[code]}]

\* The byte after 0xE0: an arrow pressed or released, or nothing.
HandleExtended(s, b) ==
    LET code == b % ReleaseMin
    IN  IF code \notin DOMAIN Arrows THEN [s EXCEPT !.ext = FALSE]
        ELSE IF b < PressMax
        THEN [s EXCEPT !.ext = FALSE, !.held = @ \cup {Arrows[code]},
                       !.out = @ \cup ArrowSequence(Arrows[code])]
        ELSE [s EXCEPT !.ext = FALSE, !.held = @ \ {Arrows[code]}]

\* Slip: Shift goes on into keys_held.
HandlePressHoldsShift(s, code) ==
    IF code \in ShiftCodes THEN [s EXCEPT !.shift = TRUE, !.held = @ \cup {code}]
    ELSE [s EXCEPT !.held = @ \cup {code}, !.last[code] = now]

\* Slip: the repeat time of the previous hold is kept.
HandlePressKeepsRepeat(s, code) ==
    IF code \in ShiftCodes THEN [s EXCEPT !.shift = TRUE]
    ELSE IF code = CapsCode THEN [s EXCEPT !.caps = ~@]
    ELSE IF code \notin s.held \/ now - s.last[code] > RepeatDelay
    THEN [s EXCEPT !.held = @ \cup {code},
                   !.last[code] = now,
                   !.out = @ \cup ResolveChar(s, code)]
    ELSE [s EXCEPT !.last[code] = now]

\* A press: modifiers, a key not held or not pressed for longer than
\* REPEAT_DELAY, or the keyboard's own repetition of a key that is held.
HandlePress(s, code) ==
    IF code \in ShiftCodes THEN [s EXCEPT !.shift = TRUE]
    ELSE IF code = CapsCode THEN [s EXCEPT !.caps = ~@]
    ELSE IF code \notin s.held \/ now - s.last[code] > RepeatDelay
    THEN [s EXCEPT !.held = @ \cup {code},
                   !.last[code] = now,
                   !.next[code] = now + RepeatDelay,
                   !.out = @ \cup ResolveChar(s, code)]
    ELSE [s EXCEPT !.last[code] = now]

\* Slip: the release only resets the time.
HandleReleaseKeepsHeld(s, code) ==
    IF code \in ShiftCodes THEN [s EXCEPT !.shift = FALSE]
    ELSE IF code = CapsCode THEN s
    ELSE [s EXCEPT !.last[code] = 0]

\* A release; that of CapsLock clears an entry of keys_held nobody sets.
HandleRelease(s, code) ==
    IF code \in ShiftCodes THEN [s EXCEPT !.shift = FALSE]
    ELSE IF code = CapsCode THEN s
    ELSE [s EXCEPT !.held = @ \ {code}, !.last[code] = 0]

\* Slip: AUX is not looked at.
HandleByteOfAnyone(s, b) ==
    IF b.data = ExtendedByte THEN [s EXCEPT !.ext = TRUE]
    ELSE IF s.ext THEN HandleExtended(s, b.data)
    ELSE IF b.data < PressMax THEN HandlePress(s, b.data)
    ELSE IF b.data >= ReleaseMin THEN HandleRelease(s, b.data - ReleaseMin)
    ELSE s

HandleByte(s, b) ==
    IF b.aux THEN s
    ELSE IF b.data = ExtendedByte THEN [s EXCEPT !.ext = TRUE]
    ELSE IF s.ext THEN HandleExtended(s, b.data)
    ELSE IF b.data < PressMax THEN HandlePress(s, b.data)
    ELSE IF b.data >= ReleaseMin THEN HandleRelease(s, b.data - ReleaseMin)
    ELSE s

Driver == [held |-> keysHeld, last |-> lastPress, next |-> nextRepeat, shift |-> shiftHeld,
           caps |-> capsLock, ext |-> extended, out |-> {}]

Install(s) ==
    /\ keysHeld' = s.held
    /\ lastPress' = s.last
    /\ nextRepeat' = s.next
    /\ shiftHeld' = s.shift
    /\ capsLock' = s.caps
    /\ extended' = s.ext
    /\ out' = s.out

KeysOf(chars) == {c.key : c \in chars}

\* The histories: characters made now, by a press or by the timer.
Record(by) ==
    /\ made' = [k \in CharCodes |-> IF k \in KeysOf(out') THEN << now', by >> ELSE made[k]]
    /\ unheard' = unheard \ KeysOf(out')

-------------------------------------------------------------------------------
Init ==
    /\ down = {}
    /\ wire = << >> /\ port = << >>
    /\ keysHeld = {}
    /\ lastPress = [c \in HeldCodes |-> 0]
    /\ nextRepeat = [c \in HeldCodes |-> 0]
    /\ shiftHeld = FALSE /\ capsLock = FALSE /\ extended = FALSE
    /\ now = 0
    /\ out = {}
    /\ made = [k \in CharCodes |-> << 0, "press" >>]
    /\ unheard = {}

\* The user presses a key, the keyboard repeats one that is down (at any time:
\* its delay and rate are its own), the user releases one.
KeyDown(k) ==
    /\ wire = << >> /\ k \notin down /\ Cardinality(down) < MaxDown
    /\ down' = down \cup {k}
    /\ wire' = Make(k)
    /\ unheard' = unheard \cup (IF k[2] THEN {} ELSE {k[1]} \cap CharCodes)
    /\ out' = {}
    /\ UNCHANGED <<port, driverVars, now, made>>

KeyRepeats(k) ==
    /\ wire = << >>
    /\ wire' = Make(k)
    /\ out' = {}
    /\ UNCHANGED <<down, port, driverVars, now, made, unheard>>

KeyUp(k) ==
    /\ wire = << >>
    /\ down' = down \ {k}
    /\ wire' = Break(k)
    /\ out' = {}
    /\ UNCHANGED <<port, driverVars, now, made, unheard>>

\* A byte of the keyboard, or of the mouse, reaches the controller.
Arrive ==
    /\ wire # << >> /\ port = << >>
    /\ port' = << Head(wire) >>
    /\ wire' = Tail(wire)
    /\ out' = {}
    /\ UNCHANGED <<down, driverVars, now, made, unheard>>

MouseMoves(b) ==
    /\ port = << >>
    /\ port' = << MouseByte(b) >>
    /\ out' = {}
    /\ UNCHANGED <<down, wire, driverVars, now, made, unheard>>

HandleKeyBoardIRQ ==
    /\ port # << >>
    /\ Install(HandleByte(Driver, port[1]))
    /\ port' = << >>
    /\ UNCHANGED <<down, wire, now>>
    /\ Record("press")

\* Slip: a repeat is due one tick late.
DueLate(t) == {c \in keysHeld : t > nextRepeat[c]}

Due(t) == {c \in keysHeld : t >= nextRepeat[c]}

\* timerTick and KeyBoardTick: every held key whose time has come.
Tick ==
    /\ now < MaxTick
    /\ now' = now + 1
    /\ Install([Driver EXCEPT
           !.next = [c \in HeldCodes |-> IF c \in Due(now') THEN now' + RepeatRate ELSE @[c]],
           !.out = UNION {ResolveChar(Driver, c) : c \in Due(now')}])
    /\ Record("timer")
    /\ UNCHANGED <<down, wire, port>>

Next ==
    \/ \E k \in Keys : KeyDown(k)
    \/ \E k \in down : KeyRepeats(k)
    \/ \E k \in down : KeyUp(k)
    \/ Arrive
    \/ \E b \in MouseBytes : MouseMoves(b)
    \/ HandleKeyBoardIRQ
    \/ Tick

Spec == Init /\ [][Next]_vars

-------------------------------------------------------------------------------
(***************************************************************************)
(* Properties                                                              *)
(***************************************************************************)

TypeOK ==
    /\ down \subseteq Keys
    /\ Len(wire) <= 2 /\ Len(port) <= 1
    /\ keysHeld \subseteq HeldCodes
    /\ lastPress \in [HeldCodes -> 0 .. MaxTick]
    /\ nextRepeat \in [HeldCodes -> 0 .. (MaxTick + RepeatDelay + RepeatRate)]
    /\ shiftHeld \in BOOLEAN /\ capsLock \in BOOLEAN /\ extended \in BOOLEAN
    /\ now \in 0 .. MaxTick
    /\ made \in [CharCodes -> (0 .. MaxTick) \X {"press", "timer"}]
    /\ unheard \subseteq CharCodes

Quiet == wire = << >> /\ port = << >>

\* The entry of keys_held for a key, if it has one.
HeldAs(k) ==
    IF k[2] THEN (IF k[1] \in DOMAIN Arrows THEN {Arrows[k[1]]} ELSE {})
    ELSE {k[1]} \cap HeldCodes

\* Whenever every byte has been handled, the driver agrees with the keyboard:
\* it holds the keys that are down and no other, whatever prefixes, mouse bytes
\* and repetitions came in between, and waits for no second byte.
HeldMatchesKeys ==
    Quiet => /\ keysHeld = UNION {HeldAs(k) : k \in down}
             /\ ~extended
             /\ shiftHeld => \E c \in ShiftCodes : << c, FALSE >> \in down

\* No press of a character's key goes unheard.
PressesAreHeard == Quiet => unheard = {}

\* The timer repeats only keys that are down, or whose release is on its way.
NoPhantomRepeats ==
    [][Tick => \A k \in KeysOf(out') :
         \/ << k, FALSE >> \in down
         \/ KeyByte(k + ReleaseMin) \in ToSet(port \o wire)]_vars

\* The timer makes a character REPEAT_DELAY after the press at the earliest, and
\* REPEAT_RATE after its last repetition.
RepeatsArePaced ==
    [][Tick => \A k \in KeysOf(out') :
         now' - made[k][1] >= (IF made[k][2] = "press" THEN RepeatDelay ELSE RepeatRate)]_vars

\* A held key that types is repeated again within REPEAT_DELAY, and no repeat is
\* ever overdue.
RepeatsAreScheduled ==
    \A k \in keysHeld \cap CharCodes :
        now < nextRepeat[k] /\ nextRepeat[k] <= now + RepeatDelay

===============================================================================
