------------------------------- MODULE Console -------------------------------
(***************************************************************************)
(* The text console of src/kernel/debug/gop.cpp: a cursor over a grid of   *)
(* character cells on the framebuffer, shared by the kernel's code and by  *)
(* isr_handler, which prints when an interrupt comes that nobody handles   *)
(* (spurious ones come whatever the mask).  GOP::print is three steps:     *)
(* moving the cursor, drawing the glyph, wrapping; an interrupt may come   *)
(* between any two.  isr_handler is not interrupted: it prints a character *)
(* per step.  A cell either has ink or has not.                            *)
(***************************************************************************)
EXTENDS Integers, SequencesExt

CONSTANTS
    Cols, Rows,     \* CELL_NUM_X, CELL_NUM_Y
    TabWidth,       \* 4
    Chars,          \* what the kernel prints: "glyph", "newline", "tab", "backspace"
    IrqMessage,     \* the message of isr_handler
    Preemptive      \* may the interrupt come in the middle of print?

ASSUME ScreenAssumption ==
    /\ Cols \in Nat \ {0} /\ Rows \in Nat \ {0} /\ TabWidth \in Nat \ {0}
    /\ IrqMessage \in Seq(Chars)

VARIABLES
    cursor,    \* << cursor_cell_X, cursor_cell_Y >>
    ink,       \* the cells with ink
    phase,     \* of the running print: "idle", "draw", "wrap"
    glyph,     \* the cell and character handed to displayGlyph
    halted,    \* has drawPixel's assertion failed?
    message    \* what isr_handler has still to print

vars == <<cursor, ink, phase, glyph, halted, message>>

NoGlyph == [at |-> << 0, 0 >>, char |-> "none"]

Screen == [cursor |-> cursor, ink |-> ink, glyph |-> glyph, halted |-> halted]

Install(s) == cursor' = s.cursor /\ ink' = s.ink /\ glyph' = s.glyph /\ halted' = s.halted

-------------------------------------------------------------------------------
\* A character is handed to displayGlyph, and the cursor goes past its cell.
Show(s, at, c) ==
    [s EXCEPT !.glyph = [at |-> at, char |-> c], !.cursor = << at[1] + 1, at[2] >>]

\* Slip: the end of the last row is off by one.
BackPastEnd(at) ==
    IF at[1] > 0 THEN << at[1] - 1, at[2] >>
    ELSE IF at[2] > 0 THEN << Cols, at[2] - 1 >>
    ELSE at

\* Where '\b' draws: one cell back, at the start of a row the end of the last.
Back(at) ==
    IF at[1] > 0 THEN << at[1] - 1, at[2] >>
    ELSE IF at[2] > 0 THEN << Cols - 1, at[2] - 1 >>
    ELSE at

Tabbed(x) == ((x + TabWidth) \div TabWidth) * TabWidth

\* The switch of print, up to the call of displayGlyph.
Move(s, c) ==
    LET x == s.cursor[1]
        y == s.cursor[2]
    IN  CASE c = "newline" -> [s EXCEPT !.cursor = << 0, y + 1 >>, !.glyph = NoGlyph]
          [] c = "tab" -> [s EXCEPT !.cursor = << Tabbed(x), y >>, !.glyph = NoGlyph]
          [] c = "backspace" -> Show(s, Back(s.cursor), "space")
          [] OTHER -> Show(s, s.cursor, c)

OnScreen(at) == at[1] < Cols /\ at[2] < Rows

\* displayGlyph without overWriteBackground: a space leaves no trace.
DrawGlyph(s) ==
    IF s.glyph.char = "none" THEN s
    ELSE IF ~OnScreen(s.glyph.at) THEN [s EXCEPT !.halted = TRUE]
    ELSE IF s.glyph.char = "space" THEN s
    ELSE [s EXCEPT !.ink = @ \cup {s.glyph.at}]

\* Slip: nothing happens at the last row.
WrapUnbounded(s) ==
    [s EXCEPT !.glyph = NoGlyph,
              !.cursor = IF @[1] >= Cols THEN << 0, @[2] + 1 >> ELSE @]

\* Slip: the last row is not cleared.
WrapOverText(s) ==
    LET at == IF s.cursor[1] >= Cols THEN << 0, s.cursor[2] + 1 >> ELSE s.cursor
    IN  [s EXCEPT !.glyph = NoGlyph, !.cursor = IF at[2] >= Rows THEN << at[1], Rows - 1 >> ELSE at]

\* The end of print: past the last column the next row, past the last row that
\* row again, cleared.
Wrap(s) ==
    LET at == IF s.cursor[1] >= Cols THEN << 0, s.cursor[2] + 1 >> ELSE s.cursor
        below == at[2] >= Rows
    IN  [s EXCEPT !.glyph = NoGlyph,
                  !.cursor = IF below THEN << at[1], Rows - 1 >> ELSE at,
                  !.ink = IF below THEN {c \in @ : c[2] # Rows - 1} ELSE @]

\* One character by someone who is not interrupted.
Printed(s, c) == Wrap(DrawGlyph(Move(s, c)))

-------------------------------------------------------------------------------
Init ==
    /\ cursor = << 0, 0 >>
    /\ ink = {}
    /\ phase = "idle"
    /\ glyph = NoGlyph
    /\ halted = FALSE
    /\ message = << >>

\* The kernel's own code runs.
Uninterrupted == ~halted /\ message = << >> /\ message' = message

PrintMove(c) ==
    /\ Uninterrupted /\ phase = "idle"
    /\ phase' = "draw"
    /\ Install(Move(Screen, c))

PrintDraw ==
    /\ Uninterrupted /\ phase = "draw"
    /\ phase' = "wrap"
    /\ Install(DrawGlyph(Screen))

PrintWrap ==
    /\ Uninterrupted /\ phase = "wrap"
    /\ phase' = "idle"
    /\ Install(Wrap(Screen))

\* GOP::reset
Reset ==
    /\ Uninterrupted /\ phase = "idle"
    /\ cursor' = << 0, 0 >>
    /\ ink' = {}
    /\ UNCHANGED <<phase, glyph, halted>>

\* An interrupt that nobody handles: isr_handler has something to say.
UnknownIRQ ==
    /\ ~halted /\ message = << >> /\ (phase = "idle" \/ Preemptive)
    /\ message' = IrqMessage
    /\ UNCHANGED <<cursor, ink, phase, glyph, halted>>

\* A character of it; what displayGlyph was called with is on the stack of the
\* interrupted print.
HandlerPrints ==
    /\ ~halted /\ message # << >>
    /\ message' = Tail(message)
    /\ Install([Printed(Screen, Head(message)) EXCEPT !.glyph = glyph])
    /\ UNCHANGED phase

Next ==
    \/ \E c \in Chars : PrintMove(c)
    \/ PrintDraw
    \/ PrintWrap
    \/ Reset
    \/ UnknownIRQ \/ HandlerPrints

Spec == Init /\ [][Next]_vars

-------------------------------------------------------------------------------
(***************************************************************************)
(* Properties                                                              *)
(***************************************************************************)

TypeOK ==
    /\ cursor \in (0 .. (Cols + TabWidth)) \X (0 .. Rows)
    /\ ink \subseteq (0 .. (Cols - 1)) \X (0 .. (Rows - 1))
    /\ phase \in {"idle", "draw", "wrap"}
    /\ glyph.char \in Chars \cup {"none", "space"}
    /\ halted \in BOOLEAN
    /\ message \in Seq(Chars)

Before(a, b) == a[2] < b[2] \/ (a[2] = b[2] /\ a[1] < b[1])

\* Whatever was printed, backspaces, tabs and wrapped rows included, no cell at
\* or past the cursor has ink: a glyph, which does not overwrite the background,
\* never lands on another.
AheadIsBlank == phase = "idle" => \A c \in ink : Before(c, cursor)

\* No glyph is drawn past the edge of the screen, where drawPixel's KERNEL_ASSERT
\* stops the kernel: every way to move the cursor, backspace to the end of the
\* row above and tabs past the last column included, leaves it on a cell.
DrawsOnScreen == ~halted

===============================================================================
