----------------------------- MODULE ConsoleProofs -----------------------------
(***************************************************************************)
(* For every size of the screen, tab width and message: the console's      *)
(* types, and, when nobody interrupts print, that glyphs are drawn on the  *)
(* screen and never over one another.                                      *)
(***************************************************************************)
EXTENDS Console, TLAPS

-------------------------------------------------------------------------------
(***************************************************************************)
(* The invariant                                                           *)
(***************************************************************************)

Cells == (0 .. (Cols - 1)) \X (0 .. (Rows - 1))
Reach == (0 .. (Cols + TabWidth)) \X (0 .. Rows)
Glyphs == [at : Nat \X Nat, char : Chars \cup {"none", "space"}]
Screens == [cursor : Nat \X Nat, ink : SUBSET Cells, glyph : Glyphs, halted : BOOLEAN]

\* Between prints the cursor is on a cell; inside one it may be past the edge.
Types ==
    /\ Screen \in Screens
    /\ cursor \in Reach
    /\ phase \in {"idle", "draw", "wrap"}
    /\ phase = "idle" => cursor \in Cells
    /\ message \in Seq(Chars)

\* Everything drawn is behind the cursor.
Behind(s) == \A c \in s.ink : Before(c, s.cursor)

\* The glyph to be drawn goes on the screen and behind the cursor.
Drawable(s) == s.glyph.char # "none" => OnScreen(s.glyph.at) /\ Before(s.glyph.at, s.cursor)

\* What holds as long as print is not interrupted.
Orderly ==
    /\ ~halted
    /\ Behind(Screen)
    /\ phase = "draw" => Drawable(Screen)
    /\ message # << >> => phase = "idle"

-------------------------------------------------------------------------------
(***************************************************************************)
(* The three steps of print                                                *)
(***************************************************************************)

\* The next tab stop.
LEMMA TabStop ==
    ASSUME NEW x \in Nat
    PROVE  Tabbed(x) \in Nat /\ x < Tabbed(x) /\ Tabbed(x) <= x + TabWidth
<1>1. TabWidth \in Nat \ {0}
  BY ScreenAssumption
<1>2. \A n \in Nat, t \in Nat \ {0} :
          n \div t \in Nat /\ (n \div t) * t <= n /\ n < (n \div t) * t + t
  OBVIOUS
<1> DEFINE n == x + TabWidth
           q == (n \div TabWidth) * TabWidth
<1>3. n \in Nat
  BY <1>1
<1>4. q <= n /\ n < q + TabWidth /\ n \div TabWidth \in Nat
  <2> HIDE DEF n
  <2> QED
    BY <1>1, <1>2, <1>3
<1>5. q \in Nat
  <2> HIDE DEF n
  <2> QED
    BY <1>1, <1>4
<1> HIDE DEF q
<1>6. x < q /\ q <= x + TabWidth
  BY <1>1, <1>4, <1>5
<1> QED
  BY <1>5, <1>6 DEF Tabbed, q, n

\* '\b' draws on a cell when the cursor is on one, and not past the cursor.
LEMMA BackCell ==
    ASSUME NEW x \in Nat, NEW y \in Nat
    PROVE  /\ Back(<< x, y >>) \in Nat \X Nat
           /\ << x, y >> \in Cells =>
                Back(<< x, y >>) \in Cells
  BY ScreenAssumption DEF Back, Cells

\* Where the switch of print leaves the cursor.
LEMMA MoveCursor ==
    ASSUME NEW s \in Screens, NEW c \in Chars
    PROVE  /\ Move(s, c) \in Screens
           /\ Move(s, c).ink = s.ink /\ Move(s, c).halted = s.halted
           /\ s.cursor \in Cells => Move(s, c).cursor \in Reach
<1>1. PICK x \in Nat, y \in Nat : s.cursor = << x, y >>
  BY DEF Screens
<1>2. s = [cursor |-> << x, y >>, ink |-> s.ink, glyph |-> s.glyph, halted |-> s.halted]
      /\ s.ink \in SUBSET Cells /\ s.halted \in BOOLEAN
  BY <1>1 DEF Screens
<1>3. Tabbed(x) \in Nat /\ x < Tabbed(x) /\ Tabbed(x) <= x + TabWidth
  BY TabStop
<1>4. NoGlyph \in Glyphs
  BY DEF NoGlyph, Glyphs
<1>5. Cols \in Nat \ {0} /\ Rows \in Nat \ {0} /\ TabWidth \in Nat \ {0}
  BY ScreenAssumption
<1>6. CASE c = "newline"
  <2>1. Move(s, c) = [cursor |-> << 0, y + 1 >>, ink |-> s.ink, glyph |-> NoGlyph, halted |-> s.halted]
    <3>1. Move(s, c) = [s EXCEPT !.cursor = << 0, y + 1 >>, !.glyph = NoGlyph]
      BY <1>1, <1>6 DEF Move
    <3> QED
      BY <1>2, <3>1
  <2> QED
    BY <1>1, <1>2, <1>4, <1>5, <2>1 DEF Screens, Cells, Reach
<1>7. CASE c = "tab"
  <2>1. Move(s, c) = [cursor |-> << Tabbed(x), y >>, ink |-> s.ink, glyph |-> NoGlyph, halted |-> s.halted]
    <3>1. Move(s, c) = [s EXCEPT !.cursor = << Tabbed(x), y >>, !.glyph = NoGlyph]
      BY <1>1, <1>7 DEF Move
    <3> QED
      BY <1>2, <3>1
  <2> QED
    BY <1>1, <1>2, <1>3, <1>4, <1>5, <2>1 DEF Screens, Cells, Reach
<1>8. ASSUME NEW u \in Nat, NEW v \in Nat, NEW d \in Chars \cup {"space"},
             Move(s, c) = Show(s, << u, v >>, d),
             << x, y >> \in Cells => << u, v >> \in Cells
      PROVE  /\ Move(s, c) \in Screens
             /\ Move(s, c).ink = s.ink /\ Move(s, c).halted = s.halted
             /\ s.cursor \in Cells => Move(s, c).cursor \in Reach
  <2>1. Move(s, c) = [cursor |-> << u + 1, v >>, ink |-> s.ink, halted |-> s.halted,
                      glyph |-> [at |-> << u, v >>, char |-> d]]
    BY <1>2, <1>8 DEF Show
  <2>2. [at |-> << u, v >>, char |-> d] \in Glyphs
    BY DEF Glyphs
  <2> QED
    BY <1>1, <1>2, <1>5, <1>8, <2>1, <2>2 DEF Screens, Cells, Reach
<1>9. CASE c = "backspace"
  <2>1. PICK u \in Nat, v \in Nat : Back(<< x, y >>) = << u, v >>
    BY BackCell
  <2>2. Move(s, c) = Show(s, << u, v >>, "space")
    BY <1>1, <1>9, <2>1 DEF Move
  <2> QED
    BY <1>8, <2>1, <2>2, BackCell
<1>10. CASE c \notin {"newline", "tab", "backspace"}
  <2>1. Move(s, c) = Show(s, << x, y >>, c)
    BY <1>1, <1>10 DEF Move
  <2> QED
    BY <1>8, <2>1
<1> QED
  BY <1>6, <1>7, <1>9, <1>10

\* A move forgets nothing that was drawn: it goes on, or back to the cell where the
\* cursor was before, and the glyph is drawn there.
LEMMA MoveOrderly ==
    ASSUME NEW s \in Screens, NEW c \in Chars, s.cursor \in Cells, Behind(s)
    PROVE  Behind(Move(s, c)) /\ Drawable(Move(s, c))
<1>1. PICK x \in 0 .. (Cols - 1), y \in 0 .. (Rows - 1) : s.cursor = << x, y >>
  BY DEF Cells
<1>2. s = [cursor |-> << x, y >>, ink |-> s.ink, glyph |-> s.glyph, halted |-> s.halted]
  BY <1>1 DEF Screens
<1>3. Cols \in Nat \ {0} /\ Rows \in Nat \ {0} /\ TabWidth \in Nat \ {0}
  BY ScreenAssumption
<1>4. \A d \in s.ink : /\ d[1] \in 0 .. (Cols - 1) /\ d[2] \in 0 .. (Rows - 1)
                       /\ d[2] < y \/ (d[2] = y /\ d[1] < x)
  BY <1>1 DEF Screens, Cells, Behind, Before
<1>5. CASE c = "newline"
  <2>1. Move(s, c) = [s EXCEPT !.cursor = << 0, y + 1 >>, !.glyph = NoGlyph]
    BY <1>1, <1>5 DEF Move
  <2>2. /\ Move(s, c).cursor = << 0, y + 1 >> /\ Move(s, c).ink = s.ink
        /\ Move(s, c).glyph.char = "none"
    BY <1>2, <2>1 DEF NoGlyph
  <2> QED
    BY <1>4, <2>2 DEF Behind, Before, Drawable
<1>6. CASE c = "tab"
  <2>1. Move(s, c) = [s EXCEPT !.cursor = << Tabbed(x), y >>, !.glyph = NoGlyph]
    BY <1>1, <1>6 DEF Move
  <2>2. /\ Move(s, c).cursor = << Tabbed(x), y >> /\ Move(s, c).ink = s.ink
        /\ Move(s, c).glyph.char = "none"
    BY <1>2, <2>1 DEF NoGlyph
  <2>3. Tabbed(x) \in Nat /\ x < Tabbed(x)
    BY TabStop
  <2> QED
    BY <1>4, <2>2, <2>3 DEF Behind, Before, Drawable
<1>7. ASSUME NEW u \in 0 .. (Cols - 1), NEW v \in 0 .. (Rows - 1), NEW d,
             Move(s, c) = Show(s, << u, v >>, d),
             \A b \in s.ink : Before(b, << u + 1, v >>)
      PROVE  Behind(Move(s, c)) /\ Drawable(Move(s, c))
  <2>1. Move(s, c) = [cursor |-> << u + 1, v >>, ink |-> s.ink, halted |-> s.halted,
                      glyph |-> [at |-> << u, v >>, char |-> d]]
    BY <1>2, <1>7 DEF Show
  <2>2. Behind(Move(s, c))
    BY <1>7, <2>1 DEF Behind
  <2>3. Drawable(Move(s, c))
    BY <1>3, <2>1 DEF Drawable, OnScreen, Before
  <2> QED
    BY <2>2, <2>3
<1>8. CASE c = "backspace"
  <2>1. Move(s, c) = Show(s, Back(<< x, y >>), "space")
    BY <1>1, <1>8 DEF Move
  <2>2. CASE x > 0
    <3> DEFINE u == x - 1
    <3>1. Move(s, c) = Show(s, << u, y >>, "space")
      BY <2>1, <2>2 DEF Back
    <3>2. u \in 0 .. (Cols - 1)
      BY <1>3, <2>2
    <3>3. \A b \in s.ink : Before(b, << u + 1, y >>)
      BY <1>3, <1>4, <2>2 DEF Before
    <3> HIDE DEF u
    <3> QED
      BY <1>7, <3>1, <3>2, <3>3
  <2>3. CASE x = 0 /\ y > 0
    <3>1. Back(<< x, y >>) = << Cols - 1, y - 1 >>
      BY <2>3 DEF Back
    <3>2. Cols - 1 \in 0 .. (Cols - 1) /\ y - 1 \in 0 .. (Rows - 1)
      BY <1>3, <2>3
    <3>3. \A b \in s.ink : Before(b, << (Cols - 1) + 1, y - 1 >>)
      BY <1>3, <1>4, <2>3 DEF Before
    <3> QED
      BY <1>7, <2>1, <3>1, <3>2, <3>3
  <2>4. CASE x = 0 /\ y = 0
    <3>1. Back(<< x, y >>) = << x, y >>
      BY <2>4 DEF Back
    <3>2. \A b \in s.ink : Before(b, << x + 1, y >>)
      BY <1>3, <1>4 DEF Before
    <3> QED
      BY <1>7, <2>1, <3>1, <3>2
  <2> QED
    BY <2>2, <2>3, <2>4
<1>9. CASE c \notin {"newline", "tab", "backspace"}
  <2>1. Move(s, c) = Show(s, << x, y >>, c)
    BY <1>1, <1>9 DEF Move
  <2>2. \A b \in s.ink : Before(b, << x + 1, y >>)
    BY <1>3, <1>4 DEF Before
  <2> QED
    BY <1>7, <2>1, <2>2
<1> QED
  BY <1>5, <1>6, <1>8, <1>9

\* Ink goes to cells of the screen alone.
LEMMA DrawCell ==
    ASSUME NEW s \in Screens
    PROVE  /\ DrawGlyph(s) \in Screens
           /\ DrawGlyph(s).cursor = s.cursor /\ DrawGlyph(s).glyph = s.glyph
<1>1. PICK u \in Nat, v \in Nat : s.glyph.at = << u, v >>
  BY DEF Screens, Glyphs
<1>2. CASE DrawGlyph(s) = s
  BY <1>2
<1>3. CASE DrawGlyph(s) = [s EXCEPT !.halted = TRUE]
  BY <1>3 DEF Screens
<1>4. CASE OnScreen(s.glyph.at) /\ DrawGlyph(s) = [s EXCEPT !.ink = @ \cup {s.glyph.at}]
  <2>1. s.glyph.at \in Cells
    BY <1>1, <1>4, ScreenAssumption DEF OnScreen, Cells
  <2> QED
    BY <1>4, <2>1 DEF Screens
<1> QED
  BY <1>2, <1>3, <1>4 DEF DrawGlyph

\* A glyph that is behind the cursor and on the screen is drawn without harm.
LEMMA DrawOrderly ==
    ASSUME NEW s \in Screens, Behind(s), Drawable(s)
    PROVE  Behind(DrawGlyph(s)) /\ DrawGlyph(s).halted = s.halted
<1>1. CASE DrawGlyph(s) = s
  BY <1>1
<1>2. CASE DrawGlyph(s) # s
  <2>1. DrawGlyph(s) = [s EXCEPT !.ink = @ \cup {s.glyph.at}] /\ Before(s.glyph.at, s.cursor)
    BY <1>2 DEF DrawGlyph, Drawable
  <2>2. /\ DrawGlyph(s).ink = s.ink \cup {s.glyph.at} /\ DrawGlyph(s).cursor = s.cursor
        /\ DrawGlyph(s).halted = s.halted
    BY <2>1 DEF Screens
  <2> QED
    BY <2>1, <2>2 DEF Behind
<1> QED
  BY <1>1, <1>2

\* Whatever the cursor, it ends on a cell.
LEMMA WrapCell ==
    ASSUME NEW s \in Screens
    PROVE  Wrap(s) \in Screens /\ Wrap(s).cursor \in Cells /\ Wrap(s).halted = s.halted
<1>1. PICK x \in Nat, y \in Nat : s.cursor = << x, y >>
  BY DEF Screens
<1>2. Cols \in Nat \ {0} /\ Rows \in Nat \ {0}
  BY ScreenAssumption
<1> DEFINE at == IF x >= Cols THEN << 0, y + 1 >> ELSE << x, y >>
           below == at[2] >= Rows
           to == IF below THEN << at[1], Rows - 1 >> ELSE at
           left == IF below THEN {c \in s.ink : c[2] # Rows - 1} ELSE s.ink
<1>3. Wrap(s) = [s EXCEPT !.glyph = NoGlyph, !.cursor = to, !.ink = left]
  BY <1>1 DEF Wrap
<1>4. to \in Cells
  BY <1>1, <1>2 DEF Cells
<1>5. left \in SUBSET Cells /\ NoGlyph \in Glyphs
  BY DEF Screens, NoGlyph, Glyphs
<1>6. Cells \subseteq Nat \X Nat
  BY <1>2 DEF Cells
<1> HIDE DEF to, left
<1> QED
  BY <1>3, <1>4, <1>5, <1>6 DEF Screens

\* The row to which the cursor goes is blank from the cursor on.
LEMMA WrapOrderly ==
    ASSUME NEW s \in Screens, Behind(s), s.cursor \in Reach
    PROVE  Behind(Wrap(s))
<1>1. PICK x \in Nat, y \in 0 .. Rows : s.cursor = << x, y >>
  BY DEF Reach
<1>2. Cols \in Nat \ {0} /\ Rows \in Nat \ {0}
  BY ScreenAssumption
<1>3. \A d \in s.ink : /\ d[1] \in 0 .. (Cols - 1) /\ d[2] \in 0 .. (Rows - 1)
                       /\ d[2] < y \/ (d[2] = y /\ d[1] < x)
  BY <1>1 DEF Screens, Cells, Behind, Before
<1> DEFINE at == IF x >= Cols THEN << 0, y + 1 >> ELSE << x, y >>
           below == at[2] >= Rows
           to == IF below THEN << at[1], Rows - 1 >> ELSE at
           left == IF below THEN {c \in s.ink : c[2] # Rows - 1} ELSE s.ink
<1>4. Wrap(s) = [s EXCEPT !.glyph = NoGlyph, !.cursor = to, !.ink = left]
  BY <1>1 DEF Wrap
<1>5. \A c \in left : Before(c, to)
  BY <1>2, <1>3 DEF Before
<1> HIDE DEF to, left
<1>6. Wrap(s).cursor = to /\ Wrap(s).ink = left
  BY <1>4 DEF Screens
<1> QED
  BY <1>5, <1>6 DEF Behind

\* A whole character puts the cursor on a cell wherever it was.
LEMMA PrintedCell ==
    ASSUME NEW s \in Screens, NEW c \in Chars
    PROVE  Printed(s, c) \in Screens /\ Printed(s, c).cursor \in Cells
  BY MoveCursor, DrawCell, WrapCell DEF Printed

\* A whole character, printed from where the last one ended.
LEMMA PrintedOrderly ==
    ASSUME NEW s \in Screens, NEW c \in Chars, s.cursor \in Cells, Behind(s)
    PROVE  Behind(Printed(s, c)) /\ Printed(s, c).halted = s.halted
<1>1. /\ Move(s, c) \in Screens /\ Move(s, c).cursor \in Reach /\ Move(s, c).halted = s.halted
      /\ Behind(Move(s, c)) /\ Drawable(Move(s, c))
  BY MoveCursor, MoveOrderly
<1> DEFINE drawn == DrawGlyph(Move(s, c))
<1>2. /\ drawn \in Screens /\ drawn.cursor \in Reach /\ drawn.halted = s.halted /\ Behind(drawn)
  BY <1>1, DrawCell, DrawOrderly
<1> HIDE DEF drawn
<1>3. Behind(Wrap(drawn)) /\ Wrap(drawn).halted = s.halted
  BY <1>2, WrapCell, WrapOrderly
<1> QED
  BY <1>3 DEF Printed, drawn

-------------------------------------------------------------------------------
(***************************************************************************)
(* The invariants are inductive                                            *)
(***************************************************************************)

\* What Install does.
LEMMA Installed ==
    ASSUME NEW s \in Screens, Install(s)
    PROVE  Screen' = s /\ cursor' = s.cursor
  BY DEF Install, Screens, Screen

\* The screen after a character of the handler.
LEMMA HandlerStep ==
    ASSUME Types, HandlerPrints
    PROVE  \E c \in Chars :
               LET s == [Printed(Screen, c) EXCEPT !.glyph = glyph]
               IN  /\ s \in Screens /\ Screen' = s
                   /\ cursor' = Printed(Screen, c).cursor /\ cursor' \in Cells
                   /\ ink' = Printed(Screen, c).ink /\ halted' = Printed(Screen, c).halted
<1> DEFINE c == Head(message)
           p == Printed(Screen, c)
           s == [p EXCEPT !.glyph = glyph]
<1>1. c \in Chars
  BY DEF Types, HandlerPrints
<1>2. p \in Screens /\ p.cursor \in Cells
  BY <1>1, PrintedCell DEF Types
<1>3. glyph \in Glyphs
  BY DEF Types, Screens, Screen
<1>4. Install(s)
  BY DEF HandlerPrints
<1> HIDE DEF p, c
<1>5. s \in Screens /\ s.cursor = p.cursor /\ s.ink = p.ink /\ s.halted = p.halted
  BY <1>2, <1>3 DEF Screens
<1>6. Screen' = s /\ cursor' = p.cursor /\ ink' = p.ink /\ halted' = p.halted
  BY <1>4, <1>5, Installed DEF Install
<1> QED
  BY <1>1, <1>2, <1>5, <1>6 DEF p

\* The blank screen at the start.
LEMMA InitTypes == Init => Types /\ Orderly
<1> SUFFICES ASSUME Init PROVE Types /\ Orderly
  OBVIOUS
<1>1. Cols \in Nat \ {0} /\ Rows \in Nat \ {0} /\ TabWidth \in Nat \ {0}
  BY ScreenAssumption
<1>2. Screen \in Screens
  BY DEF Init, Screen, Screens, NoGlyph, Glyphs
<1>3. cursor \in Reach /\ cursor \in Cells
  BY <1>1 DEF Init, Reach, Cells
<1>4. message \in Seq(Chars)
  BY DEF Init
<1>5. Types
  BY <1>2, <1>3, <1>4 DEF Init, Types
<1>6. Orderly
  BY DEF Init, Orderly, Behind, Screen
<1> QED
  BY <1>5, <1>6

\* Every step keeps the types, whoever interrupts whom.
LEMMA TypesStep == Types /\ [Next]_vars => Types'
<1> SUFFICES ASSUME Types, [Next]_vars PROVE Types'
  OBVIOUS
<1>1. Cells \subseteq Reach /\ Screen.cursor = cursor
  BY ScreenAssumption DEF Cells, Reach, Screen
<1>2. CASE UNCHANGED vars
  BY <1>2 DEF vars, Types, Screen
<1>3. CASE \E c \in Chars : PrintMove(c)
  <2>1. PICK c \in Chars : PrintMove(c)
    BY <1>3
  <2>2. Move(Screen, c) \in Screens /\ Move(Screen, c).cursor \in Reach
    BY <1>1, <2>1, MoveCursor DEF PrintMove, Types
  <2> QED
    BY <2>1, <2>2, Installed DEF PrintMove, Uninterrupted, Types
<1>4. CASE PrintDraw
  <2>1. DrawGlyph(Screen) \in Screens /\ DrawGlyph(Screen).cursor = cursor
    BY <1>1, DrawCell DEF Types
  <2> QED
    BY <1>4, <2>1, Installed DEF PrintDraw, Uninterrupted, Types
<1>5. CASE PrintWrap
  <2>1. Wrap(Screen) \in Screens /\ Wrap(Screen).cursor \in Cells
    BY WrapCell DEF Types
  <2> QED
    BY <1>1, <1>5, <2>1, Installed DEF PrintWrap, Uninterrupted, Types
<1>6. CASE Reset
  <2>1. << 0, 0 >> \in Cells
    BY ScreenAssumption DEF Cells
  <2>2. Screen' = [cursor |-> << 0, 0 >>, ink |-> {}, glyph |-> glyph, halted |-> halted]
    BY <1>6 DEF Reset, Screen
  <2>3. glyph \in Glyphs /\ halted \in BOOLEAN
    BY DEF Types, Screen, Screens
  <2>4. Screen' \in Screens
    BY <2>2, <2>3 DEF Screens
  <2> QED
    BY <1>1, <1>6, <2>1, <2>4 DEF Reset, Uninterrupted, Types
<1>7. CASE UnknownIRQ
  BY <1>7, ScreenAssumption DEF UnknownIRQ, Types, Screen
<1>8. CASE HandlerPrints
  <2>1. Screen' \in Screens /\ cursor' \in Cells
    BY <1>8, HandlerStep
  <2>2. message' \in Seq(Chars) /\ phase' = phase
    BY <1>8 DEF HandlerPrints, Types
  <2> QED
    BY <1>1, <2>1, <2>2 DEF Types
<1> QED
  BY <1>2, <1>3, <1>4, <1>5, <1>6, <1>7, <1>8 DEF Next

\* As long as nobody interrupts print, every step leaves the console in order.
LEMMA OrderlyStep ==
    ASSUME Preemptive = FALSE
    PROVE  Types /\ Orderly /\ [Next]_vars => Orderly'
<1> SUFFICES ASSUME Types, Orderly, [Next]_vars PROVE Orderly'
  OBVIOUS
<1>1. /\ Screen \in Screens /\ Screen.cursor = cursor /\ Screen.ink = ink
      /\ Screen.halted = halted /\ halted = FALSE
  BY DEF Types, Orderly, Screen, Screens
<1>2. Screen'.halted = halted'
  BY DEF Screen
<1>3. CASE UNCHANGED vars
  BY <1>3 DEF vars, Orderly, Behind, Drawable, Screen
<1>4. CASE \E c \in Chars : PrintMove(c)
  <2>1. PICK c \in Chars : PrintMove(c)
    BY <1>4
  <2> DEFINE s == Move(Screen, c)
  <2>2. s \in Screens /\ s.halted = halted /\ Behind(s) /\ Drawable(s)
    BY <1>1, <2>1, MoveCursor, MoveOrderly DEF PrintMove, Types, Orderly
  <2>3. Install(s) /\ message' = << >>
    BY <2>1 DEF PrintMove, Uninterrupted
  <2> HIDE DEF s
  <2>4. Screen' = s
    BY <2>2, <2>3, Installed
  <2> QED
    BY <1>1, <1>2, <2>2, <2>3, <2>4 DEF Orderly, Behind, Drawable
<1>5. CASE PrintDraw
  <2> DEFINE s == DrawGlyph(Screen)
  <2>1. s \in Screens /\ s.halted = halted /\ Behind(s)
    BY <1>1, <1>5, DrawCell, DrawOrderly DEF PrintDraw, Orderly
  <2>2. Install(s) /\ message' = << >> /\ phase' = "wrap"
    BY <1>5 DEF PrintDraw, Uninterrupted
  <2> HIDE DEF s
  <2>3. Screen' = s
    BY <2>1, <2>2, Installed
  <2> QED
    BY <1>1, <1>2, <2>1, <2>2, <2>3 DEF Orderly, Behind
<1>6. CASE PrintWrap
  <2> DEFINE s == Wrap(Screen)
  <2>1. s \in Screens /\ s.halted = halted /\ Behind(s)
    BY <1>1, WrapCell, WrapOrderly DEF Types, Orderly
  <2>2. Install(s) /\ message' = << >> /\ phase' = "idle"
    BY <1>6 DEF PrintWrap, Uninterrupted
  <2> HIDE DEF s
  <2>3. Screen' = s
    BY <2>1, <2>2, Installed
  <2> QED
    BY <1>1, <1>2, <2>1, <2>2, <2>3 DEF Orderly, Behind
<1>7. CASE Reset
  BY <1>7 DEF Reset, Uninterrupted, Orderly, Behind, Screen
<1>8. CASE UnknownIRQ
  BY <1>8 DEF UnknownIRQ, Orderly, Behind, Drawable, Screen
<1>9. CASE HandlerPrints
  <2>1. phase = "idle" /\ phase' = "idle" /\ cursor \in Cells
    BY <1>9 DEF HandlerPrints, Orderly, Types
  <2>2. PICK c \in Chars : /\ cursor' = Printed(Screen, c).cursor
                          /\ ink' = Printed(Screen, c).ink /\ halted' = Printed(Screen, c).halted
    BY <1>9, HandlerStep
  <2>3. Behind(Printed(Screen, c)) /\ Printed(Screen, c).halted = halted
    BY <1>1, <2>1, PrintedOrderly DEF Orderly
  <2>4. Behind(Screen)'
    BY <2>2, <2>3 DEF Behind, Screen
  <2> QED
    BY <1>1, <2>1, <2>2, <2>3, <2>4 DEF Orderly
<1> QED
  BY <1>3, <1>4, <1>5, <1>6, <1>7, <1>8, <1>9 DEF Next

-------------------------------------------------------------------------------
(***************************************************************************)
(* What the runs check, for every screen                                   *)
(***************************************************************************)

\* The cursor stays within a tab stop of the screen and ink on it, also when
\* isr_handler prints in the middle of print.
THEOREM TypeCorrect == Spec => []TypeOK
<1>1. Types => TypeOK
  <2> SUFFICES ASSUME Types PROVE TypeOK
    OBVIOUS
  <2>1. ink \in SUBSET Cells /\ glyph \in Glyphs /\ halted \in BOOLEAN
    BY DEF Types, Screens, Screen
  <2>2. glyph.char \in Chars \cup {"none", "space"}
    BY <2>1 DEF Glyphs
  <2> QED
    BY <2>1, <2>2 DEF Types, TypeOK, Reach, Cells
<1> QED
  BY InitTypes, TypesStep, <1>1, PTL DEF Spec

\* When nobody interrupts print, both invariants hold.
LEMMA Invariance ==
    ASSUME Preemptive = FALSE
    PROVE  Spec => [](Types /\ Orderly)
<1>1. Types /\ Orderly /\ [Next]_vars => (Types /\ Orderly)'
  BY TypesStep, OrderlyStep
<1> QED
  BY InitTypes, <1>1, PTL DEF Spec

\* When nobody interrupts print, no cell from the cursor on has ink, so that no glyph
\* lands on another.
THEOREM NeverOverprints ==
    ASSUME Preemptive = FALSE
    PROVE  Spec => []AheadIsBlank
<1>1. Types /\ Orderly => AheadIsBlank
  BY DEF Orderly, Behind, Screen, AheadIsBlank
<1> QED
  BY Invariance, <1>1, PTL

\* When nobody interrupts print, drawPixel's assertion never fails.
THEOREM AssertionHolds ==
    ASSUME Preemptive = FALSE
    PROVE  Spec => []DrawsOnScreen
<1>1. Types /\ Orderly => DrawsOnScreen
  BY DEF Orderly, DrawsOnScreen
<1> QED
  BY Invariance, <1>1, PTL

===============================================================================
