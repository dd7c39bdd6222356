-------------------------------- MODULE Text --------------------------------
(***************************************************************************)
(* The text screen, device/vga/text.c.  Positions are pixels; what is on   *)
(* the screen is kept for the upper left pixel of each character.  The     *)
(* cursor is a block drawn over a character whose pixels are saved and put *)
(* back; a cursor that is hidden has nothing saved, and taking it away     *)
(* pastes the background.  textPutc runs under the console lock and is one *)
(* step.                                                                   *)
(***************************************************************************)
EXTENDS Integers

CONSTANTS
  XRes, YRes,      \* the resolution
  margin, spacing_x, spacing_y, character_size_x, character_size_y,
  Printable        \* characters with no meaning of their own

VARIABLES
  screen,               \* [position -> character]
  cursor_x, cursor_y,
  pixels_at_cursor,     \* the character under the cursor
  cursor_enabled

vars == <<screen, cursor_x, cursor_y, pixels_at_cursor, cursor_enabled>>

Blank == "blank"        \* a space, or pixels that were cleared
Block == "block"        \* character 219
StepX == spacing_x + character_size_x
StepY == spacing_y + character_size_y
LastLine(y) == y + character_size_y * 2 + spacing_y > YRes - margin
LastColumn(x) == x + character_size_x * 2 + spacing_x > XRes - margin

\* Every position a character could be drawn at, whether it fits or not.
Positions == {<<margin + i * StepX, margin + j * StepY>> :
                i \in 0 .. XRes \div StepX, j \in 0 .. YRes \div StepY}

\* A value t of [s, x, y, save, on] is the state between two calls.
State == [s |-> screen, x |-> cursor_x, y |-> cursor_y, save |-> pixels_at_cursor,
          on |-> cursor_enabled]

-----------------------------------------------------------------------------
(* Drawing.                                                                *)

textDrawCharAtCursor(t, ch) == [t EXCEPT !.s[<<t.x, t.y>>] = ch]

textDrawCursor(t) ==
  [textDrawCharAtCursor([t EXCEPT !.save = t.s[<<t.x, t.y>>]], Block) EXCEPT !.on = TRUE]

\* The saved pixels are put back and forgotten.
textClearCursor(t) ==
  [t EXCEPT !.s[<<t.x, t.y>>] = t.save, !.save = Blank, !.on = FALSE]

textMoveCursor(t, x, y) == textDrawCursor([t EXCEPT !.x = x, !.y = y])

\* The lines move up, and the line of the cursor and the margin are cleared.
textMoveScreenUpOneLine(t) ==
  [t EXCEPT !.s = [p \in Positions |->
     IF p[2] >= t.y THEN Blank ELSE t.s[<<p[1], p[2] + StepY>>]]]

\* Mutant: the cursor is not taken away before it moves.
textNewlineOver(t) ==
  IF LastLine(t.y) THEN textMoveCursor(textMoveScreenUpOneLine(t), margin, t.y)
  ELSE textMoveCursor(t, margin, t.y + StepY)

textNewline(t) ==
  LET c == textClearCursor(t)
  IN  IF LastLine(c.y) THEN textMoveCursor(textMoveScreenUpOneLine(c), margin, c.y)
      ELSE textMoveCursor(c, margin, c.y + StepY)

textCursorUp(t) ==
  IF t.y = margin THEN t ELSE textMoveCursor(textClearCursor(t), t.x, t.y - StepY)

\* Mutant: one line too far.
textCursorDownOver(t) ==
  IF t.y + character_size_y > YRes - margin THEN t
  ELSE textMoveCursor(textClearCursor(t), t.x, t.y + StepY)

textCursorDown(t) ==
  IF LastLine(t.y) THEN t ELSE textMoveCursor(textClearCursor(t), t.x, t.y + StepY)

textCursorLeft(t) ==
  IF t.x = margin THEN t ELSE textMoveCursor(textClearCursor(t), t.x - StepX, t.y)

textCursorRight(t) ==
  IF LastColumn(t.x) THEN t ELSE textMoveCursor(textClearCursor(t), t.x + StepX, t.y)

textAdvanceCursorRight(t) ==
  IF LastLine(t.y) /\ LastColumn(t.x)
  THEN textMoveCursor(textMoveScreenUpOneLine(t), margin, t.y)
  ELSE IF LastColumn(t.x) THEN textMoveCursor(t, margin, t.y + StepY)
  ELSE textMoveCursor(t, t.x + StepX, t.y)

textClearCharAtCursor(t) ==
  textDrawCursor(textDrawCharAtCursor(textClearCursor(t), Blank))

textClearScreen(t) == [textClearCursor(t) EXCEPT !.s = [p \in Positions |-> Blank]]

Default(t, c) == textAdvanceCursorRight(textDrawCharAtCursor(textClearCursor(t), c))

-----------------------------------------------------------------------------
(* textPutc, one action for each case.                                     *)

Become(t) ==
  /\ screen' = t.s /\ cursor_x' = t.x /\ cursor_y' = t.y
  /\ pixels_at_cursor' = t.save /\ cursor_enabled' = t.on

PutChar == \E c \in Printable : Become(Default(State, c))
PutNewline == Become(textNewline(State))
PutBackspace == Become(textClearCharAtCursor(textCursorLeft(State)))
PutUp == Become(textCursorUp(State))
PutDown == Become(textCursorDown(State))
PutLeft == Become(textCursorLeft(State))
PutRight == Become(textCursorRight(State))
PutClear == Become(textMoveCursor(textClearScreen(State), 4, 4))

\* CURSOR_EN, 0x91, and CURSOR_DS, 0x92, of keyboard.h.
PutCursorEn == Become(textClearCursor(State))
PutCursorDs == Become(textDrawCursor(State))

\* initGraphics draws the cursor on the empty screen.
Init ==
  LET t == textMoveCursor([s |-> [p \in Positions |-> Blank], x |-> 4, y |-> 4,
                           save |-> Blank, on |-> TRUE], 4, 4)
  IN  /\ screen = t.s /\ cursor_x = t.x /\ cursor_y = t.y
      /\ pixels_at_cursor = t.save /\ cursor_enabled = t.on

\* Any character may follow any other: nothing tests cursor_enabled.
Next == \/ PutChar \/ PutNewline \/ PutBackspace \/ PutUp \/ PutDown \/ PutLeft
        \/ PutRight \/ PutClear \/ PutCursorEn \/ PutCursorDs

Spec == Init /\ [][Next]_vars

-----------------------------------------------------------------------------
(* Properties.                                                             *)

\* The character block at the cursor fits inside the margins, for a resolution
\* that is no multiple of a character as well.
InsideMargins ==
  /\ margin <= cursor_x /\ cursor_x + character_size_x <= XRes - margin
  /\ margin <= cursor_y /\ cursor_y + character_size_y <= YRes - margin

\* What the screen shows, for module Terminal: the text with the cursor over one
\* character.
Rows == (YRes - 2 * margin + spacing_y) \div StepY
Cols == (XRes - 2 * margin + spacing_x) \div StepX
Shown(p) == IF p = <<cursor_x, cursor_y>> /\ cursor_enabled THEN pixels_at_cursor ELSE screen[p]
Grid == [p \in (1 .. Rows) \X (1 .. Cols) |->
           Shown(<<margin + (p[2] - 1) * StepX, margin + (p[1] - 1) * StepY>>)]
Row == (cursor_y - margin) \div StepY + 1
Col == (cursor_x - margin) \div StepX + 1
=============================================================================
