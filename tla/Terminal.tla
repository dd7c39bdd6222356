------------------------------ MODULE Terminal ------------------------------
(***************************************************************************)
(* What the text screen shows: a grid of characters and a place in it that *)
(* is marked by the cursor or, between 0x91 and what is drawn next, is     *)
(* not.  Leaving a place that is not marked, or hiding the cursor again,   *)
(* loses the character there; showing the cursor twice leaves a block.     *)
(***************************************************************************)
EXTENDS Integers

CONSTANTS Rows, Cols, Blank, Block, Printable

VARIABLES grid, row, col, on

Move(r, c) == row' = r /\ col' = c /\ on' = TRUE
Stay == UNCHANGED <<row, col>>

With(ch) == [grid EXCEPT ![<<row, col>>] = ch]

\* What is left behind when the cursor is taken away.
Left == IF on THEN grid ELSE With(Blank)

\* The lines move up, and the last one is empty.
Scrolled(g) == [p \in (1 .. Rows) \X (1 .. Cols) |->
                  IF p[1] = Rows THEN Blank ELSE g[<<p[1] + 1, p[2]>>]]

Put(ch) ==
  \/ col < Cols /\ Move(row, col + 1) /\ grid' = With(ch)
  \/ col = Cols /\ row < Rows /\ Move(row + 1, 1) /\ grid' = With(ch)
  \/ col = Cols /\ row = Rows /\ Move(row, 1) /\ grid' = Scrolled(With(ch))

Newline ==
  \/ row < Rows /\ Move(row + 1, 1) /\ grid' = Left
  \/ row = Rows /\ Move(row, 1) /\ grid' = Scrolled(Left)

Backspace ==
  LET c == IF col = 1 THEN 1 ELSE col - 1
  IN  Move(row, c) /\ grid' = [Left EXCEPT ![<<row, c>>] = Blank]

\* An arrow at the edge changes nothing.
Arrow ==
  /\ \/ row > 1 /\ Move(row - 1, col)
     \/ row < Rows /\ Move(row + 1, col)
     \/ col > 1 /\ Move(row, col - 1)
     \/ col < Cols /\ Move(row, col + 1)
  /\ grid' = Left

Hide == on' = FALSE /\ Stay /\ grid' = Left
Show == on' = TRUE /\ Stay /\ grid' = IF on THEN With(Block) ELSE grid

Clear == Move(1, 1) /\ grid' = [p \in DOMAIN grid |-> Blank]

Init == /\ grid = [p \in (1 .. Rows) \X (1 .. Cols) |-> Blank]
        /\ row = 1 /\ col = 1 /\ on = TRUE

Next == (\E ch \in Printable : Put(ch)) \/ Newline \/ Backspace \/ Arrow \/ Hide \/ Show \/ Clear

Spec == Init /\ [][Next]_<<grid, row, col, on>>
=============================================================================
