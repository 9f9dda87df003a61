-------------------------------- MODULE Vga --------------------------------
(***************************************************************************)
(* The kernel's VGA text driver (kernel/vga.c) as operators on a screen:   *)
(* the text memory at 0xB8000, the driver's vga_row and vga_col and the    *)
(* position last sent to the CRT controller.  Colour attributes are left   *)
(* out: no property is about them.                                         *)
(***************************************************************************)
EXTENDS Integers, Sequences

CONSTANTS
    Width, Height,             \* VGA_WIDTH, VGA_HEIGHT
    Glyphs, Blank,             \* what a cell can show; ' '
    Newline, Return, Backspace \* the control characters

ASSUME VgaAssumption ==
    /\ Width \in Nat \ {0} /\ Height \in Nat \ {0}
    /\ Blank \in Glyphs
    /\ {Newline, Return, Backspace} \cap Glyphs = {}
    /\ Newline # Return /\ Newline # Backspace /\ Return # Backspace

Rows  == 0 .. Height - 1
Cols  == 0 .. Width - 1
Texts == [Rows -> [Cols -> Glyphs]]
Chars == Glyphs \cup {Newline, Return, Backspace}

Screens == [row : Rows, col : Cols, text : Texts, cursor : Nat]

BlankText == [r \in Rows |-> [c \in Cols |-> Blank]]

\* update_cursor
UpdateCursor(s) == [s EXCEPT !.cursor = s.row * Width + s.col]

\* Mutant: the rows move up and the last one is not blanked.
ScrollNoBlank(s) ==
    [s EXCEPT !.text = [r \in Rows |-> IF r + 1 \in Rows THEN s.text[r + 1]
                                       ELSE s.text[r]],
              !.row = Height - 1]

\* scroll
Scroll(s) ==
    [s EXCEPT !.text = [r \in Rows |-> IF r + 1 \in Rows THEN s.text[r + 1]
                                       ELSE [c \in Cols |-> Blank]],
              !.row = Height - 1]

\* if (++vga_row == VGA_HEIGHT) scroll();
NextRow(s) ==
    IF s.row + 1 = Height THEN Scroll(s) ELSE [s EXCEPT !.row = @ + 1]

SetCell(s, r, c, g) == [s EXCEPT !.text[r][c] = g]

\* Mutant: '\b' at the left edge goes back to the end of the row above.
RuboutUp(s) ==
    IF s.col > 0
    THEN [SetCell(s, s.row, s.col - 1, Blank) EXCEPT !.col = @ - 1]
    ELSE IF s.row > 0
    THEN [SetCell(s, s.row - 1, Width - 1, Blank)
             EXCEPT !.row = @ - 1, !.col = Width - 1]
    ELSE s

\* '\b' blanks the cell to the left and never leaves the row.
Rubout(s) ==
    IF s.col > 0
    THEN [SetCell(s, s.row, s.col - 1, Blank) EXCEPT !.col = @ - 1]
    ELSE s

\* Any other character is stored; the position wraps at the right edge.
Store(s, g) ==
    LET t == SetCell(s, s.row, s.col, g)
    IN  IF s.col + 1 = Width THEN NextRow([t EXCEPT !.col = 0])
                             ELSE [t EXCEPT !.col = @ + 1]

\* vga_putchar
PutChar(s, ch) ==
    UpdateCursor(
        CASE ch = Newline   -> NextRow([s EXCEPT !.col = 0])
          [] ch = Return    -> [s EXCEPT !.col = 0]
          [] ch = Backspace -> Rubout(s)
          [] OTHER          -> Store(s, ch))

\* Whether putting ch moves the text up a row.
Scrolls(s, ch) ==
    /\ s.row + 1 = Height
    /\ ch = Newline \/ (ch \in Glyphs /\ s.col + 1 = Width)

\* vga_clear
ClearScreen(s) ==
    UpdateCursor([s EXCEPT !.text = BlankText, !.row = 0, !.col = 0])
============================================================================
