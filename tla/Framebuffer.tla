---------------------------- MODULE Framebuffer ----------------------------
(***************************************************************************)
(* The cursor of the text screen, src/framebuffer.c. The hardware keeps it *)
(* as one position; rows and columns pass through 8 bit variables. The     *)
(* cells of the screen are written and never read, always at the cursor or *)
(* at the place the cursor moves to, so they are not modelled.             *)
(***************************************************************************)
EXTENDS Naturals

CONSTANTS
    Rows,       \* 25, the rows that are shown
    Cols,       \* 80, the columns of a row
    Byte        \* 256, the range of an 8 bit variable

ASSUME ScreenAssumption ==
    /\ Rows \in Nat /\ Cols \in Nat /\ Byte \in Nat
    /\ 0 < Rows /\ Rows < Byte
    /\ 1 < Cols /\ Cols < Byte

\* Every position that framebuffer_set_cursor() can set.
Positions == 0 .. (((Byte - 1) * Cols) + (Byte - 1))

\* framebuffer_set_cursor(r, c)
SetCursor(r, c) == ((r % Byte) * Cols) + (c % Byte)

\* framebuffer_get_cursor()
RowOf(p) == (p \div Cols) % Byte
ColOf(p) == p % Cols

\* The cursor after puts() of len characters at p.
AfterText(p, len) == SetCursor(RowOf(p), ColOf(p) + len)

\* The cursor after one character is echoed at p.
AfterEcho(p) ==
    IF ColOf(p) = Cols - 1
    THEN SetCursor(RowOf(p) + 1, 0)
    ELSE SetCursor(RowOf(p), ColOf(p) + 1)

\* The beginning of the next row.
NextRow(p) == SetCursor(RowOf(p) + 1, 0)

\* Mutant: the first column is not looked at.
BeforeEcho_SameRow(p) == SetCursor(RowOf(p), ColOf(p) + Byte - 1)

\* One character back, for backspace. Nothing is before the first row.
BeforeEcho(p) ==
    IF ColOf(p) # 0
    THEN SetCursor(RowOf(p), ColOf(p) - 1)
    ELSE IF RowOf(p) > 0 THEN SetCursor(RowOf(p) - 1, Cols - 1) ELSE p

\* The right arrow key: index is the length of the line.
RightOf(p, index) ==
    IF index > Cols - 1
    THEN CASE RowOf(p) < index \div Cols -> p
           [] RowOf(p) >= index \div Cols /\ ColOf(p) < Cols - 1 ->
                SetCursor(RowOf(p), ColOf(p) + 1)
           [] RowOf(p) >= index \div Cols /\ ColOf(p) = Cols - 1 ->
                IF RowOf(p) < Rows - 1 THEN NextRow(p) ELSE p
    ELSE SetCursor(RowOf(p), IF ColOf(p) < index THEN ColOf(p) + 1
                                                 ELSE ColOf(p))

\* The left arrow key.
LeftOf(p, index) ==
    IF index > Cols
    THEN BeforeEcho(p)
    ELSE SetCursor(RowOf(p), IF ColOf(p) > 0 THEN ColOf(p) - 1 ELSE 0)

\* The other two: the cursor is read and set again.
SameCursor(p) == SetCursor(RowOf(p), ColOf(p))

=============================================================================
