------------------------------- MODULE Terminal -------------------------------
(***************************************************************************)
(* The text screen: terminal_* and print of src/kernel.c.  A terminal is a *)
(* record of terminal_row, terminal_col and the cells of video memory that *)
(* are on the screen; the screen does not scroll, and what is written      *)
(* elsewhere only leaves the mark stray.  Colours are left out.            *)
(***************************************************************************)
EXTENDS Integers, Sequences

CONSTANTS Width,   \* VGA_WIDTH
          Height,  \* VGA_HEIGHT
          Word16   \* 2^16, where row and column wrap

ASSUME TerminalAssumption ==
    /\ Width \in Nat \ {0} /\ Height \in Nat \ {0}
    /\ Word16 \in Nat /\ Word16 > Width * Height

Screen == 0 .. Width * Height - 1

NewLine   == "newline"
Backspace == "backspace"
Blank     == "blank"

terminal_initialize == [row |-> 0, col |-> 0, cells |-> [k \in Screen |-> Blank], stray |-> FALSE]

(* Where the next character goes. *)
Cursor(t) == t.row * Width + t.col

terminal_putchar(t, c) ==
    IF Cursor(t) \in Screen THEN [t EXCEPT !.cells[Cursor(t)] = c]
                            ELSE [t EXCEPT !.stray = TRUE]

(* A terminal_writechar that wraps one column late. *)
WriteLateWrap(t, c) ==
    LET next == (t.col + 1) % Word16
        put  == terminal_putchar(t, c)
    IN  IF next > Width THEN [put EXCEPT !.col = 0, !.row = (@ + 1) % Word16]
                        ELSE [put EXCEPT !.col = next]

(* terminal_writechar of a character that is put on the screen. *)
WriteVisible(t, c) ==
    LET next == (t.col + 1) % Word16
        put  == terminal_putchar(t, c)
    IN  IF next >= Width THEN [put EXCEPT !.col = 0, !.row = (@ + 1) % Word16]
                         ELSE [put EXCEPT !.col = next]

(* A backspace that moves the cursor and leaves the character. *)
BackspaceKeeps(t) ==
    IF t.row = 0 /\ t.col = 0 THEN t ELSE [t EXCEPT !.col = (@ - 1) % Word16]

(* terminal_backspace: at the left margin it goes to the end of the line   *)
(* above, where writing the blank wraps, so that the last step back ends   *)
(* at column Word16 - 1 of the line it came from.                          *)
terminal_backspace(t) ==
    LET back == IF t.col = 0 THEN [t EXCEPT !.row = @ - 1, !.col = Width - 1]
                             ELSE [t EXCEPT !.col = @ - 1]
    IN  IF t.row = 0 /\ t.col = 0 THEN t
        ELSE [WriteVisible(back, Blank) EXCEPT !.col = (@ - 1) % Word16]

terminal_writechar(t, c) ==
    IF c = NewLine THEN [t EXCEPT !.row = (@ + 1) % Word16, !.col = 0]
    ELSE IF c = Backspace THEN terminal_backspace(t)
    ELSE WriteVisible(t, c)

print(t, str) ==
    LET after[k \in 0 .. Len(str)] ==
            IF k = 0 THEN t ELSE terminal_writechar(after[k - 1], str[k])
    IN  after[Len(str)]
===============================================================================
