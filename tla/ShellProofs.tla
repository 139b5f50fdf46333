----------------------------- MODULE ShellProofs -----------------------------
(***************************************************************************)
(* What holds of the terminal and of the line the shell reads, for every   *)
(* size of the screen and of the line: types, the column, that the screen  *)
(* shows the line, and that a program is started with its words.           *)
(***************************************************************************)
EXTENDS Shell, NatLemmas, FiniteSetTheorems

Shown == Letters \cup {Blank, "P", ">"}

Terminals == [row : 0 .. Word16 - 1, col : 0 .. Word16 - 1, cells : [Screen -> Shown],
              stray : BOOLEAN]

Area == Width * Height

(* The first position of the line of the cursor that is not written yet. *)
Reach(t) == t.row * Width + (IF t.col < Width THEN t.col ELSE 0)

(* Newlines of the shell since its last visible character, at most. *)
Newlines == IF pc = "read" THEN 0 ELSE IF pc = "prompt" THEN 2 ELSE 1

(* The row does not wrap while nothing is written to the screen. *)
RowsFit == Height + MaxOthers + 2 < Word16

-------------------------------------------------------------------------------
(* The inductive invariant. *)

(* Types, and that a cut up line ends where its array does. *)
ShellShapes ==
    /\ ShellTypeOK
    /\ terminal \in Terminals
    /\ scommand[BufSize] = NUL
    /\ others \in 0 .. MaxOthers

(* Only a backspace at the left margin leads out of the line, and then     *)
(* behind the end of the screen.                                           *)
ColumnOK(t) == t.col < Width \/ (~t.stray => Cursor(t) > Area)
ColumnInv ==
    /\ ColumnOK(terminal)
    /\ terminal.col < Width \/ (terminal.col = Word16 - 1 /\ "margin" \in spoilt)

ShapeInv == ShellShapes /\ ColumnInv

(* As long as all writing was to the screen, the cursor is not far below   *)
(* it ...                                                                  *)
RowInv == ~terminal.stray => terminal.row <= Height + others + Newlines

(* ... and the screen is blank behind it.                                  *)
BlankBehind(t) == \A k \in Screen : k >= Reach(t) => t.cells[k] = Blank
BlankInv == ~terminal.stray => BlankBehind(terminal)

(* The line stands on the screen. *)
LineInv ==
    pc = "read" /\ spoilt = {} /\ ~terminal.stray =>
        /\ Cursor(terminal) = origin + i
        /\ \A k \in 0 .. i - 1 : origin + k \in Screen /\ terminal.cells[origin + k] = out[k]

DisplayInv == origin \in Nat /\ RowInv /\ BlankInv /\ LineInv

-------------------------------------------------------------------------------
(* Arithmetic of the screen. *)

LEMMA ScreenSizes ==
    /\ Width \in Nat \ {0} /\ Height \in Nat \ {0} /\ Word16 \in Nat \ {0}
    /\ Area \in Nat /\ Area < Word16 /\ Width <= Area /\ Height <= Area
    /\ Screen = 0 .. Area - 1
<1>1. Width \in Nat \ {0} /\ Height \in Nat \ {0} /\ Word16 \in Nat /\ Area < Word16
  BY TerminalAssumption DEF Area
<1>2. Area \in Nat /\ Width <= Area /\ Height <= Area
  BY <1>1 DEF Area
<1> HIDE DEF Area
<1> QED
  BY <1>1, <1>2 DEF Screen, Area

(* One step up or down in 16 bits. *)
LEMMA Step16 ==
    ASSUME NEW x \in 0 .. Word16 - 1
    PROVE  /\ (x + 1) % Word16 = IF x + 1 = Word16 THEN 0 ELSE x + 1
           /\ (x - 1) % Word16 = IF x = 0 THEN Word16 - 1 ELSE x - 1
<1>1. Word16 \in Nat \ {0}
  BY ScreenSizes
<1>2. ASSUME NEW q \in Int, NEW r \in 0 .. Word16 - 1 PROVE (Word16 * q + r) % Word16 = r
  BY <1>1, ModUnique, Zenon
<1>3. Word16 * 0 = 0 /\ Word16 * 1 = Word16 /\ Word16 * (-1) = -Word16
  BY <1>1
<1>4. ASSUME NEW r \in 0 .. Word16 - 1
      PROVE  r % Word16 = r /\ (Word16 + r) % Word16 = r /\ (r - Word16) % Word16 = r
  <2>1. /\ (Word16 * 0 + r) % Word16 = r /\ (Word16 * 1 + r) % Word16 = r
        /\ (Word16 * (-1) + r) % Word16 = r
    BY <1>2
  <2>2. 0 + r = r /\ -Word16 + r = r - Word16
    BY <1>1
  <2> QED
    BY <1>3, <2>1, <2>2
<1>5. (x + 1) % Word16 = IF x + 1 = Word16 THEN 0 ELSE x + 1
  <2>1. CASE x + 1 = Word16
    <3>1. (Word16 + 0) % Word16 = 0 /\ Word16 + 0 = Word16
      BY <1>1, <1>4
    <3> QED
      BY <2>1, <3>1
  <2>2. CASE x + 1 # Word16
    <3>1. x + 1 \in 0 .. Word16 - 1
      BY <1>1, <2>2
    <3> QED
      BY <1>4, <2>2, <3>1
  <2> QED
    BY <2>1, <2>2
<1>6. (x - 1) % Word16 = IF x = 0 THEN Word16 - 1 ELSE x - 1
  <2>1. CASE x = 0
    <3>1. Word16 - 1 \in 0 .. Word16 - 1 /\ (Word16 - 1) - Word16 = -1 /\ x - 1 = -1
      BY <1>1, <2>1
    <3>2. ((Word16 - 1) - Word16) % Word16 = Word16 - 1
      BY <1>4, <3>1
    <3> QED
      BY <2>1, <3>1, <3>2
  <2>2. CASE x # 0
    <3>1. x - 1 \in 0 .. Word16 - 1
      BY <1>1, <2>2
    <3> QED
      BY <1>4, <2>2, <3>1
  <2> QED
    BY <2>1, <2>2
<1> QED
  BY <1>5, <1>6

LEMMA CursorOf ==
    ASSUME NEW t \in Terminals
    PROVE  /\ t.row \in 0 .. Word16 - 1 /\ t.col \in 0 .. Word16 - 1 /\ t.stray \in BOOLEAN
           /\ t.cells \in [Screen -> Shown]
           /\ t.row * Width \in Nat /\ Cursor(t) = t.row * Width + t.col
           /\ Cursor(t) \in Nat /\ Reach(t) \in Nat
           /\ Cursor(t) \in Screen <=> Cursor(t) < Area
           /\ t.row * Width < Area <=> t.row < Height
           /\ (t.row + 1) * Width = t.row * Width + Width
<1>1. /\ t.row \in 0 .. Word16 - 1 /\ t.col \in 0 .. Word16 - 1 /\ t.stray \in BOOLEAN
      /\ t.cells \in [Screen -> Shown]
  BY DEF Terminals
<1> DEFINE y == t.row
           x == y * Width
<1>2. y \in Nat /\ y \in Int /\ t.col \in Nat /\ Height \in Int /\ Width \in Nat \ {0}
  BY <1>1, ScreenSizes
<1>3. Width * y < Width * Height <=> y < Height
  BY <1>2, FactorOrder, Zenon
<1>4. x = Width * y /\ x \in Nat /\ (y + 1) * Width = x + Width
  <2> HIDE DEF y
  <2> QED
    BY <1>2
<1>5. x < Area <=> y < Height
  BY <1>3, <1>4 DEF Area
<1>6. Cursor(t) = x + t.col /\ Reach(t) = x + (IF t.col < Width THEN t.col ELSE 0)
  BY DEF Cursor, Reach
<1> HIDE DEF x
<1>7. Cursor(t) \in Nat /\ Reach(t) \in Nat
  BY <1>2, <1>4, <1>6
<1>8. Cursor(t) \in Screen <=> Cursor(t) < Area
  BY <1>7, ScreenSizes
<1> QED
  BY <1>1, <1>4, <1>5, <1>6, <1>7, <1>8 DEF x

-------------------------------------------------------------------------------
(* The characters of the terminal. *)

LEMMA PutChar ==
    ASSUME NEW t \in Terminals, NEW c \in Shown
    PROVE  LET p == terminal_putchar(t, c)
           IN  /\ p \in Terminals /\ p.row = t.row /\ p.col = t.col
               /\ ~p.stray => /\ ~t.stray /\ Cursor(t) \in Screen
                              /\ p.cells = [t.cells EXCEPT ![Cursor(t)] = c]
<1>1. CASE Cursor(t) \in Screen
  <2>1. terminal_putchar(t, c) = [t EXCEPT !.cells[Cursor(t)] = c]
    BY <1>1 DEF terminal_putchar
  <2> QED
    BY <1>1, <2>1 DEF Terminals
<1>2. CASE Cursor(t) \notin Screen
  <2>1. terminal_putchar(t, c) = [t EXCEPT !.stray = TRUE]
    BY <1>2 DEF terminal_putchar
  <2> QED
    BY <2>1 DEF Terminals
<1> QED
  BY <1>1, <1>2

LEMMA Visible ==
    ASSUME NEW t \in Terminals, NEW c \in Shown
    PROVE  LET r == WriteVisible(t, c)
           IN  /\ r \in Terminals /\ r.col < Width
               /\ t.col + 1 < Width => r.col = t.col + 1 /\ r.row = t.row
               /\ t.col + 1 = Width => r.col = 0 /\ r.row = (t.row + 1) % Word16
               /\ Width <= t.col /\ t.col + 1 < Word16 => r.col = 0
               /\ ~r.stray => /\ ~t.stray /\ Cursor(t) \in Screen
                              /\ r.cells = [t.cells EXCEPT ![Cursor(t)] = c]
<1> DEFINE p == terminal_putchar(t, c)
           next == (t.col + 1) % Word16
           r == WriteVisible(t, c)
           down == (t.row + 1) % Word16
<1>1. /\ p \in Terminals /\ p.row = t.row /\ p.col = t.col
      /\ ~p.stray => /\ ~t.stray /\ Cursor(t) \in Screen
                     /\ p.cells = [t.cells EXCEPT ![Cursor(t)] = c]
  BY PutChar
<1>2. r = IF next >= Width THEN [p EXCEPT !.col = 0, !.row = (@ + 1) % Word16]
                           ELSE [p EXCEPT !.col = next]
  BY DEF WriteVisible
<1>3. /\ next \in 0 .. Word16 - 1 /\ down \in 0 .. Word16 - 1 /\ 0 \in 0 .. Word16 - 1
      /\ t.col + 1 <= Width => next = t.col + 1
      /\ t.col + 1 < Word16 => next = t.col + 1
  <2>1. t.row \in 0 .. Word16 - 1 /\ t.col \in 0 .. Word16 - 1
    BY CursorOf
  <2>2. /\ next = IF t.col + 1 = Word16 THEN 0 ELSE t.col + 1
        /\ down = IF t.row + 1 = Word16 THEN 0 ELSE t.row + 1
    BY <2>1, Step16, Zenon
  <2> HIDE DEF next, down
  <2> QED
    BY <2>1, <2>2, ScreenSizes
<1> HIDE DEF p, next
<1>4. CASE next >= Width
  <2>1. r = [p EXCEPT !.col = 0, !.row = down]
    BY <1>1, <1>2, <1>4 DEF Terminals
  <2> HIDE DEF r, down
  <2>2. /\ r \in Terminals /\ r.col = 0 /\ r.row = down
        /\ r.cells = p.cells /\ r.stray = p.stray
    BY <1>1, <1>3, <2>1 DEF Terminals
  <2>3. ~(t.col + 1 < Width)
    BY <1>3, <1>4, CursorOf, ScreenSizes
  <2> QED
    BY <1>1, <2>2, <2>3, ScreenSizes DEF r, down
<1>5. CASE ~(next >= Width)
  <2>1. r = [p EXCEPT !.col = next]
    BY <1>2, <1>5
  <2> HIDE DEF r, down
  <2>2. /\ r \in Terminals /\ r.col = next /\ r.row = t.row
        /\ r.cells = p.cells /\ r.stray = p.stray
    BY <1>1, <1>3, <2>1 DEF Terminals
  <2>3. /\ t.col + 1 # Width /\ next < Width /\ (t.col + 1 < Width => next = t.col + 1)
        /\ ~(Width <= t.col /\ t.col + 1 < Word16)
    BY <1>3, <1>5, CursorOf, ScreenSizes
  <2> QED
    BY <1>1, <2>2, <2>3 DEF r
<1> QED
  BY <1>4, <1>5

(* Where a visible character leads, if it is on the screen. *)
LEMMA VisibleMoves ==
    ASSUME NEW t \in Terminals, NEW c \in Shown, t.col < Width, ~WriteVisible(t, c).stray
    PROVE  LET r == WriteVisible(t, c)
           IN  /\ Cursor(r) = Cursor(t) + 1 /\ r.row <= Height
               /\ BlankBehind(t) => BlankBehind(r)
<1> DEFINE r == WriteVisible(t, c)
           z == Cursor(t)
<1>1. /\ r \in Terminals /\ r.col < Width
      /\ t.col + 1 < Width => r.col = t.col + 1 /\ r.row = t.row
      /\ t.col + 1 = Width => r.col = 0 /\ r.row = (t.row + 1) % Word16
      /\ ~t.stray /\ z \in Screen /\ r.cells = [t.cells EXCEPT ![z] = c]
  BY Visible
<1> HIDE DEF r
<1>2. /\ z = t.row * Width + t.col /\ z < Area /\ t.row * Width \in Nat /\ t.col \in Nat
      /\ t.row \in 0 .. Word16 - 1 /\ t.row < Height
  <2>1. /\ z = t.row * Width + t.col /\ z < Area /\ t.row * Width \in Nat /\ t.col \in Nat
        /\ t.row \in 0 .. Word16 - 1 /\ (t.row * Width < Area <=> t.row < Height)
    BY <1>1, CursorOf
  <2> DEFINE x == t.row * Width
  <2>2. x < Area
    <3> HIDE DEF x
    <3>1. z = x + t.col /\ x \in Nat /\ z < Area /\ t.col \in Nat
      BY <2>1 DEF x
    <3> QED
      BY <3>1, ScreenSizes
  <2> QED
    BY <2>1, <2>2
<1>3. (t.row + 1) % Word16 = t.row + 1
  <2>1. (t.row + 1) % Word16 = IF t.row + 1 = Word16 THEN 0 ELSE t.row + 1
    BY <1>2, Step16, Zenon
  <2>2. t.row + 1 # Word16
    BY <1>2, ScreenSizes
  <2> QED
    BY <2>1, <2>2
<1>4. Cursor(r) = z + 1 /\ r.row <= Height
  <2>1. CASE t.col + 1 < Width
    <3> DEFINE x == t.row * Width
    <3>1. Cursor(r) = x + (t.col + 1) /\ r.row = t.row
      BY <1>1, <2>1 DEF Cursor
    <3>2. z = x + t.col /\ x \in Nat
      BY <1>2
    <3>3. t.col \in Nat /\ t.row \in Int /\ Height \in Int /\ t.row < Height
      BY <1>2, ScreenSizes
    <3> HIDE DEF x, z
    <3> QED
      BY <3>1, <3>2, <3>3
  <2>2. CASE t.col + 1 = Width
    <3> DEFINE x == t.row * Width
               y == (t.row + 1) * Width
    <3>1. y = x + Width /\ x \in Nat /\ z = x + t.col
      BY <1>2, CursorOf
    <3>2. Cursor(r) = y + 0
      BY <1>1, <1>3, <2>2 DEF Cursor
    <3>3. Cursor(r) = z + 1
      <4>1. t.col \in Nat /\ Width \in Nat
        BY <1>2, ScreenSizes
      <4> HIDE DEF x, y, z
      <4> QED
        BY <2>2, <3>1, <3>2, <4>1
    <3>4. r.row <= Height
      <4>1. r.row = t.row + 1 /\ t.row \in Int /\ Height \in Int /\ t.row < Height
        BY <1>1, <1>2, <1>3, <2>2, ScreenSizes
      <4> QED
        BY <4>1
    <3> QED
      BY <3>3, <3>4
  <2> QED
    BY <1>2, <2>1, <2>2, ScreenSizes
<1>5. ASSUME BlankBehind(t) PROVE BlankBehind(r)
  <2>1. Reach(r) = z + 1 /\ Reach(t) = z
    BY <1>1, <1>4 DEF Reach, Cursor
  <2>2. ASSUME NEW k \in Screen, k >= z + 1 PROVE r.cells[k] = Blank
    <3>1. k # z /\ k >= z
      BY <1>1, <2>2, ScreenSizes
    <3>2. t.cells[k] = Blank
      BY <1>5, <2>1, <3>1 DEF BlankBehind
    <3>3. t.cells \in [Screen -> Shown]
      BY CursorOf
    <3> QED
      BY <1>1, <3>1, <3>2, <3>3
  <2> QED
    BY <2>1, <2>2 DEF BlankBehind
<1> QED
  BY <1>4, <1>5 DEF r

LEMMA NewLineMoves ==
    ASSUME NEW t \in Terminals
    PROVE  LET r == terminal_writechar(t, NewLine)
           IN  /\ r \in Terminals /\ r.col = 0 /\ r.cells = t.cells /\ r.stray = t.stray
               /\ t.row + 1 < Word16 => /\ r.row = t.row + 1
                                        /\ BlankBehind(t) => BlankBehind(r)
<1> DEFINE r == terminal_writechar(t, NewLine)
           down == (t.row + 1) % Word16
<1>1. r = [t EXCEPT !.row = down, !.col = 0]
  BY DEF terminal_writechar, Terminals
<1>2. down = IF t.row + 1 = Word16 THEN 0 ELSE t.row + 1
  <2>1. t.row \in 0 .. Word16 - 1
    BY CursorOf
  <2> QED
    BY <2>1, Step16, Zenon
<1> HIDE DEF down, r
<1>3. t.row \in 0 .. Word16 - 1 /\ down \in 0 .. Word16 - 1 /\ 0 \in 0 .. Word16 - 1
  <2>1. t.row \in 0 .. Word16 - 1
    BY DEF Terminals
  <2> QED
    BY <1>2, <2>1, ScreenSizes
<1>4. /\ r \in Terminals /\ r.col = 0 /\ r.cells = t.cells /\ r.stray = t.stray /\ r.row = down
  BY <1>1, <1>3 DEF Terminals
<1>5. ASSUME t.row + 1 < Word16 PROVE r.row = t.row + 1
  BY <1>2, <1>3, <1>4, <1>5, ScreenSizes
<1>6. ASSUME t.row + 1 < Word16, BlankBehind(t) PROVE BlankBehind(r)
  <2> DEFINE x == t.row * Width
             y == (t.row + 1) * Width
  <2>1. y = x + Width /\ x \in Nat /\ t.col \in Nat
    BY CursorOf
  <2>2. Reach(r) = y + 0 /\ Reach(t) = x + (IF t.col < Width THEN t.col ELSE 0)
    BY <1>4, <1>5, <1>6, ScreenSizes DEF Reach
  <2> HIDE DEF x, y
  <2>3. Reach(r) >= Reach(t) /\ Reach(t) \in Nat /\ Reach(r) \in Nat
    BY <2>1, <2>2, ScreenSizes
  <2>4. ASSUME NEW k \in Screen, k >= Reach(r) PROVE k >= Reach(t)
    BY <2>3, <2>4, ScreenSizes
  <2> QED
    BY <1>4, <1>6, <2>4 DEF BlankBehind
<1> QED
  BY <1>4, <1>5, <1>6 DEF r

(* A backspace, at the left margin, inside the line and outside of it. *)
LEMMA BackspaceMoves ==
    ASSUME NEW t \in Terminals
    PROVE  LET b == terminal_backspace(t)
           IN  /\ b \in Terminals
               /\ ~b.stray => ~t.stray
               /\ 0 < t.col /\ t.col < Width =>
                      /\ b.col = t.col - 1 /\ b.row = t.row
                      /\ ~b.stray => /\ Cursor(t) - 1 \in Screen
                                     /\ b.cells = [t.cells EXCEPT ![Cursor(t) - 1] = Blank]
               /\ t.col = 0 =>
                      /\ b.row = t.row
                      /\ b.col = 0 \/ (b.row > 0 /\ b.col = Word16 - 1)
                      /\ ~b.stray => \A k \in Screen : t.cells[k] = Blank => b.cells[k] = Blank
               /\ ~(t.col < Width) /\ Cursor(t) > Area => b.stray
               /\ ~(t.col < Width) => b.col = Word16 - 1
<1> DEFINE b == terminal_backspace(t)
<1>1. CASE t.row = 0 /\ t.col = 0
  <2>1. b = t
    BY <1>1 DEF terminal_backspace
  <2> HIDE DEF b
  <2>2. t.col < Width /\ ~(0 < t.col)
    BY <1>1, ScreenSizes
  <2> QED
    BY <1>1, <2>1, <2>2 DEF b
<1>2. CASE ~(t.row = 0 /\ t.col = 0)
  <2> DEFINE back == IF t.col = 0 THEN [t EXCEPT !.row = @ - 1, !.col = Width - 1]
                                  ELSE [t EXCEPT !.col = @ - 1]
             w == WriteVisible(back, Blank)
             left == (w.col - 1) % Word16
  <2>1. b = [w EXCEPT !.col = (@ - 1) % Word16]
    BY <1>2 DEF terminal_backspace
  <2>2. /\ t.row \in 0 .. Word16 - 1 /\ t.col \in 0 .. Word16 - 1 /\ t.cells \in [Screen -> Shown]
        /\ t.stray \in BOOLEAN
    BY DEF Terminals
  <2>3. /\ back \in Terminals /\ back.cells = t.cells /\ back.stray = t.stray
        /\ t.col # 0 => back.row = t.row /\ back.col = t.col - 1
        /\ t.col = 0 => back.row = t.row - 1 /\ back.col = Width - 1 /\ t.row > 0
    <3>1. CASE t.col = 0
      <4>1. back = [t EXCEPT !.row = t.row - 1, !.col = Width - 1]
        BY <3>1
      <4>2. t.row - 1 \in 0 .. Word16 - 1 /\ Width - 1 \in 0 .. Word16 - 1 /\ t.row > 0
        BY <1>2, <2>2, <3>1, ScreenSizes
      <4> HIDE DEF back
      <4> QED
        BY <3>1, <4>1, <4>2 DEF Terminals
    <3>2. CASE t.col # 0
      <4>1. back = [t EXCEPT !.col = t.col - 1]
        BY <3>2
      <4>2. t.col - 1 \in 0 .. Word16 - 1
        BY <2>2, <3>2, ScreenSizes
      <4> HIDE DEF back
      <4> QED
        BY <3>2, <4>1, <4>2 DEF Terminals
    <3> QED
      BY <3>1, <3>2
  <2> HIDE DEF back
  <2>4. /\ w \in Terminals /\ w.col < Width
        /\ back.col + 1 < Width => w.col = back.col + 1 /\ w.row = back.row
        /\ back.col + 1 = Width => w.col = 0 /\ w.row = (back.row + 1) % Word16
        /\ Width <= back.col /\ back.col + 1 < Word16 => w.col = 0
        /\ ~w.stray => /\ ~back.stray /\ Cursor(back) \in Screen
                       /\ w.cells = [back.cells EXCEPT ![Cursor(back)] = Blank]
    <3>1. Blank \in Shown
      BY DEF Shown
    <3> QED
      BY <2>3, <3>1, Visible
  <2> HIDE DEF w
  <2>5. left = IF w.col = 0 THEN Word16 - 1 ELSE w.col - 1
    <3>1. w.col \in 0 .. Word16 - 1
      BY <2>4, CursorOf
    <3> QED
      BY <3>1, Step16, Zenon
  <2>6. b = [w EXCEPT !.col = left]
    BY <2>1, <2>4 DEF Terminals
  <2> HIDE DEF b, left
  <2>7. left \in 0 .. Word16 - 1
    <3>1. w.col \in 0 .. Word16 - 1
      BY <2>4 DEF Terminals
    <3> QED
      BY <2>5, <3>1, ScreenSizes
  <2>8. /\ b \in Terminals /\ b.col = left /\ b.row = w.row /\ b.cells = w.cells
        /\ b.stray = w.stray
    BY <2>4, <2>6, <2>7 DEF Terminals
  <2>9. ~b.stray => ~t.stray
    BY <2>3, <2>4, <2>8
  <2>10. ASSUME 0 < t.col, t.col < Width
         PROVE  /\ b.col = t.col - 1 /\ b.row = t.row
                /\ ~b.stray => /\ Cursor(t) - 1 \in Screen
                               /\ b.cells = [t.cells EXCEPT ![Cursor(t) - 1] = Blank]
    <3>1. back.col + 1 = t.col /\ back.row = t.row /\ t.col # 0
      BY <2>2, <2>3, <2>10, ScreenSizes
    <3>2. w.col = t.col /\ w.row = t.row
      BY <2>4, <2>10, <3>1
    <3>3. b.col = t.col - 1 /\ b.row = t.row
      BY <2>5, <2>8, <3>1, <3>2
    <3>4. Cursor(back) = Cursor(t) - 1
      <4> DEFINE x == t.row * Width
      <4>1. Cursor(back) = x + back.col /\ Cursor(t) = x + t.col /\ x \in Nat
        BY <3>1, CursorOf DEF Cursor
      <4> HIDE DEF x
      <4> QED
        BY <2>2, <2>3, <3>1, <4>1
    <3> QED
      BY <2>3, <2>4, <2>8, <3>3, <3>4
  <2>11. ASSUME t.col = 0
         PROVE  /\ b.row = t.row /\ b.row > 0 /\ b.col = Word16 - 1
                /\ ~b.stray => \A k \in Screen : t.cells[k] = Blank => b.cells[k] = Blank
    <3>1. back.col + 1 = Width /\ back.row + 1 = t.row /\ back.row \in 0 .. Word16 - 1 /\ t.row > 0
      <4>1. back.col = Width - 1 /\ back.row = t.row - 1 /\ t.row > 0
        BY <2>3, <2>11
      <4> QED
        BY <2>2, <4>1, ScreenSizes
    <3>2. (back.row + 1) % Word16 = t.row
      <4>1. (back.row + 1) % Word16 = IF back.row + 1 = Word16 THEN 0 ELSE back.row + 1
        BY <3>1, Step16, Zenon
      <4>2. t.row # Word16
        BY <2>2, ScreenSizes
      <4> QED
        BY <3>1, <4>1, <4>2
    <3>3. b.row = t.row /\ b.col = Word16 - 1
      BY <2>4, <2>5, <2>8, <3>1, <3>2
    <3>4. ~b.stray => \A k \in Screen : t.cells[k] = Blank => b.cells[k] = Blank
      BY <2>2, <2>3, <2>4, <2>8
    <3> QED
      BY <3>1, <3>3, <3>4
  <2>12. ASSUME ~(t.col < Width), Cursor(t) > Area PROVE b.stray
    <3>1. t.col # 0
      BY <2>12, ScreenSizes
    <3>2. Cursor(back) = Cursor(t) - 1
      <4> DEFINE x == t.row * Width
      <4>1. Cursor(back) = x + back.col /\ Cursor(t) = x + t.col /\ x \in Nat
        BY <2>3, <3>1, CursorOf DEF Cursor
      <4>2. back.col = t.col - 1 /\ t.col \in Int
        BY <2>2, <2>3, <3>1
      <4> HIDE DEF x
      <4> QED
        BY <4>1, <4>2
    <3>3. Cursor(back) \notin Screen
      <4>1. Cursor(t) \in Nat
        BY CursorOf
      <4> QED
        BY <2>12, <3>2, <4>1, ScreenSizes
    <3>4. w.stray \in BOOLEAN
      BY <2>4 DEF Terminals
    <3> QED
      BY <2>4, <2>8, <3>3, <3>4
  <2>13. ASSUME ~(t.col < Width) PROVE b.col = Word16 - 1
    <3>1. back.col = t.col - 1
      BY <2>2, <2>3, <2>13, ScreenSizes
    <3>2. w.col = 0
      BY <2>2, <2>4, <2>13, <3>1, ScreenSizes
    <3> QED
      BY <2>5, <2>8, <3>2
  <2> QED
    BY <2>8, <2>9, <2>10, <2>11, <2>12, <2>13 DEF b
<1> QED
  BY <1>1, <1>2

(* The characters as the invariant needs them. *)
LEMMA VisibleKeeps ==
    ASSUME NEW t \in Terminals, NEW c \in Shown, ColumnOK(t), ~t.stray => BlankBehind(t),
           ~WriteVisible(t, c).stray
    PROVE  LET r == WriteVisible(t, c)
           IN  /\ ~t.stray /\ Cursor(t) \in Screen /\ Cursor(r) = Cursor(t) + 1
               /\ r.row <= Height /\ BlankBehind(r)
               /\ r.cells = [t.cells EXCEPT ![Cursor(t)] = c]
<1> DEFINE r == WriteVisible(t, c)
<1>1. ~t.stray /\ Cursor(t) \in Screen /\ r.cells = [t.cells EXCEPT ![Cursor(t)] = c]
  BY Visible
<1>2. t.col < Width
  <2>1. Cursor(t) < Area /\ Cursor(t) \in Nat
    BY <1>1, CursorOf
  <2>2. ~(Cursor(t) > Area)
    BY <2>1, ScreenSizes
  <2> QED
    BY <1>1, <2>2 DEF ColumnOK
<1>3. Cursor(r) = Cursor(t) + 1 /\ r.row <= Height /\ (BlankBehind(t) => BlankBehind(r))
  BY <1>2, VisibleMoves
<1> HIDE DEF r
<1> QED
  BY <1>1, <1>3 DEF r

LEMMA BackspaceErases ==
    ASSUME NEW t \in Terminals, ColumnOK(t), ~t.stray => BlankBehind(t),
           ~terminal_backspace(t).stray
    PROVE  LET b == terminal_backspace(t)
           IN  /\ ~t.stray /\ b.row = t.row /\ BlankBehind(b)
               /\ t.col # 0 => /\ Cursor(b) = Cursor(t) - 1 /\ Cursor(t) - 1 \in Screen
                               /\ b.cells = [t.cells EXCEPT ![Cursor(t) - 1] = Blank]
<1> DEFINE b == terminal_backspace(t)
           z == Cursor(t) - 1
<1>1. /\ b \in Terminals
      /\ ~b.stray => ~t.stray
      /\ 0 < t.col /\ t.col < Width =>
             /\ b.col = t.col - 1 /\ b.row = t.row
             /\ ~b.stray => z \in Screen /\ b.cells = [t.cells EXCEPT ![z] = Blank]
      /\ t.col = 0 =>
             /\ b.row = t.row
             /\ b.col = 0 \/ (b.row > 0 /\ b.col = Word16 - 1)
             /\ ~b.stray => \A k \in Screen : t.cells[k] = Blank => b.cells[k] = Blank
      /\ ~(t.col < Width) /\ Cursor(t) > Area => b.stray
  BY BackspaceMoves
<1>2. ~b.stray
  OBVIOUS
<1> HIDE DEF b
<1>3. ~t.stray /\ BlankBehind(t) /\ t.col < Width
  BY <1>1, <1>2 DEF ColumnOK
<1>4. t.col \in Nat /\ t.cells \in [Screen -> Shown] /\ t.row \in Nat
  BY DEF Terminals
<1>5. CASE t.col = 0
  <2>1. Reach(b) = Reach(t)
    <3>1. ~(Word16 - 1 < Width) /\ 0 < Width
      BY ScreenSizes
    <3>2. (IF b.col < Width THEN b.col ELSE 0) = 0
      BY <1>1, <1>5, <3>1
    <3>3. (IF t.col < Width THEN t.col ELSE 0) = 0
      BY <1>5
    <3> QED
      BY <1>1, <1>5, <3>2, <3>3 DEF Reach
  <2>2. BlankBehind(b)
    BY <1>1, <1>2, <1>3, <1>5, <2>1 DEF BlankBehind
  <2> QED
    BY <1>1, <1>2, <1>3, <1>5, <2>2 DEF b
<1>6. CASE t.col # 0
  <2>1. 0 < t.col
    BY <1>4, <1>6
  <2>2. /\ b.col = t.col - 1 /\ b.row = t.row
        /\ z \in Screen /\ b.cells = [t.cells EXCEPT ![z] = Blank]
    BY <1>1, <1>2, <1>3, <2>1
  <2>3. Cursor(b) = z /\ Reach(b) = z /\ Reach(t) = z + 1
    <3> DEFINE x == t.row * Width
    <3>1. x \in Nat /\ Cursor(t) = x + t.col
      BY CursorOf
    <3>2. b.col < Width
      BY <1>3, <1>4, <2>2, ScreenSizes
    <3>3. Cursor(b) = x + b.col /\ Reach(b) = x + b.col /\ Reach(t) = x + t.col
      BY <1>3, <2>2, <3>2 DEF Cursor, Reach
    <3> HIDE DEF x
    <3> QED
      BY <1>4, <2>2, <3>1, <3>3
  <2>4. ASSUME NEW k \in Screen, k >= z PROVE b.cells[k] = Blank
    <3>1. CASE k = z
      BY <1>4, <2>2, <3>1
    <3>2. CASE k # z
      <4>1. k >= z + 1
        BY <2>2, <2>4, <3>2, ScreenSizes
      <4>2. t.cells[k] = Blank
        BY <1>3, <2>3, <4>1 DEF BlankBehind
      <4> QED
        BY <1>4, <2>2, <3>2, <4>2
    <3> QED
      BY <3>1, <3>2
  <2>5. BlankBehind(b)
    BY <2>3, <2>4 DEF BlankBehind
  <2> QED
    BY <1>3, <2>2, <2>3, <2>5 DEF b
<1> QED
  BY <1>5, <1>6

(* The column after a backspace. *)
LEMMA BackspaceColumn ==
    ASSUME NEW t \in Terminals, ColumnOK(t)
    PROVE  LET b == terminal_backspace(t)
           IN  /\ b \in Terminals /\ ColumnOK(b)
               /\ t.col < Width => b.col < Width \/ t.col = 0
               /\ b.col < Width \/ b.col = Word16 - 1
<1> DEFINE b == terminal_backspace(t)
<1>1. /\ b \in Terminals
      /\ ~b.stray => ~t.stray
      /\ 0 < t.col /\ t.col < Width => b.col = t.col - 1
      /\ t.col = 0 => b.col = 0 \/ (b.row > 0 /\ b.col = Word16 - 1)
      /\ ~(t.col < Width) /\ Cursor(t) > Area => b.stray
      /\ ~(t.col < Width) => b.col = Word16 - 1
  BY BackspaceMoves
<1> HIDE DEF b
<1>2. t.col \in Nat /\ b.row \in Nat
  BY <1>1 DEF Terminals
<1>3. CASE 0 < t.col /\ t.col < Width
  <2>1. b.col < Width
    BY <1>1, <1>2, <1>3, ScreenSizes
  <2> QED
    BY <1>1, <2>1 DEF ColumnOK, b
<1>4. CASE t.col = 0
  <2>1. ColumnOK(b)
    <3>1. CASE b.col = 0
      BY <3>1, ScreenSizes DEF ColumnOK
    <3>2. CASE b.row > 0 /\ b.col = Word16 - 1
      <4> DEFINE x == b.row * Width
      <4>1. Cursor(b) = x + b.col
        BY DEF Cursor
      <4>2. x \in Nat /\ x > 0
        BY <1>2, <3>2, ScreenSizes
      <4> HIDE DEF x
      <4>3. Cursor(b) > Area
        BY <3>2, <4>1, <4>2, ScreenSizes
      <4> QED
        BY <4>3 DEF ColumnOK
    <3> QED
      BY <1>1, <1>4, <3>1, <3>2
  <2>2. b.col < Width \/ b.col = Word16 - 1
    BY <1>1, <1>4, ScreenSizes
  <2> QED
    BY <1>1, <1>4, <2>1, <2>2 DEF b
<1>5. CASE ~(t.col < Width)
  <2>1. ~b.stray => b.stray
    BY <1>1, <1>5 DEF ColumnOK
  <2> QED
    BY <1>1, <1>5, <2>1 DEF ColumnOK, b
<1> QED
  BY <1>2, <1>3, <1>4, <1>5, ScreenSizes

-------------------------------------------------------------------------------
(* Printing strings. *)

Chars == Shown \cup {NewLine, Backspace}

LEMMA CharType ==
    ASSUME NEW t \in Terminals, NEW c \in Chars
    PROVE  terminal_writechar(t, c) \in Terminals
<1>1. CASE c = NewLine
  BY <1>1, NewLineMoves
<1>2. CASE c = Backspace
  <2>1. terminal_writechar(t, c) = terminal_backspace(t)
    BY <1>2 DEF terminal_writechar, NewLine, Backspace
  <2> QED
    BY <2>1, BackspaceMoves
<1>3. CASE c # NewLine /\ c # Backspace
  <2>1. terminal_writechar(t, c) = WriteVisible(t, c) /\ c \in Shown
    BY <1>3 DEF terminal_writechar, Chars
  <2> QED
    BY <2>1, Visible
<1> QED
  BY <1>1, <1>2, <1>3

LEMMA PrintChars ==
    ASSUME NEW t \in Terminals, NEW str \in Seq(Chars)
    PROVE  \E g \in [0 .. Len(str) -> Terminals] :
              /\ g[0] = t
              /\ \A k \in 1 .. Len(str) : g[k] = terminal_writechar(g[k - 1], str[k])
              /\ print(t, str) = g[Len(str)]
<1> DEFINE n == Len(str)
           Body(g) == [k \in 0 .. n |-> IF k = 0 THEN t ELSE terminal_writechar(g[k - 1], str[k])]
           after == CHOOSE g : g = Body(g)
           step == [x \in Terminals \X (1 .. n) |-> terminal_writechar(x[1], str[x[2]])]
<1>1. n \in Nat /\ \A k \in 1 .. n : str[k] \in Chars
  OBVIOUS
<1>2. print(t, str) = after[n]
  BY DEF print
<1> HIDE DEF n
<1>3. PICK g : LoopValues(g, n, Terminals, t, step)
  <2>1. step \in [Terminals \X (1 .. n) -> Terminals]
    <3> SUFFICES ASSUME NEW x \in Terminals \X (1 .. n)
                 PROVE  terminal_writechar(x[1], str[x[2]]) \in Terminals
      OBVIOUS
    <3>1. x[1] \in Terminals /\ str[x[2]] \in Chars
      BY <1>1
    <3> QED
      BY <3>1, CharType
  <2> HIDE DEF step
  <2> QED
    BY <1>1, <2>1, LoopHasValues, Zenon
<1>4. g \in [0 .. n -> Terminals] /\ g[0] = t
  BY <1>3 DEF LoopValues
<1>5. ASSUME NEW k \in 1 .. n PROVE g[k] = terminal_writechar(g[k - 1], str[k])
  <2>1. g[k] = step[<<g[k - 1], k>>]
    <3> HIDE DEF step
    <3> QED
      BY <1>3 DEF LoopValues
  <2>2. g[k - 1] \in Terminals
    BY <1>1, <1>4
  <2> QED
    BY <2>1, <2>2
<1>6. g = Body(g)
  <2>1. ASSUME NEW k \in 0 .. n PROVE g[k] = Body(g)[k]
    <3>1. CASE k = 0
      BY <1>4, <3>1
    <3>2. CASE k # 0
      <4>1. k \in 1 .. n
        BY <1>1, <3>2
      <4> QED
        BY <1>5, <3>2, <4>1
    <3> QED
      BY <3>1, <3>2
  <2> QED
    BY <1>4, <2>1
<1>7. after = Body(after)
  <2> HIDE DEF Body
  <2> QED
    BY <1>6
<1> HIDE DEF after
<1>8. \A k \in 0 .. n : after[k] = Body(after)[k]
  BY <1>7, Zenon
<1>9. after[0] = t /\ \A k \in 1 .. n : after[k] = terminal_writechar(after[k - 1], str[k])
  BY <1>1, <1>8
<1>10. after \in [0 .. n -> Terminals]
  <2> DEFINE S == {k \in 0 .. n : after[k] \in Terminals}
  <2>1. 0 \in S
    BY <1>1, <1>9
  <2>2. ASSUME NEW k \in S \cap (0 .. n - 1) PROVE k + 1 \in S
    <3>1. k + 1 \in 1 .. n /\ (k + 1) - 1 = k /\ after[k] \in Terminals
      BY <1>1
    <3>2. after[k + 1] = terminal_writechar(after[k], str[k + 1]) /\ str[k + 1] \in Chars
      BY <1>1, <1>9, <3>1
    <3>3. after[k + 1] \in Terminals
      BY <3>1, <3>2, CharType
    <3> QED
      BY <3>1, <3>3
  <2>3. 0 .. n \subseteq S
    <3> HIDE DEF S
    <3> QED
      BY <1>1, <2>1, <2>2, Induction
  <2>4. after = [k \in 0 .. n |-> after[k]]
    <3>1. after = [k \in 0 .. n |-> Body(after)[k]]
      BY <1>7, Zenon
    <3> QED
      BY <1>8, <3>1, Zenon
  <2> QED
    BY <2>3, <2>4
<1> QED
  BY <1>2, <1>9, <1>10 DEF n

LEMMA PrintOne ==
    ASSUME NEW t \in Terminals, NEW a \in Chars
    PROVE  print(t, <<a>>) = terminal_writechar(t, a)
<1> DEFINE str == <<a>>
<1>1. str \in Seq(Chars) /\ Len(str) = 1 /\ str[1] = a
  OBVIOUS
<1> HIDE DEF str
<1>2. PICK g : /\ g[0] = t
               /\ \A k \in 1 .. 1 : g[k] = terminal_writechar(g[k - 1], str[k])
               /\ print(t, str) = g[1]
  BY <1>1, PrintChars
<1>3. g[1] = terminal_writechar(g[1 - 1], str[1])
  BY <1>2
<1>4. 1 - 1 = 0
  OBVIOUS
<1> QED
  BY <1>1, <1>2, <1>3, <1>4 DEF str

LEMMA PrintTwo ==
    ASSUME NEW t \in Terminals, NEW a \in Chars, NEW b \in Chars
    PROVE  print(t, <<a, b>>) = terminal_writechar(terminal_writechar(t, a), b)
<1> DEFINE str == <<a, b>>
<1>1. str \in Seq(Chars) /\ Len(str) = 2 /\ str[1] = a /\ str[2] = b
  OBVIOUS
<1> HIDE DEF str
<1>2. PICK g : /\ g[0] = t
               /\ \A k \in 1 .. 2 : g[k] = terminal_writechar(g[k - 1], str[k])
               /\ print(t, str) = g[2]
  BY <1>1, PrintChars
<1>3. g[1] = terminal_writechar(g[1 - 1], str[1]) /\ g[2] = terminal_writechar(g[2 - 1], str[2])
  BY <1>2
<1>4. 1 - 1 = 0 /\ 2 - 1 = 1
  OBVIOUS
<1> QED
  BY <1>1, <1>2, <1>3, <1>4 DEF str

-------------------------------------------------------------------------------
(* Strings. *)

LEMMA StringType ==
    ASSUME NEW n \in Nat, NEW a \in [0 .. n -> Bytes], NEW k \in 0 .. n,
           \E e \in k .. n : a[e] = NUL
    PROVE  StringAt(a, k) \in Seq(Bytes) /\ Len(StringAt(a, k)) \in 0 .. n - k
<1> DEFINE Ends == {e \in DOMAIN a : e >= k /\ a[e] = NUL}
           end == Min(Ends)
           l == end - k
<1>1. Ends \subseteq Nat /\ Ends # {}
  OBVIOUS
<1>2. end \in Ends
  <2> HIDE DEF Ends
  <2> QED
    BY <1>1, MinElement
<1> HIDE DEF end
<1>3. end \in k .. n /\ l \in 0 .. n - k
  BY <1>2
<1>4. StringAt(a, k) = [m \in 1 .. l |-> a[k + m - 1]]
  BY DEF StringAt, end
<1> HIDE DEF l
<1>5. ASSUME NEW m \in 1 .. l PROVE a[k + m - 1] \in Bytes
  <2>1. k + m - 1 \in 0 .. n
    BY <1>3
  <2> QED
    BY <2>1
<1>6. StringAt(a, k) \in [1 .. l -> Bytes] /\ l \in Nat
  BY <1>3, <1>4, <1>5
<1> QED
  BY <1>3, <1>6

(* pandora_system_run copies a line that fits. *)
LEMMA CopyType ==
    ASSUME NEW dest \in [0 .. BufSize -> Bytes], dest[BufSize] = NUL,
           NEW src \in Seq(Bytes), Len(src) < BufSize
    PROVE  LET d == strncpy(dest, src, BufSize + 1)
           IN  d \in [0 .. BufSize -> Bytes] /\ d[BufSize] = NUL
<1> DEFINE n == Len(src)
           d == strncpy(dest, src, BufSize + 1)
<1>1. n \in Nat /\ n < BufSize /\ BufSize \in Nat /\ \A k \in 1 .. n : src[k] \in Bytes
  BY ShellAssumption
<1>2. d = [k \in 0 .. BufSize |-> IF k < n THEN src[k + 1] ELSE IF k = n THEN NUL ELSE dest[k]]
  BY <1>1 DEF strncpy
<1>3. NUL \in Bytes
  BY DEF Bytes
<1> HIDE DEF n, d
<1>4. ASSUME NEW k \in 0 .. BufSize
      PROVE  (IF k < n THEN src[k + 1] ELSE IF k = n THEN NUL ELSE dest[k]) \in Bytes
  <2>1. CASE k < n
    <3>1. k + 1 \in 1 .. n
      BY <1>1, <2>1
    <3> QED
      BY <1>1, <2>1, <3>1
  <2>2. CASE ~(k < n)
    BY <1>3, <2>2
  <2> QED
    BY <2>1, <2>2
<1>5. d \in [0 .. BufSize -> Bytes]
  BY <1>2, <1>4
<1>6. d[BufSize] = NUL
  BY <1>1, <1>2
<1> QED
  BY <1>5, <1>6 DEF d

(* strtok stays inside the array and leaves its last NUL. *)
LEMMA StrtokType ==
    ASSUME scommand \in [0 .. BufSize -> Bytes], scommand[BufSize] = NUL,
           sp \in {NULL} \cup (0 .. BufSize), NEW str \in {0, NULL}
    PROVE  LET t == strtok(str)
           IN  /\ t.sp \in {NULL} \cup (0 .. BufSize)
               /\ t.a \in [0 .. BufSize -> Bytes] /\ t.a[BufSize] = NUL
<1> DEFINE t == strtok(str)
           start == IF sp = NULL THEN str ELSE sp
           Firsts == {k \in DOMAIN scommand : k >= start /\ scommand[k] # Blank}
           first == Min(Firsts)
           Lasts == {k \in DOMAIN scommand : k >= first /\ scommand[k] \in {Blank, NUL}}
           last == Min(Lasts)
           cut == [scommand EXCEPT ![last] = NUL]
<1>1. t = IF start = NULL THEN [sp |-> NULL, a |-> scommand, token |-> NULL]
          ELSE IF scommand[first] = NUL THEN [sp |-> NULL, a |-> scommand, token |-> NULL]
          ELSE [sp |-> IF scommand[last] = Blank THEN last + 1 ELSE last, a |-> cut,
                token |-> first]
  BY DEF strtok
<1>2. NUL \in Bytes /\ NUL # Blank /\ BufSize \in Nat
  BY ShellAssumption DEF Bytes, NUL, Blank
<1>3. CASE start = NULL
  <2>1. t = [sp |-> NULL, a |-> scommand, token |-> NULL]
    BY <1>1, <1>3
  <2> QED
    BY <2>1
<1>4. CASE start # NULL
  <2>1. start \in 0 .. BufSize
    BY <1>2, <1>4 DEF NULL
  <2>2. first \in 0 .. BufSize
    <3> HIDE DEF start
    <3>1. Firsts \subseteq Nat /\ BufSize \in Firsts
      BY <1>2, <2>1
    <3>2. first \in Firsts
      <4> HIDE DEF Firsts
      <4> QED
        BY <3>1, MinElement
    <3> HIDE DEF first
    <3> QED
      BY <3>2
  <2> HIDE DEF start, first
  <2>3. last \in 0 .. BufSize /\ scommand[last] \in {Blank, NUL}
    <3>1. Lasts \subseteq Nat /\ BufSize \in Lasts
      BY <1>2, <2>2
    <3>2. last \in Lasts
      <4> HIDE DEF Lasts
      <4> QED
        BY <3>1, MinElement
    <3> HIDE DEF last
    <3> QED
      BY <3>2
  <2> HIDE DEF last
  <2>4. scommand[last] = Blank => last + 1 \in 0 .. BufSize
    BY <1>2, <2>3
  <2>5. cut \in [0 .. BufSize -> Bytes] /\ cut[BufSize] = NUL
    BY <1>2, <2>3
  <2> HIDE DEF cut
  <2>6. CASE scommand[first] = NUL
    <3>1. t = [sp |-> NULL, a |-> scommand, token |-> NULL]
      BY <1>1, <1>4, <2>6
    <3> QED
      BY <3>1
  <2>7. CASE scommand[first] # NUL
    <3>1. t = [sp |-> IF scommand[last] = Blank THEN last + 1 ELSE last, a |-> cut,
               token |-> first]
      BY <1>1, <1>4, <2>7
    <3> HIDE DEF t
    <3>2. t.sp = (IF scommand[last] = Blank THEN last + 1 ELSE last) /\ t.a = cut
      BY <3>1
    <3>3. t.sp \in 0 .. BufSize
      BY <2>3, <2>4, <3>2
    <3> QED
      BY <2>5, <3>2, <3>3 DEF t
  <2> QED
    BY <2>6, <2>7
<1> QED
  BY <1>3, <1>4

-------------------------------------------------------------------------------
(* Types and the column. *)

(* What the shell prints. *)
LEMMA Printed ==
    ASSUME NEW t \in Terminals
    PROVE  /\ print(t, Prompt) = WriteVisible(WriteVisible(t, ">"), Blank)
           /\ print(t, Banner) = terminal_writechar(WriteVisible(t, "P"), NewLine)
           /\ print(t, <<NewLine>>) = terminal_writechar(t, NewLine)
           /\ WriteVisible(t, ">") \in Terminals /\ WriteVisible(t, "P") \in Terminals
<1>1. ">" \in Shown /\ "P" \in Shown /\ Blank \in Shown
  BY DEF Shown
<1>2. Shown \subseteq Chars /\ NewLine \in Chars
  BY DEF Chars
<1>3. ASSUME NEW u, NEW c \in {">", "P", Blank} PROVE terminal_writechar(u, c) = WriteVisible(u, c)
  BY <1>3 DEF terminal_writechar, NewLine, Backspace, Blank
<1>4. print(t, <<">", Blank>>) = terminal_writechar(terminal_writechar(t, ">"), Blank)
  BY <1>1, <1>2, PrintTwo
<1>5. print(t, <<"P", NewLine>>) = terminal_writechar(terminal_writechar(t, "P"), NewLine)
  BY <1>1, <1>2, PrintTwo
<1>6. print(t, <<NewLine>>) = terminal_writechar(t, NewLine)
  BY <1>2, PrintOne
<1>7. WriteVisible(t, ">") \in Terminals /\ WriteVisible(t, "P") \in Terminals
  BY <1>1, Visible
<1>8. terminal_writechar(t, ">") = WriteVisible(t, ">")
      /\ terminal_writechar(t, "P") = WriteVisible(t, "P")
      /\ terminal_writechar(WriteVisible(t, ">"), Blank) = WriteVisible(WriteVisible(t, ">"), Blank)
  BY <1>3
<1> QED
  BY <1>4, <1>5, <1>6, <1>7, <1>8 DEF Prompt, Banner

LEMMA PrintedColumn ==
    ASSUME NEW t \in Terminals
    PROVE  /\ print(t, Prompt) \in Terminals /\ print(t, Prompt).col < Width
           /\ print(t, Banner) \in Terminals /\ print(t, Banner).col < Width
           /\ print(t, <<NewLine>>) \in Terminals /\ print(t, <<NewLine>>).col < Width
<1> DEFINE u == WriteVisible(t, ">")
           v == WriteVisible(t, "P")
<1>1. u \in Terminals /\ v \in Terminals
  BY Printed
<1>2. Blank \in Shown /\ 0 < Width
  BY ScreenSizes DEF Shown
<1> HIDE DEF u, v
<1>3. WriteVisible(u, Blank) \in Terminals /\ WriteVisible(u, Blank).col < Width
  BY <1>1, <1>2, Visible
<1>4. terminal_writechar(v, NewLine) \in Terminals /\ terminal_writechar(v, NewLine).col = 0
  BY <1>1, NewLineMoves
<1>5. terminal_writechar(t, NewLine) \in Terminals /\ terminal_writechar(t, NewLine).col = 0
  BY NewLineMoves
<1> QED
  BY <1>2, <1>3, <1>4, <1>5, Printed DEF u, v

(* A key other than Enter, and a character of another process. *)
LEMMA WrittenColumn ==
    ASSUME NEW t \in Terminals, NEW c \in Letters \cup {Blank, NewLine}
    PROVE  terminal_writechar(t, c) \in Terminals /\ terminal_writechar(t, c).col < Width
<1>1. CASE c = NewLine
  BY <1>1, NewLineMoves, ScreenSizes
<1>2. CASE c # NewLine
  <2>1. c \in Shown /\ terminal_writechar(t, c) = WriteVisible(t, c)
    BY <1>2, ShellAssumption DEF terminal_writechar, Shown, Backspace, Blank
  <2> QED
    BY <2>1, Visible
<1> QED
  BY <1>1, <1>2

LEMMA TerminalTypes ==
    ASSUME NEW t \in Terminals
    PROVE  /\ t.row \in 0 .. Word16 - 1 /\ t.col \in 0 .. Word16 - 1
           /\ t.cells \in [Screen -> Letters \cup {Blank, "P", ">"}]
BY DEF Terminals, Shown

LEMMA InitShape == ShellInit => ShapeInv
<1> SUFFICES ASSUME ShellInit PROVE ShapeInv
  OBVIOUS
<1>1. terminal_initialize \in Terminals
  <2>1. 0 \in 0 .. Word16 - 1
    BY ScreenSizes
  <2> QED
    BY <2>1 DEF terminal_initialize, Terminals, Shown
<1>2. terminal \in Terminals /\ terminal.col < Width
  BY <1>1, PrintedColumn DEF ShellInit
<1>3. /\ pc = "prompt" /\ out \in [0 .. BufSize - 1 -> Bytes] /\ i = 0
      /\ scommand \in [0 .. BufSize -> Bytes] /\ scommand[BufSize] = NUL
      /\ sp = NULL /\ others = 0 /\ spoilt = {}
  BY ShellAssumption DEF ShellInit, Bytes
<1>4. i \in 0 .. BufSize - 1 /\ others \in 0 .. MaxOthers
  BY <1>3, ShellAssumption
<1>5. ShellTypeOK
  BY <1>2, <1>3, <1>4, TerminalTypes DEF ShellTypeOK
<1> QED
  BY <1>2, <1>3, <1>4, <1>5 DEF ShapeInv, ShellShapes, ColumnInv, ColumnOK

(* A step that leaves the cursor in the line or where it was. *)
LEMMA InLine ==
    ASSUME ShapeInv, terminal' \in Terminals,
           terminal'.col < Width \/ UNCHANGED <<terminal, spoilt>>,
           pc' \in {"prompt", "read", "first", "next", "system", "done"},
           out' \in [0 .. BufSize - 1 -> Bytes], i' \in 0 .. BufSize - 1,
           scommand' \in [0 .. BufSize -> Bytes], scommand'[BufSize] = NUL,
           sp' \in {NULL} \cup (0 .. BufSize), spoilt' \subseteq Spoilers,
           others' \in 0 .. MaxOthers
    PROVE  ShapeInv'
<1>1. /\ terminal'.row \in 0 .. Word16 - 1 /\ terminal'.col \in 0 .. Word16 - 1
      /\ terminal'.cells \in [Screen -> Letters \cup {Blank, "P", ">"}]
  BY TerminalTypes
<1>2. ColumnInv'
  <2>1. CASE terminal'.col < Width
    BY <2>1 DEF ColumnInv, ColumnOK
  <2>2. CASE UNCHANGED <<terminal, spoilt>>
    BY <2>2 DEF ShapeInv, ColumnInv, ColumnOK, Cursor
  <2> QED
    BY <2>1, <2>2
<1> QED
  BY <1>1, <1>2 DEF ShapeInv, ShellShapes, ShellTypeOK

(* A backspace that is recorded when it meets the margin. *)
LEMMA BackspaceShape ==
    ASSUME ShapeInv, terminal' = terminal_backspace(terminal), pc' = pc,
           spoilt \subseteq spoilt', spoilt' \subseteq Spoilers,
           terminal.col = 0 => "margin" \in spoilt',
           out' \in [0 .. BufSize - 1 -> Bytes], i' \in 0 .. BufSize - 1,
           UNCHANGED <<scommand, sp>>, others' \in 0 .. MaxOthers
    PROVE  ShapeInv'
<1>1. /\ terminal \in Terminals /\ ColumnOK(terminal)
      /\ terminal.col < Width \/ "margin" \in spoilt
  BY DEF ShapeInv, ShellShapes, ColumnInv
<1>2. /\ terminal' \in Terminals /\ ColumnOK(terminal)'
      /\ terminal.col < Width => terminal'.col < Width \/ terminal.col = 0
      /\ terminal'.col < Width \/ terminal'.col = Word16 - 1
  BY <1>1, BackspaceColumn DEF ColumnOK, Cursor
<1>3. terminal'.col < Width \/ "margin" \in spoilt'
  BY <1>1, <1>2
<1>4. ColumnInv'
  BY <1>2, <1>3 DEF ColumnInv
<1>5. /\ terminal'.row \in 0 .. Word16 - 1 /\ terminal'.col \in 0 .. Word16 - 1
      /\ terminal'.cells \in [Screen -> Letters \cup {Blank, "P", ">"}]
  BY <1>2, TerminalTypes
<1>6. ShellShapes'
  BY <1>2, <1>5 DEF ShapeInv, ShellShapes, ShellTypeOK
<1> QED
  BY <1>4, <1>6 DEF ShapeInv

LEMMA ReadKeyShape ==
    ASSUME ShapeInv, NEW key \in Keys, ReadKey(key)
    PROVE  ShapeInv'
<1>1. /\ pc = "read" /\ pc' = "read" /\ i < BufSize - 1 /\ key \in Letters \cup {Blank, Backspace}
      /\ terminal' = terminal_writechar(terminal, key)
      /\ UNCHANGED <<scommand, sp, others>>
  BY DEF ReadKey, RoomLeft, Keys
<1>2. /\ terminal \in Terminals /\ out \in [0 .. BufSize - 1 -> Bytes] /\ i \in 0 .. BufSize - 1
      /\ spoilt \subseteq Spoilers
  BY DEF ShapeInv, ShellShapes, ShellTypeOK
<1>3. key \in Bytes /\ NUL \in Bytes
  BY <1>1 DEF Bytes
<1>4. out' \in [0 .. BufSize - 1 -> Bytes] /\ i' \in 0 .. BufSize - 1
  <2>1. CASE key = Backspace /\ i >= 1
    <3>1. out' = [out EXCEPT ![i - 1] = NUL] /\ i' = i - 1
      BY <2>1 DEF ReadKey
    <3> QED
      BY <1>2, <1>3, <2>1, <3>1, ShellAssumption
  <2>2. CASE ~(key = Backspace /\ i >= 1)
    <3>1. out' = [out EXCEPT ![i] = key] /\ i' = i + 1
      BY <2>2 DEF ReadKey
    <3> QED
      BY <1>1, <1>2, <1>3, <3>1, ShellAssumption
  <2> QED
    BY <2>1, <2>2
<1>5. /\ spoilt' \subseteq Spoilers /\ spoilt \subseteq spoilt'
      /\ key = Backspace /\ terminal.col = 0 => "margin" \in spoilt'
  BY <1>2 DEF ReadKey, Spoilers
<1>6. CASE key # Backspace
  <2>1. terminal' \in Terminals /\ terminal'.col < Width
    BY <1>1, <1>2, <1>6, WrittenColumn
  <2> QED
    BY <1>1, <1>4, <1>5, <2>1, InLine DEF ShapeInv, ShellShapes, ShellTypeOK
<1>7. CASE key = Backspace
  <2>1. terminal' = terminal_backspace(terminal)
    BY <1>1, <1>7 DEF terminal_writechar, NewLine, Backspace
  <2>2. others' \in 0 .. MaxOthers /\ UNCHANGED <<scommand, sp>> /\ pc' = pc
    BY <1>1 DEF ShapeInv, ShellShapes
  <2> QED
    BY <1>4, <1>5, <1>7, <2>1, <2>2, BackspaceShape
<1> QED
  BY <1>6, <1>7

LEMMA EndLineShape ==
    ASSUME ShapeInv, EndLine
    PROVE  ShapeInv'
<1>1. /\ out \in [0 .. BufSize - 1 -> Bytes] /\ i \in 0 .. BufSize - 1 /\ terminal \in Terminals
      /\ scommand \in [0 .. BufSize -> Bytes] /\ scommand[BufSize] = NUL
  BY DEF ShapeInv, ShellShapes, ShellTypeOK
<1>2. /\ out' = [out EXCEPT ![i] = NUL] /\ pc' = "first"
      /\ terminal' = print(terminal, <<NewLine>>)
      /\ scommand' = strncpy(scommand, StringAt(out', 0), BufSize + 1)
      /\ UNCHANGED <<i, sp, others, spoilt>>
  BY DEF EndLine
<1>3. out' \in [0 .. BufSize - 1 -> Bytes] /\ out'[i] = NUL
  BY <1>1, <1>2 DEF Bytes
<1>4. terminal' \in Terminals /\ terminal'.col < Width
  BY <1>1, <1>2, PrintedColumn
<1> DEFINE src == StringAt(out', 0)
           n == BufSize - 1
           a == out'
<1>5. src \in Seq(Bytes) /\ Len(src) \in 0 .. n
  <2>1. n \in Nat /\ 0 \in 0 .. n /\ i \in 0 .. n
    BY <1>1, ShellAssumption
  <2>2. a \in [0 .. n -> Bytes] /\ a[i] = NUL
    BY <1>3
  <2> HIDE DEF n, a
  <2>3. StringAt(a, 0) \in Seq(Bytes) /\ Len(StringAt(a, 0)) \in 0 .. n - 0
    BY <2>1, <2>2, StringType
  <2>4. n - 0 = n
    BY <2>1
  <2> QED
    BY <2>3, <2>4 DEF a
<1> HIDE DEF src
<1>6. scommand' = strncpy(scommand, src, BufSize + 1)
  BY <1>2 DEF src
<1>7. scommand' \in [0 .. BufSize -> Bytes] /\ scommand'[BufSize] = NUL
  <2>1. Len(src) < BufSize
    BY <1>5, ShellAssumption
  <2> QED
    BY <1>1, <1>5, <1>6, <2>1, CopyType
<1> QED
  BY <1>2, <1>3, <1>4, <1>7, InLine DEF ShapeInv, ShellShapes, ShellTypeOK

LEMMA NextTokenShape ==
    ASSUME ShapeInv, NextToken
    PROVE  ShapeInv'
<1> DEFINE str == IF pc = "first" THEN 0 ELSE NULL
           t == strtok(str)
<1>1. /\ pc \in {"first", "next"} /\ sp' = t.sp /\ scommand' = t.a
      /\ pc' \in {"done", "system", "next"}
      /\ UNCHANGED <<terminal, out, i, others, spoilt>>
  BY DEF NextToken
<1>2. /\ scommand \in [0 .. BufSize -> Bytes] /\ scommand[BufSize] = NUL
      /\ sp \in {NULL} \cup (0 .. BufSize) /\ str \in {0, NULL}
      /\ terminal \in Terminals
  BY DEF ShapeInv, ShellShapes, ShellTypeOK
<1> HIDE DEF str
<1>3. /\ sp' \in {NULL} \cup (0 .. BufSize)
      /\ scommand' \in [0 .. BufSize -> Bytes] /\ scommand'[BufSize] = NUL
  BY <1>1, <1>2, StrtokType
<1> QED
  BY <1>1, <1>2, <1>3, InLine DEF ShapeInv, ShellShapes, ShellTypeOK

LEMMA OtherShape ==
    ASSUME ShapeInv, NEW c \in OtherChars, OtherWrites(c)
    PROVE  ShapeInv'
<1>1. /\ terminal' = terminal_writechar(terminal, c)
      /\ others < MaxOthers /\ others' = others + 1
      /\ UNCHANGED <<pc, out, i, scommand, sp>>
  BY DEF OtherWrites
<1>2. /\ terminal \in Terminals /\ others \in 0 .. MaxOthers /\ spoilt \subseteq Spoilers
      /\ out \in [0 .. BufSize - 1 -> Bytes] /\ i \in 0 .. BufSize - 1
  BY DEF ShapeInv, ShellShapes, ShellTypeOK
<1>3. /\ spoilt \subseteq spoilt' /\ spoilt' \subseteq Spoilers
      /\ c = Backspace /\ terminal.col = 0 => "margin" \in spoilt'
  BY <1>2 DEF OtherWrites, Spoilers
<1>4. others' \in 0 .. MaxOthers
  BY <1>1, <1>2, ShellAssumption
<1>5. CASE c # Backspace
  <2>1. terminal' \in Terminals /\ terminal'.col < Width
    BY <1>1, <1>2, <1>5, WrittenColumn DEF OtherChars
  <2> QED
    BY <1>1, <1>3, <1>4, <2>1, InLine DEF ShapeInv, ShellShapes, ShellTypeOK
<1>6. CASE c = Backspace
  <2>1. terminal' = terminal_backspace(terminal)
    BY <1>1, <1>6 DEF terminal_writechar, NewLine, Backspace
  <2> QED
    BY <1>1, <1>2, <1>3, <1>4, <1>6, <2>1, BackspaceShape
<1> QED
  BY <1>5, <1>6

LEMMA ShapeStep == ShapeInv /\ [ShellNext]_shellVars => ShapeInv'
<1> SUFFICES ASSUME ShapeInv, [ShellNext]_shellVars PROVE ShapeInv'
  OBVIOUS
<1>0. terminal \in Terminals /\ spoilt \subseteq Spoilers
  BY DEF ShapeInv, ShellShapes, ShellTypeOK
<1>1. CASE PrintPrompt
  <2>1. /\ terminal' = print(terminal, Prompt) /\ i' = 0 /\ spoilt' = {} /\ pc' = "read"
        /\ UNCHANGED <<out, scommand, sp, others>>
    BY <1>1 DEF PrintPrompt
  <2>2. terminal' \in Terminals /\ terminal'.col < Width
    BY <1>0, <2>1, PrintedColumn
  <2>3. i' \in 0 .. BufSize - 1 /\ spoilt' \subseteq Spoilers
    BY <2>1, ShellAssumption
  <2> QED
    BY <2>1, <2>2, <2>3, InLine DEF ShapeInv, ShellShapes, ShellTypeOK
<1>2. CASE \E key \in Keys : ReadKey(key)
  BY <1>2, ReadKeyShape
<1>3. CASE EndLine
  BY <1>3, EndLineShape
<1>4. CASE NextToken
  BY <1>4, NextTokenShape
<1>5. CASE pandora_system
  <2>1. pc = "system" /\ pc' = "done" /\ UNCHANGED <<terminal, out, i, scommand, sp, others, spoilt>>
    BY <1>5 DEF pandora_system
  <2> QED
    BY <1>0, <2>1, InLine DEF ShapeInv, ShellShapes, ShellTypeOK
<1>6. CASE EndCommand
  <2>1. /\ pc' = "prompt" /\ terminal' = print(terminal, <<NewLine>>)
        /\ UNCHANGED <<out, i, scommand, sp, others, spoilt>>
    BY <1>6 DEF EndCommand
  <2>2. terminal' \in Terminals /\ terminal'.col < Width
    BY <1>0, <2>1, PrintedColumn
  <2> QED
    BY <2>1, <2>2, InLine DEF ShapeInv, ShellShapes, ShellTypeOK
<1>7. CASE \E c \in OtherChars : OtherWrites(c)
  BY <1>7, OtherShape
<1>8. CASE UNCHANGED shellVars
  <2>1. UNCHANGED <<pc, terminal, out, i, scommand, sp, others, spoilt>>
    BY <1>8 DEF shellVars
  <2> QED
    BY <2>1 DEF ShapeInv, ShellShapes, ShellTypeOK, ColumnInv, ColumnOK, Cursor
<1> QED
  BY <1>1, <1>2, <1>3, <1>4, <1>5, <1>6, <1>7, <1>8 DEF ShellNext

THEOREM ShapeInvariant == ShellSpec => []ShapeInv
BY InitShape, ShapeStep, PTL DEF ShellSpec

-------------------------------------------------------------------------------
(* What the screen shows. *)

(* A newline of the shell or of another process, counted in n. *)
LEMMA NewLineKeeps ==
    ASSUME RowsFit, NEW t \in Terminals, NEW n \in 0 .. MaxOthers + 1,
           ~t.stray => t.row <= Height + n /\ BlankBehind(t),
           ~terminal_writechar(t, NewLine).stray
    PROVE  LET r == terminal_writechar(t, NewLine)
           IN  r.row <= Height + n + 1 /\ BlankBehind(r)
<1> DEFINE r == terminal_writechar(t, NewLine)
<1>1. /\ r.stray = t.stray
      /\ t.row + 1 < Word16 => /\ r.row = t.row + 1
                               /\ BlankBehind(t) => BlankBehind(r)
  BY NewLineMoves
<1> HIDE DEF r
<1>2. t.row <= Height + n /\ BlankBehind(t)
  BY <1>1 DEF r
<1>3. t.row \in Nat
  BY DEF Terminals
<1>4. t.row + 1 < Word16
  BY <1>2, <1>3, ScreenSizes, ShellAssumption DEF RowsFit
<1>5. r.row <= Height + n + 1
  BY <1>1, <1>2, <1>3, <1>4, ScreenSizes, ShellAssumption
<1> QED
  BY <1>1, <1>2, <1>4, <1>5 DEF r

(* What ShapeInv and DisplayInv say of the terminal before a step. *)
LEMMA Before ==
    ASSUME ShapeInv, DisplayInv
    PROVE  /\ terminal \in Terminals /\ ColumnOK(terminal) /\ others \in 0 .. MaxOthers
           /\ ~terminal.stray => BlankBehind(terminal)
           /\ ~terminal.stray => terminal.row <= Height + others + Newlines
           /\ terminal.row \in Nat /\ Newlines \in 0 .. 2 /\ origin \in Nat
BY TerminalTypes DEF ShapeInv, ShellShapes, ColumnInv, DisplayInv, RowInv, BlankInv, Newlines,
                     Terminals

(* After a step outside of a line, or that spoils it, only the terminal    *)
(* counts.                                                                 *)
LEMMA NotShown ==
    ASSUME origin' \in Nat, pc' # "read" \/ spoilt' # {},
           ~terminal'.stray => /\ terminal'.row <= Height + others' + Newlines'
                               /\ BlankBehind(terminal')
    PROVE  DisplayInv'
BY DEF DisplayInv, RowInv, BlankInv, LineInv, BlankBehind, Reach

LEMMA InitDisplay == RowsFit /\ ShellInit => DisplayInv
<1> SUFFICES ASSUME RowsFit, ShellInit PROVE DisplayInv
  OBVIOUS
<1> DEFINE t == terminal_initialize
           u == WriteVisible(t, "P")
           r == terminal_writechar(u, NewLine)
<1>1. t \in Terminals /\ t.col = 0 /\ BlankBehind(t)
  <2>1. 0 \in 0 .. Word16 - 1
    BY ScreenSizes
  <2> QED
    BY <2>1 DEF terminal_initialize, Terminals, Shown, BlankBehind
<1>2. ColumnOK(t)
  BY <1>1, ScreenSizes DEF ColumnOK
<1>3. "P" \in Shown
  BY DEF Shown
<1>4. u \in Terminals /\ terminal = r
  BY <1>1, Printed DEF ShellInit
<1>5. ~u.stray => u.row <= Height /\ BlankBehind(u)
  BY <1>1, <1>2, <1>3, VisibleKeeps
<1> HIDE DEF t, u
<1>6. u.row \in Nat /\ Height \in Nat
  BY <1>4, ScreenSizes DEF Terminals
<1>7. ~u.stray => u.row <= Height + 0 /\ BlankBehind(u)
  BY <1>5, <1>6
<1>8. 0 \in 0 .. MaxOthers + 1
  BY ShellAssumption
<1>9. ~r.stray => r.row <= Height + 0 + 1 /\ BlankBehind(r)
  BY <1>4, <1>7, <1>8, NewLineKeeps
<1> HIDE DEF r
<1>10. pc = "prompt" /\ others = 0 /\ Newlines = 2 /\ origin = 0
  BY DEF ShellInit, Newlines
<1>11. r.row \in Nat
  BY <1>4, PrintedColumn, NewLineMoves DEF r, Terminals
<1>12. ~r.stray => r.row <= Height + others + Newlines
  BY <1>6, <1>9, <1>10, <1>11
<1> QED
  BY <1>4, <1>9, <1>10, <1>12 DEF DisplayInv, RowInv, BlankInv, LineInv

LEMMA PromptDisplay ==
    ASSUME RowsFit, ShapeInv, DisplayInv, PrintPrompt
    PROVE  DisplayInv'
<1> DEFINE u == WriteVisible(terminal, ">")
           r == WriteVisible(u, Blank)
<1>1. /\ terminal' = r /\ i' = 0 /\ origin' = Cursor(terminal') /\ others' = others
      /\ pc' = "read" /\ u \in Terminals
  BY Before, Printed DEF PrintPrompt
<1>2. ">" \in Shown /\ Blank \in Shown
  BY DEF Shown
<1>3. ~u.stray => BlankBehind(u)
  BY <1>2, Before, VisibleKeeps
<1>4. u.col < Width
  BY <1>2, Before, Visible
<1> HIDE DEF u
<1>5. ColumnOK(u)
  BY <1>4 DEF ColumnOK
<1>6. ~r.stray => r.row <= Height /\ BlankBehind(r)
  BY <1>1, <1>2, <1>3, <1>5, VisibleKeeps
<1>7. r \in Terminals
  BY <1>1, <1>2, Visible
<1> HIDE DEF r
<1>8. Cursor(r) \in Nat /\ r.row \in Nat
  BY <1>7, CursorOf DEF Terminals
<1>9. origin' \in Nat
  BY <1>1, <1>8
<1>10. ~r.stray => r.row <= Height + others' + Newlines'
  <2>1. Newlines' = 0 /\ others' \in Nat
    BY <1>1, Before DEF Newlines
  <2> QED
    BY <1>6, <1>8, <2>1, ScreenSizes
<1>11. Cursor(terminal)' = origin' + i'
  <2>1. Cursor(terminal)' = Cursor(r)
    BY <1>1 DEF Cursor
  <2>2. origin' = Cursor(r)
    BY <1>1
  <2> QED
    BY <1>1, <1>8, <2>1, <2>2
<1>12. LineInv'
  <2>1. 0 .. i' - 1 = {}
    BY <1>1
  <2> QED
    BY <1>11, <2>1 DEF LineInv
<1>13. RowInv' /\ BlankInv'
  BY <1>1, <1>6, <1>10 DEF RowInv, BlankInv, BlankBehind, Reach
<1> QED
  BY <1>9, <1>12, <1>13 DEF DisplayInv

LEMMA VisibleKeyDisplay ==
    ASSUME RowsFit, ShapeInv, DisplayInv, NEW key \in Letters \cup {Blank}, ReadKey(key)
    PROVE  DisplayInv'
<1> DEFINE r == WriteVisible(terminal, key)
<1>1. key \in Shown /\ key # Backspace /\ key # NewLine
  BY ShellAssumption DEF Shown, Backspace, NewLine, Blank
<1>2. /\ pc = "read" /\ pc' = "read" /\ i < BufSize - 1 /\ i' = i + 1
      /\ out' = [out EXCEPT ![i] = key] /\ terminal' = r
      /\ spoilt' = spoilt /\ others' = others /\ origin' = origin
  BY <1>1 DEF ReadKey, RoomLeft, terminal_writechar
<1>3. out \in [0 .. BufSize - 1 -> Bytes] /\ i \in 0 .. BufSize - 1
  BY DEF ShapeInv, ShellShapes, ShellTypeOK
<1>4. ASSUME ~r.stray
      PROVE  /\ ~terminal.stray /\ Cursor(terminal) \in Screen
             /\ Cursor(r) = Cursor(terminal) + 1 /\ r.row <= Height /\ BlankBehind(r)
             /\ r.cells = [terminal.cells EXCEPT ![Cursor(terminal)] = key]
  BY <1>1, <1>4, Before, VisibleKeeps
<1>5. r \in Terminals
  BY <1>1, Before, Visible
<1> HIDE DEF r
<1>6. RowInv' /\ BlankInv'
  <2>1. Newlines' = 0 /\ others' \in Nat /\ r.row \in Nat
    BY <1>2, <1>5, Before DEF Newlines, Terminals
  <2>2. ~r.stray => r.row <= Height + others' + Newlines'
    BY <1>4, <2>1, ScreenSizes
  <2> QED
    BY <1>2, <1>4, <2>2 DEF RowInv, BlankInv, BlankBehind, Reach
<1>7. LineInv'
  <2> SUFFICES ASSUME spoilt' = {}, ~r.stray
               PROVE  /\ Cursor(r) = origin + (i + 1)
                      /\ \A k \in 0 .. (i + 1) - 1 :
                            origin + k \in Screen /\ r.cells[origin + k] = out'[k]
    BY <1>2 DEF LineInv, Cursor
  <2>1. /\ Cursor(terminal) = origin + i
        /\ \A k \in 0 .. i - 1 : origin + k \in Screen /\ terminal.cells[origin + k] = out[k]
    BY <1>2, <1>4 DEF DisplayInv, LineInv
  <2>2. /\ Cursor(r) = origin + i + 1 /\ origin + i \in Screen
        /\ r.cells = [terminal.cells EXCEPT ![origin + i] = key]
    BY <1>4, <2>1
  <2>3. origin \in Nat /\ i \in Nat /\ terminal.cells \in [Screen -> Shown]
    BY <1>3, Before DEF Terminals
  <2>4. ASSUME NEW k \in 0 .. (i + 1) - 1
        PROVE  origin + k \in Screen /\ r.cells[origin + k] = out'[k]
    <3>1. CASE k = i
      BY <1>2, <1>3, <2>2, <2>3, <3>1
    <3>2. CASE k # i
      <4>1. k \in 0 .. i - 1 /\ origin + k # origin + i /\ k \in 0 .. BufSize - 1
        BY <1>3, <2>3, <3>2, ShellAssumption
      <4>2. origin + k \in Screen /\ terminal.cells[origin + k] = out[k]
        BY <2>1, <4>1
      <4>3. out'[k] = out[k]
        BY <1>2, <1>3, <3>2, <4>1
      <4>4. r.cells[origin + k] = terminal.cells[origin + k]
        BY <2>2, <2>3, <4>1, <4>2
      <4> QED
        BY <4>2, <4>3, <4>4
    <3> QED
      BY <3>1, <3>2
  <2> QED
    BY <2>2, <2>3, <2>4
<1> QED
  BY <1>2, <1>6, <1>7, Before DEF DisplayInv

LEMMA BackspaceDisplay ==
    ASSUME RowsFit, ShapeInv, DisplayInv, ReadKey(Backspace)
    PROVE  DisplayInv'
<1> DEFINE b == terminal_backspace(terminal)
<1>1. /\ pc = "read" /\ pc' = "read" /\ terminal' = b
      /\ others' = others /\ origin' = origin
      /\ spoilt \subseteq spoilt'
      /\ i = 0 => "empty" \in spoilt'
      /\ terminal.col = 0 => "margin" \in spoilt'
      /\ i >= 1 => out' = [out EXCEPT ![i - 1] = NUL] /\ i' = i - 1
  BY DEF ReadKey, terminal_writechar, NewLine, Backspace
<1>2. out \in [0 .. BufSize - 1 -> Bytes] /\ i \in 0 .. BufSize - 1
  BY DEF ShapeInv, ShellShapes, ShellTypeOK
<1>3. ASSUME ~b.stray
      PROVE  /\ ~terminal.stray /\ b.row = terminal.row /\ BlankBehind(b)
             /\ terminal.col # 0 =>
                    /\ Cursor(b) = Cursor(terminal) - 1 /\ Cursor(terminal) - 1 \in Screen
                    /\ b.cells = [terminal.cells EXCEPT ![Cursor(terminal) - 1] = Blank]
  BY <1>3, Before, BackspaceErases
<1> HIDE DEF b
<1>4. RowInv' /\ BlankInv'
  <2>1. Newlines' = Newlines
    BY <1>1 DEF Newlines
  <2>2. ~b.stray => b.row <= Height + others' + Newlines'
    BY <1>1, <1>3, <2>1, Before
  <2> QED
    BY <1>1, <1>3, <2>2 DEF RowInv, BlankInv, BlankBehind, Reach
<1>5. LineInv'
  <2> SUFFICES ASSUME spoilt' = {}, ~b.stray
               PROVE  /\ Cursor(b) = origin + i'
                      /\ \A k \in 0 .. i' - 1 :
                            origin + k \in Screen /\ b.cells[origin + k] = out'[k]
    BY <1>1 DEF LineInv, Cursor
  <2>1. /\ spoilt = {} /\ terminal.col # 0 /\ i # 0 /\ ~terminal.stray
    BY <1>1, <1>3
  <2>2. i >= 1 /\ i' = i - 1 /\ out' = [out EXCEPT ![i - 1] = NUL]
    BY <1>1, <1>2, <2>1, ShellAssumption
  <2>3. /\ Cursor(terminal) = origin + i
        /\ \A k \in 0 .. i - 1 : origin + k \in Screen /\ terminal.cells[origin + k] = out[k]
    BY <1>1, <2>1 DEF DisplayInv, LineInv
  <2>5. origin \in Nat /\ i \in Nat /\ terminal.cells \in [Screen -> Shown]
    BY <1>2, Before DEF Terminals
  <2>4. /\ Cursor(b) = origin + i - 1
        /\ b.cells = [terminal.cells EXCEPT ![origin + i - 1] = Blank]
    <3>1. /\ Cursor(b) = Cursor(terminal) - 1
          /\ b.cells = [terminal.cells EXCEPT ![Cursor(terminal) - 1] = Blank]
      BY <1>3, <2>1
    <3>2. Cursor(terminal) - 1 = origin + i - 1
      BY <2>3, <2>5
    <3> QED
      BY <3>1, <3>2
  <2>6. ASSUME NEW k \in 0 .. i' - 1
        PROVE  origin + k \in Screen /\ b.cells[origin + k] = out'[k]
    <3>1. /\ k \in 0 .. i - 1 /\ origin + k # origin + i - 1 /\ k # i - 1
          /\ k \in 0 .. BufSize - 1
      BY <1>2, <2>2, <2>5, ShellAssumption
    <3>2. origin + k \in Screen /\ terminal.cells[origin + k] = out[k]
      BY <2>3, <3>1
    <3>3. out'[k] = out[k]
      BY <1>2, <2>2, <3>1
    <3>4. b.cells[origin + k] = terminal.cells[origin + k]
      BY <2>4, <2>5, <3>1, <3>2
    <3> QED
      BY <3>2, <3>3, <3>4
  <2>7. Cursor(b) = origin + i'
    BY <2>2, <2>4, <2>5
  <2> QED
    BY <2>6, <2>7
<1> QED
  BY <1>1, <1>4, <1>5, Before DEF DisplayInv

LEMMA OtherDisplay ==
    ASSUME RowsFit, ShapeInv, DisplayInv, NEW c \in OtherChars, OtherWrites(c)
    PROVE  DisplayInv'
<1> DEFINE r == terminal_writechar(terminal, c)
           n == others + Newlines
<1>1. /\ terminal' = r /\ others < MaxOthers /\ others' = others + 1
      /\ "other" \in spoilt' /\ pc' = pc /\ origin' = origin
  BY DEF OtherWrites
<1>2. Newlines' = Newlines
  BY <1>1 DEF Newlines
<1>3. n \in 0 .. MaxOthers + 1 /\ others \in Nat /\ Newlines \in Nat /\ Height \in Nat
  BY <1>1, Before, ScreenSizes, ShellAssumption
<1>4. r \in Terminals
  <2>1. c \in Chars
    BY DEF OtherChars, Chars, Shown
  <2> QED
    BY <2>1, Before, CharType
<1>5. ~r.stray => r.row <= Height + others' + Newlines' /\ BlankBehind(r)
  <2>1. CASE c = NewLine
    <3>1. ~terminal.stray => terminal.row <= Height + n /\ BlankBehind(terminal)
      BY <1>3, Before
    <3> HIDE DEF n
    <3>2. ~r.stray => r.row <= Height + n + 1 /\ BlankBehind(r)
      BY <1>3, <2>1, <3>1, Before, NewLineKeeps
    <3>3. Height + n + 1 = Height + others' + Newlines'
      BY <1>1, <1>2, <1>3 DEF n
    <3> QED
      BY <3>2, <3>3
  <2>3. CASE c = Backspace
    <3>1. r = terminal_backspace(terminal)
      BY <2>3 DEF terminal_writechar, NewLine, Backspace
    <3>2. ~r.stray => ~terminal.stray /\ r.row = terminal.row /\ BlankBehind(r)
      BY <3>1, Before, BackspaceErases
    <3> HIDE DEF r
    <3>3. r.row \in Nat
      BY <1>4 DEF Terminals
    <3> QED
      BY <1>1, <1>2, <1>3, <3>2, <3>3, Before
  <2>2. CASE c # NewLine /\ c # Backspace
    <3>1. c \in Shown /\ r = WriteVisible(terminal, c)
      BY <2>2 DEF terminal_writechar, Shown, OtherChars
    <3>2. ~r.stray => r.row <= Height /\ BlankBehind(r)
      BY <3>1, Before, VisibleKeeps
    <3> HIDE DEF r
    <3>3. r.row \in Nat
      BY <1>4 DEF Terminals
    <3> QED
      BY <1>1, <1>2, <1>3, <3>2, <3>3
  <2> QED
    BY <2>1, <2>2, <2>3
<1> HIDE DEF r
<1> QED
  BY <1>1, <1>5, Before, NotShown

(* The two newlines of the shell: at the end of the line and of the        *)
(* command.                                                                *)
LEMMA NewLineDisplay ==
    ASSUME RowsFit, ShapeInv, DisplayInv, terminal' = print(terminal, <<NewLine>>),
           Newlines' = Newlines + 1, Newlines \in 0 .. 1, UNCHANGED <<others, origin>>,
           pc' # "read"
    PROVE  DisplayInv'
<1> DEFINE r == terminal_writechar(terminal, NewLine)
           n == others + Newlines
<1>1. terminal' = r
  BY Before, Printed
<1>2. n \in 0 .. MaxOthers + 1 /\ others \in Nat /\ Newlines \in Nat /\ Height \in Nat
  BY Before, ScreenSizes, ShellAssumption
<1>3. ~terminal.stray => terminal.row <= Height + n /\ BlankBehind(terminal)
  BY <1>2, Before
<1> HIDE DEF n
<1>4. ~r.stray => r.row <= Height + n + 1 /\ BlankBehind(r)
  BY <1>2, <1>3, Before, NewLineKeeps
<1>5. Height + n + 1 = Height + others' + Newlines'
  BY <1>2 DEF n
<1> HIDE DEF r
<1> QED
  BY <1>1, <1>4, <1>5, Before, NotShown

LEMMA DisplayStep == RowsFit /\ ShapeInv /\ DisplayInv /\ [ShellNext]_shellVars => DisplayInv'
<1> SUFFICES ASSUME RowsFit, ShapeInv, DisplayInv, [ShellNext]_shellVars PROVE DisplayInv'
  OBVIOUS
<1>1. CASE PrintPrompt
  BY <1>1, PromptDisplay
<1>2. CASE \E key \in Keys : ReadKey(key)
  <2>1. PICK key \in Keys : ReadKey(key)
    BY <1>2
  <2>2. key \in Letters \cup {Blank} \/ key = Backspace
    BY <2>1 DEF ReadKey, Keys
  <2>3. CASE key \in Letters \cup {Blank}
    BY <2>1, <2>3, VisibleKeyDisplay
  <2>4. CASE key = Backspace
    BY <2>1, <2>4, BackspaceDisplay
  <2> QED
    BY <2>2, <2>3, <2>4
<1>3. CASE EndLine
  <2>1. /\ terminal' = print(terminal, <<NewLine>>) /\ pc = "read" /\ pc' = "first"
        /\ UNCHANGED <<others, origin>>
    BY <1>3 DEF EndLine
  <2>2. Newlines = 0 /\ Newlines' = 1
    BY <2>1 DEF Newlines
  <2> QED
    BY <2>1, <2>2, NewLineDisplay
<1>4. CASE NextToken
  <2>1. pc \in {"first", "next"} /\ pc' \in {"done", "system", "next"}
        /\ UNCHANGED <<terminal, others, origin>>
    BY <1>4 DEF NextToken
  <2>2. Newlines' = Newlines
    BY <2>1 DEF Newlines
  <2> QED
    BY <2>1, <2>2, Before, NotShown
<1>5. CASE pandora_system
  <2>1. pc = "system" /\ pc' = "done" /\ UNCHANGED <<terminal, others, origin>>
    BY <1>5 DEF pandora_system
  <2>2. Newlines' = Newlines
    BY <2>1 DEF Newlines
  <2> QED
    BY <2>1, <2>2, Before, NotShown
<1>6. CASE EndCommand
  <2>1. /\ terminal' = print(terminal, <<NewLine>>) /\ pc = "done" /\ pc' = "prompt"
        /\ UNCHANGED <<others, origin>>
    BY <1>6 DEF EndCommand
  <2>2. Newlines = 1 /\ Newlines' = 2
    BY <2>1 DEF Newlines
  <2> QED
    BY <2>1, <2>2, NewLineDisplay
<1>7. CASE \E c \in OtherChars : OtherWrites(c)
  BY <1>7, OtherDisplay
<1>8. CASE UNCHANGED shellVars
  <2>1. UNCHANGED <<pc, terminal, out, i, origin, others, spoilt>>
    BY <1>8 DEF shellVars
  <2> QED
    BY <2>1 DEF DisplayInv, RowInv, BlankInv, LineInv, Newlines, BlankBehind, Reach, Cursor
<1> QED
  BY <1>1, <1>2, <1>3, <1>4, <1>5, <1>6, <1>7, <1>8 DEF ShellNext

-------------------------------------------------------------------------------
(* The theorems. *)

(* The shell's and the terminal's state keeps its types, for every screen  *)
(* and every length of a line: strtok and the copy stay inside the array,  *)
(* the index inside the buffer (pandora_terminal_readline, strtok).        *)
THEOREM ShellTypeCorrect == ShellSpec => []ShellTypeOK
<1>1. ShapeInv => ShellTypeOK
  BY DEF ShapeInv, ShellShapes
<1> QED
  BY <1>1, ShapeInvariant, PTL

(* Whoever writes what, the column is inside the screen or the one a step  *)
(* back from column 0 wraps to, and the latter only after a backspace has  *)
(* met the left margin, of the echo or of another process, since the last  *)
(* prompt; for every size of the screen (terminal_writechar,               *)
(* terminal_backspace).                                                    *)
THEOREM CursorStaysInLine == ShellSpec => []CursorInLine
<1>1. ShapeInv => CursorInLine
  BY DEF ShapeInv, ColumnInv, CursorInLine
<1> QED
  BY <1>1, ShapeInvariant, PTL

(* The screen shows the line that will be run, until another process       *)
(* writes, a backspace meets the empty line or the left margin, or the     *)
(* screen is full, if the row cannot wrap by newlines alone                *)
(* (pandora_terminal_readline, terminal_writechar, terminal_backspace).    *)
THEOREM LineShown == ASSUME RowsFit PROVE ShellSpec => []LineAsShown
<1>1. ShapeInv /\ DisplayInv => LineAsShown
  <2> SUFFICES ASSUME ShapeInv, DisplayInv, pc = "read", spoilt = {}, ~terminal.stray
               PROVE  /\ Cursor(terminal) = origin + i
                      /\ \A k \in 0 .. i - 1 : terminal.cells[origin + k] = out[k]
                      /\ \A k \in Screen : k >= origin + i => terminal.cells[k] = Blank
    BY DEF LineAsShown
  <2>1. /\ Cursor(terminal) = origin + i
        /\ \A k \in 0 .. i - 1 : terminal.cells[origin + k] = out[k]
    BY DEF DisplayInv, LineInv
  <2>2. terminal.col < Width
    BY DEF ShapeInv, ColumnInv
  <2>3. Reach(terminal) = Cursor(terminal)
    BY <2>2 DEF Reach, Cursor
  <2>4. \A k \in Screen : k >= origin + i => terminal.cells[k] = Blank
    BY <2>1, <2>3, Before DEF BlankBehind
  <2> QED
    BY <2>1, <2>4
<1>2. ShellInit => ShapeInv /\ DisplayInv
  BY InitShape, InitDisplay
<1>3. (ShapeInv /\ DisplayInv) /\ [ShellNext]_shellVars => (ShapeInv /\ DisplayInv)'
  BY ShapeStep, DisplayStep
<1> QED
  BY <1>1, <1>2, <1>3, PTL DEF ShellSpec

-------------------------------------------------------------------------------
(* The words of the line and what strtok makes of it. *)

(* The lines a user can type. *)
Lines == Seq(Letters \cup {Blank})

(* The words that begin in the first p characters. *)
UpTo(line, p) == {j \in Starts(line) : j <= p}

(* What parsing has cut off when it has come to position p. *)
Given(line, p) == [n \in 1 .. Cardinality(UpTo(line, p)) |-> Words(line)[n]]

(* From position p on the array holds the rest of the line, and p is not   *)
(* in the middle of a word.                                                *)
Holds(a, line, p) ==
    /\ line \in Lines /\ Len(line) < BufSize /\ p \in 0 .. Len(line)
    /\ \A k \in p .. Len(line) - 1 : a[k] = line[k + 1]
    /\ a[Len(line)] = NUL
    /\ p = 0 \/ p = Len(line) \/ line[p] = Blank

(* No allocation failed in the line before, and no backspace was stored. *)
Clean == "empty" \notin spoilt /\ ~failed[2]

(* A pair of Booleans. *)
Pair(f) == 1 \in DOMAIN f /\ 2 \in DOMAIN f /\ f[1] \in BOOLEAN /\ f[2] \in BOOLEAN

(* The inductive invariant: the buffer holds the line that is typed; then  *)
(* the arguments are the words in front of strtok's place and the array    *)
(* holds the others; strtok has no place unless an allocation failed.      *)
ArgvInv ==
    /\ Pair(failed)
    /\ pc \in {"first", "next"} => ~failed[1]
    /\ pc \notin {"first", "next"} /\ ~failed[1] => sp = NULL
    /\ pc = "first" /\ ~failed[2] => sp = NULL
    /\ pc \in {"read", "first", "next", "system"} => started = NoArgs
    /\ pc = "read" /\ "empty" \notin spoilt =>
           /\ typed \in Lines /\ Len(typed) = i
           /\ \A k \in 0 .. i - 1 : out[k] = typed[k + 1]
    /\ pc = "first" /\ Clean => Holds(scommand, typed, 0) /\ arguments = Given(typed, 0)
    /\ pc = "next" /\ Clean => Holds(scommand, typed, sp) /\ arguments = Given(typed, sp)
    /\ pc = "system" /\ Clean =>
           IF failed[1] THEN IsPrefix(arguments, Words(typed)) ELSE arguments = Words(typed)
    /\ ArgvIsTyped

LEMMA LineChars ==
    ASSUME NEW line \in Lines
    PROVE  /\ Len(line) \in Nat /\ DOMAIN line = 1 .. Len(line)
           /\ \A k \in 1 .. Len(line) : line[k] \in Bytes /\ line[k] # NUL
  BY ShellAssumption DEF Lines, Bytes, NUL, Blank

LEMMA StartsFinite ==
    ASSUME NEW line \in Lines, NEW p \in Nat
    PROVE  /\ Starts(line) \subseteq 1 .. Len(line)
           /\ IsFiniteSet(Starts(line)) /\ IsFiniteSet(UpTo(line, p))
           /\ Cardinality(Starts(line)) \in Nat /\ Cardinality(UpTo(line, p)) \in Nat
           /\ Cardinality(UpTo(line, p)) <= Cardinality(Starts(line))
<1>1. Starts(line) \subseteq 1 .. Len(line)
  BY LineChars DEF Starts
<1>2. IsFiniteSet(1 .. Len(line))
  BY LineChars, FS_Interval
<1>3. IsFiniteSet(Starts(line))
  BY <1>1, <1>2, FS_Subset
<1>4. UpTo(line, p) \in SUBSET Starts(line)
  BY DEF UpTo
<1>5. /\ IsFiniteSet(UpTo(line, p))
      /\ Cardinality(UpTo(line, p)) <= Cardinality(Starts(line))
  BY <1>3, <1>4, FS_Subset, Zenon
<1> QED
  BY <1>1, <1>3, <1>5, FS_CardinalityType

(* The number of words up to its beginning determines a word. *)
LEMMA StartIs ==
    ASSUME NEW line \in Lines, NEW f \in Starts(line)
    PROVE  StartOf(line, Cardinality(UpTo(line, f))) = f
<1>1. Starts(line) \subseteq Nat
  <2>1. Starts(line) \subseteq 1 .. Len(line) /\ Len(line) \in Nat
    BY LineChars, StartsFinite
  <2> QED
    BY <2>1
<1>2. ASSUME NEW a \in Starts(line), NEW b \in Starts(line), a < b,
             Cardinality(UpTo(line, a)) = Cardinality(UpTo(line, b))
      PROVE  FALSE
  <2>1. UpTo(line, a) \in SUBSET UpTo(line, b)
    BY <1>1, <1>2 DEF UpTo
  <2>2. IsFiniteSet(UpTo(line, b))
    BY <1>1, StartsFinite
  <2>3. UpTo(line, b) = UpTo(line, a)
    BY <1>2, <2>1, <2>2, FS_Subset, Zenon
  <2>4. b \in UpTo(line, b) /\ b \notin UpTo(line, a)
    BY <1>1, <1>2 DEF UpTo
  <2> QED
    BY <2>3, <2>4
<1>3. ASSUME NEW k \in Starts(line), Cardinality(UpTo(line, k)) = Cardinality(UpTo(line, f))
      PROVE  k = f
  <2>1. k < f \/ f < k \/ k = f
    BY <1>1
  <2> QED
    BY <1>2, <1>3, <2>1
<1> DEFINE n == Cardinality(UpTo(line, f))
<1>4. StartOf(line, n) = CHOOSE k \in Starts(line) : Cardinality(UpTo(line, k)) = n
  BY DEF StartOf, UpTo
<1> QED
  BY <1>3, <1>4

LEMMA WordsShape ==
    ASSUME NEW line \in Lines
    PROVE  /\ Len(Words(line)) = Cardinality(Starts(line))
           /\ \E S : Words(line) \in Seq(S)
<1> DEFINE n == Cardinality(Starts(line))
           S == {WordAt(line, StartOf(line, k)) : k \in 1 .. n}
<1>1. n \in Nat
  BY StartsFinite
<1>2. Words(line) = [k \in 1 .. n |-> WordAt(line, StartOf(line, k))]
  BY DEF Words
<1> HIDE DEF n
<1>3. Words(line) \in [1 .. n -> S]
  BY <1>2
<1> HIDE DEF S
<1>4. Words(line) \in Seq(S) /\ Len(Words(line)) = n
  BY <1>1, <1>3
<1> QED
  BY <1>4 DEF n

(* What has been given is a prefix of the words; all of them when no word  *)
(* begins further behind.                                                  *)
LEMMA GivenPrefix ==
    ASSUME NEW line \in Lines, NEW p \in Nat
    PROVE  /\ IsPrefix(Given(line, p), Words(line))
           /\ Starts(line) \subseteq 0 .. p => Given(line, p) = Words(line)
<1> DEFINE n == Cardinality(UpTo(line, p))
           m == Cardinality(Starts(line))
           w == Words(line)
           g == Given(line, p)
<1>1. n \in Nat /\ m \in Nat /\ n <= m
  BY StartsFinite
<1>2. PICK S : w \in Seq(S)
  BY WordsShape
<1>3. Len(w) = m /\ g = [k \in 1 .. n |-> w[k]]
  BY WordsShape DEF Given
<1>4. Starts(line) \subseteq 0 .. p => n = m
  <2> SUFFICES ASSUME Starts(line) \subseteq 0 .. p PROVE UpTo(line, p) = Starts(line)
    OBVIOUS
  <2> QED
    BY DEF UpTo
<1> HIDE DEF n, m, w, g
<1>5. g \in Seq(S) /\ Len(g) = n
  BY <1>1, <1>2, <1>3
<1>6. SubSeq(g, 1, n) = SubSeq(w, 1, n)
  BY <1>1, <1>2, <1>3, <1>5
<1>7. IsPrefix(g, w)
  BY <1>1, <1>3, <1>5, <1>6 DEF IsPrefix
<1>8. n = m => g = w
  BY <1>1, <1>2, <1>3
<1> QED
  BY <1>4, <1>7, <1>8 DEF g, w

(* One word more. *)
LEMMA GivenMore ==
    ASSUME NEW line \in Lines, NEW p \in Nat, NEW q \in Nat, NEW f \in Starts(line), p < f,
           UpTo(line, q) = UpTo(line, p) \cup {f}, UpTo(line, f) = UpTo(line, p) \cup {f}
    PROVE  Given(line, q) = Append(Given(line, p), WordAt(line, f))
<1> DEFINE n == Cardinality(UpTo(line, p))
           m == Cardinality(Starts(line))
           w == Words(line)
           g == Given(line, p)
           h == Given(line, q)
           x == WordAt(line, f)
<1>1. n \in Nat /\ m \in Nat
  BY StartsFinite
<1>2. f \notin UpTo(line, p) /\ f \in Nat
  <2>1. f \in 1 .. Len(line) /\ Len(line) \in Nat
    BY StartsFinite, LineChars
  <2> QED
    BY <2>1 DEF UpTo
<1>3. Cardinality(UpTo(line, p) \cup {f}) = n + 1
  BY <1>2, StartsFinite, FS_AddElement
<1>4. Cardinality(UpTo(line, f)) = n + 1 /\ Cardinality(UpTo(line, q)) = n + 1
  BY <1>3
<1>5. n + 1 <= m
  BY <1>2, <1>4, StartsFinite
<1>6. StartOf(line, n + 1) = f
  BY <1>4, StartIs
<1>7. w = [k \in 1 .. m |-> WordAt(line, StartOf(line, k))]
  BY DEF Words
<1>8. g = [k \in 1 .. n |-> w[k]] /\ h = [k \in 1 .. n + 1 |-> w[k]]
  BY <1>4 DEF Given
<1>9. w[n + 1] = x
  <2>1. n + 1 \in 1 .. m
    <3> HIDE DEF n, m
    <3> QED
      BY <1>1, <1>5
  <2> HIDE DEF n, m, w
  <2> QED
    BY <1>6, <1>7, <2>1
<1>10. PICK S : w \in Seq(S)
  BY WordsShape
<1>11. Len(w) = m
  BY WordsShape
<1> HIDE DEF n, m, w, g, h, x
<1>12. g \in Seq(S) /\ Len(g) = n
  BY <1>1, <1>5, <1>8, <1>10, <1>11
<1>13. x \in S
  BY <1>1, <1>5, <1>9, <1>10, <1>11
<1>14. h \in Seq(S) /\ Len(h) = n + 1
  BY <1>1, <1>5, <1>8, <1>10, <1>11
<1> DEFINE a == Append(g, x)
<1>15. /\ a \in [1 .. n + 1 -> S]
       /\ \A k \in 1 .. n + 1 : a[k] = IF k = n + 1 THEN x ELSE g[k]
  <2>1. a \in Seq(S) /\ Len(a) = n + 1
    BY <1>12, <1>13
  <2>2. a \in [1 .. n + 1 -> S]
    <3> HIDE DEF a
    <3>1. a \in [1 .. Len(a) -> S]
      BY <2>1
    <3> QED
      BY <2>1, <3>1
  <2>3. \A k \in 1 .. n + 1 : a[k] = IF k = n + 1 THEN x ELSE g[k]
    BY <1>1, <1>12, <1>13
  <2> QED
    BY <2>2, <2>3
<1> HIDE DEF a
<1>16. h = a
  <2>1. h \in [1 .. n + 1 -> S]
    BY <1>14
  <2>2. ASSUME NEW k \in 1 .. n + 1 PROVE h[k] = a[k]
    <3>1. h[k] = w[k]
      BY <1>8
    <3>2. CASE k = n + 1
      BY <1>9, <1>15, <3>1, <3>2
    <3>3. CASE k # n + 1
      <4>1. k \in 1 .. n
        BY <1>1, <3>3
      <4>2. g[k] = w[k]
        BY <1>8, <4>1
      <4> QED
        BY <1>15, <3>1, <3>3, <4>2
    <3> QED
      BY <3>2, <3>3
  <2>3. h = [k \in 1 .. n + 1 |-> h[k]] /\ a = [k \in 1 .. n + 1 |-> a[k]]
    BY <1>15, <2>1
  <2>4. [k \in 1 .. n + 1 |-> h[k]] = [k \in 1 .. n + 1 |-> a[k]]
    BY <2>2
  <2> QED
    BY <2>3, <2>4
<1> QED
  BY <1>16 DEF g, h, x, a

(* strtok from position p on, when the array holds the line: the rest is   *)
(* blank, ...                                                              *)
LEMMA NoWordLeft ==
    ASSUME NEW a \in [0 .. BufSize -> Bytes], NEW line, NEW p, Holds(a, line, p),
           NEW first \in p .. Len(line), first = Len(line),
           \A k \in p .. first - 1 : a[k] = Blank
    PROVE  Starts(line) \subseteq 0 .. p
<1>1. /\ Len(line) \in Nat /\ p \in 0 .. Len(line) /\ line \in Lines
      /\ \A k \in p .. Len(line) - 1 : a[k] = line[k + 1]
  BY LineChars DEF Holds
<1> SUFFICES ASSUME NEW j \in Starts(line), ~(j <= p) PROVE FALSE
  BY <1>1, StartsFinite
<1>2. j \in 1 .. Len(line) /\ line[j] # Blank
  BY <1>1, LineChars DEF Starts
<1>3. j - 1 \in p .. Len(line) - 1 /\ (j - 1) + 1 = j
  BY <1>1, <1>2
<1>4. a[j - 1] = line[j] /\ a[j - 1] = Blank
  BY <1>1, <1>3
<1> QED
  BY <1>2, <1>4

(* ... or a word begins behind the blanks, and ends at the next one.       *)
IsToken(a, line, p, first, last) ==
    /\ first \in p .. Len(line) - 1 /\ a[first] # Blank
    /\ \A k \in p .. first - 1 : a[k] = Blank
    /\ last \in first .. Len(line) /\ a[last] \in {Blank, NUL}
    /\ \A k \in first .. last - 1 : a[k] \notin {Blank, NUL}

Behind(a, last) == IF a[last] = Blank THEN last + 1 ELSE last

LEMMA WordLeft ==
    ASSUME NEW a \in [0 .. BufSize -> Bytes], NEW line, NEW p, Holds(a, line, p),
           NEW first, NEW last, IsToken(a, line, p, first, last)
    PROVE  /\ first + 1 \in Starts(line) /\ StopOf(line, first + 1) = last + 1 /\ first < last
           /\ UpTo(line, first + 1) = UpTo(line, p) \cup {first + 1}
           /\ UpTo(line, Behind(a, last)) = UpTo(line, p) \cup {first + 1}
           /\ Holds([a EXCEPT ![last] = NUL], line, Behind(a, last))
<1> DEFINE L == Len(line)
           f == first + 1
           q == Behind(a, last)
<1>1. /\ L \in Nat /\ p \in 0 .. L /\ line \in Lines /\ DOMAIN line = 1 .. L
      /\ L < BufSize /\ BufSize \in Nat
      /\ \A k \in p .. L - 1 : a[k] = line[k + 1]
      /\ a[L] = NUL
      /\ p = 0 \/ p = L \/ line[p] = Blank
      /\ \A k \in 1 .. L : line[k] # NUL
  BY LineChars, ShellAssumption DEF Holds
<1> HIDE DEF L
<1>2. /\ first \in p .. L - 1 /\ last \in first .. L
      /\ a[first] # Blank /\ a[last] \in {Blank, NUL}
      /\ \A k \in p .. first - 1 : a[k] = Blank
      /\ \A k \in first .. last - 1 : a[k] \notin {Blank, NUL}
      /\ q = IF a[last] = Blank THEN last + 1 ELSE last
  BY DEF L, IsToken, Behind
<1> HIDE DEF q
<1>3. a[first] = line[f] /\ line[f] # Blank /\ line[f] # NUL /\ f \in 1 .. L
  BY <1>1, <1>2
<1>4. first < last
  BY <1>1, <1>2, <1>3
<1>5. f \in Starts(line)
  <2> SUFFICES f = 1 \/ line[f - 1] = Blank
    BY <1>1, <1>3 DEF Starts
  <2>1. CASE first = p
    BY <1>1, <1>2, <2>1
  <2>2. CASE first # p
    <3>1. first - 1 \in p .. first - 1 /\ first - 1 \in p .. L - 1 /\ (first - 1) + 1 = f - 1
      BY <1>1, <1>2, <2>2
    <3> QED
      BY <1>1, <1>2, <3>1
  <2> QED
    BY <2>1, <2>2
<1>6. last < L => a[last] = Blank /\ line[last + 1] = Blank
  BY <1>1, <1>2
<1>7. last = L => a[last] = NUL /\ a[last] # Blank
  BY <1>1 DEF NUL, Blank
<1>8. StopOf(line, f) = last + 1
  <2> DEFINE S == {e \in f .. L + 1 : e = L + 1 \/ line[e] = Blank}
  <2>1. StopOf(line, f) = Min(S)
    BY DEF StopOf, L
  <2>2. last + 1 \in S
    BY <1>1, <1>2, <1>4, <1>6
  <2>3. ASSUME NEW e \in S PROVE last + 1 <= e
    <3>1. CASE e = L + 1
      BY <1>1, <1>2, <3>1
    <3>2. CASE e # L + 1 /\ ~(last + 1 <= e)
      <4>1. e - 1 \in first .. last - 1 /\ e - 1 \in p .. L - 1 /\ (e - 1) + 1 = e
        BY <1>1, <1>2, <3>2
      <4>2. a[e - 1] = line[e] /\ a[e - 1] # Blank
        BY <1>1, <1>2, <4>1
      <4> QED
        BY <3>2, <4>2
    <3> QED
      BY <3>1, <3>2
  <2>4. S \subseteq Nat
    BY <1>1, <1>2
  <2> HIDE DEF S
  <2> QED
    BY <2>1, <2>2, <2>3, <2>4, MinIs
<1>9. q \in f .. L /\ q <= last + 1 /\ (q = last + 1 => line[last + 1] = Blank)
  BY <1>1, <1>2, <1>4, <1>6, <1>7
<1>10. ASSUME NEW j \in Starts(line), p < j, j <= q PROVE j = f
  <2>1. j \in 1 .. L /\ line[j] # Blank /\ (j = 1 \/ line[j - 1] = Blank)
    BY <1>1 DEF Starts
  <2>2. CASE j < f
    <3>1. j - 1 \in p .. first - 1 /\ j - 1 \in p .. L - 1 /\ (j - 1) + 1 = j
      BY <1>1, <1>2, <1>10, <2>1, <2>2
    <3> QED
      BY <1>1, <1>2, <2>1, <3>1
  <2>3. CASE f < j
    <3>1. j <= last
      BY <1>1, <1>2, <1>9, <1>10, <2>1
    <3>2. /\ j - 2 \in first .. last - 1 /\ j - 2 \in p .. L - 1 /\ (j - 2) + 1 = j - 1
          /\ j # 1
      BY <1>1, <1>2, <2>1, <2>3, <3>1
    <3>3. a[j - 2] = line[j - 1] /\ a[j - 2] # Blank
      BY <1>1, <1>2, <3>2
    <3> QED
      BY <2>1, <3>2, <3>3
  <2> QED
    BY <1>2, <1>1, <2>1, <2>2, <2>3
<1>11. ASSUME NEW r \in f .. q PROVE UpTo(line, r) = UpTo(line, p) \cup {f}
  <2>1. Starts(line) \subseteq Nat
    BY <1>1 DEF Starts
  <2>2. ASSUME NEW j \in Starts(line) PROVE j <= r <=> j <= p \/ j = f
    BY <1>1, <1>2, <1>9, <1>10, <2>1
  <2> QED
    BY <1>5, <2>2 DEF UpTo
<1>12. Holds([a EXCEPT ![last] = NUL], line, q)
  <2> DEFINE b == [a EXCEPT ![last] = NUL]
  <2>1. ASSUME NEW k \in q .. L - 1 PROVE b[k] = line[k + 1]
    <3>1. k # last /\ k \in p .. L - 1 /\ k \in 0 .. BufSize
      BY <1>1, <1>2, <1>6, <1>7, <1>9
    <3> QED
      BY <1>1, <3>1
  <2>2. b[L] = NUL
    BY <1>1, <1>2
  <2>3. q = L \/ line[q] = Blank
    BY <1>1, <1>2, <1>6, <1>7
  <2>4. q \in 0 .. L
    BY <1>1, <1>2, <1>9
  <2> HIDE DEF b
  <2>5. Holds(b, line, q)
    BY <1>1, <2>1, <2>2, <2>3, <2>4 DEF Holds, L
  <2> QED
    BY <2>5 DEF b
<1>13. f \in f .. q /\ q \in f .. q
  BY <1>1, <1>2, <1>9
<1> QED
  BY <1>4, <1>5, <1>8, <1>11, <1>12, <1>13 DEF q

(* The argument that is made of such a word: what fits of it. *)
Part(line, start, stop) == SubSeq(line, start, Min({stop, start + ArgSize - 1}) - 1)

HoldsPart(a, line, first, last) == Argument(a, first) = Part(line, first + 1, last + 1)

LEMMA ArgumentIs ==
    ASSUME NEW a \in [0 .. BufSize -> Bytes], NEW line, NEW p, Holds(a, line, p),
           NEW first, NEW last, IsToken(a, line, p, first, last)
    PROVE  HoldsPart([a EXCEPT ![last] = NUL], line, first, last)
<1> DEFINE L == Len(line)
           f == first + 1
           b == [a EXCEPT ![last] = NUL]
           l == last - first
           m == IF l <= ArgSize - 1 THEN l ELSE ArgSize - 1
           word == [n \in 1 .. l |-> line[f + n - 1]]
<1>1. /\ L \in Nat /\ p \in 0 .. L /\ line \in Lines
      /\ L < BufSize /\ BufSize \in Nat /\ ArgSize \in Nat \ {0}
      /\ \A k \in p .. L - 1 : a[k] = line[k + 1]
      /\ \A k \in 1 .. L : line[k] \in Bytes
  BY LineChars, ShellAssumption DEF Holds
<1> HIDE DEF L
<1>2. /\ first \in p .. L - 1 /\ last \in first .. L
      /\ \A k \in first .. last - 1 : a[k] \notin {Blank, NUL}
      /\ first < last
  BY WordLeft DEF L, IsToken
<1>3. b \in [0 .. BufSize -> Bytes] /\ b[last] = NUL /\ \A k \in first .. last - 1 : b[k] = a[k]
  BY <1>1, <1>2 DEF Bytes
<1> HIDE DEF b
<1>4. Min({e \in DOMAIN b : e >= first /\ b[e] = NUL}) = last
  <2> DEFINE S == {e \in DOMAIN b : e >= first /\ b[e] = NUL}
  <2>1. last \in S /\ S \subseteq Nat
    BY <1>1, <1>2, <1>3
  <2>2. ASSUME NEW e \in S PROVE last <= e
    <3> SUFFICES ASSUME ~(last <= e) PROVE FALSE
      OBVIOUS
    <3>1. e \in first .. last - 1 /\ b[e] = NUL
      BY <1>1, <1>2, <1>3
    <3> QED
      BY <1>2, <1>3, <3>1
  <2> HIDE DEF S
  <2>3. Min(S) = last
    BY <2>1, <2>2, MinIs
  <2> QED
    BY <2>3 DEF S
<1>5. StringAt(b, first) = [n \in 1 .. l |-> b[first + n - 1]]
  BY <1>4 DEF StringAt
<1>6. ASSUME NEW n \in 1 .. l PROVE b[first + n - 1] = line[f + n - 1]
  <2>1. /\ first + n - 1 \in first .. last - 1 /\ first + n - 1 \in p .. L - 1
        /\ (first + n - 1) + 1 = f + n - 1
    BY <1>1, <1>2
  <2> QED
    BY <1>1, <1>3, <2>1
<1>7. StringAt(b, first) = word
  BY <1>5, <1>6
<1>8. l \in Nat \ {0} /\ m \in 0 .. l /\ m \in Nat
  BY <1>1, <1>2
<1>9. word \in Seq(Bytes) /\ Len(word) = l
  <2>1. ASSUME NEW n \in 1 .. l PROVE line[f + n - 1] \in Bytes
    <3>1. f + n - 1 \in 1 .. L
      BY <1>1, <1>2
    <3> QED
      BY <1>1, <3>1
  <2> HIDE DEF l
  <2>2. word \in [1 .. l -> Bytes]
    BY <2>1
  <2> HIDE DEF word
  <2> QED
    BY <1>8, <2>2
<1> DEFINE A == {l, ArgSize - 1}
           B == {last + 1, f + ArgSize - 1}
           M == Min(B)
<1>10. Min(A) = m
  <2>1. A \subseteq Nat /\ m \in A /\ \A y \in A : m <= y
    BY <1>1, <1>8
  <2> HIDE DEF m, A
  <2> QED
    BY <2>1, MinIs
<1>11. M = f + m
  <2> DEFINE z == f + m
  <2>1. B \subseteq Nat /\ z \in B /\ \A y \in B : z <= y
    BY <1>1, <1>2
  <2> HIDE DEF z, B
  <2>2. Min(B) = z
    BY <2>1, MinIs
  <2> QED
    BY <2>2 DEF z
<1> HIDE DEF m, l
<1>12. Argument(b, first) = SubSeq(word, 1, m)
  BY <1>7, <1>9, <1>10 DEF Argument
<1>13. SubSeq(word, 1, m) = [n \in 1 .. m |-> line[f + n - 1]]
  <2>1. ASSUME NEW n \in 1 .. m PROVE word[n] = line[f + n - 1]
    BY <1>8
  <2> HIDE DEF word
  <2>2. SubSeq(word, 1, m) = [n \in 1 .. m |-> word[n]]
    BY <1>8, <1>9
  <2> QED
    BY <2>1, <2>2
<1>14. SubSeq(line, f, f + m - 1) = [n \in 1 .. m |-> line[f + n - 1]]
  <2> DEFINE z == f + m - 1
  <2>1. f \in Nat /\ z \in Int /\ z - f + 1 = m
    BY <1>1, <1>2, <1>8
  <2> HIDE DEF z, f
  <2>2. SubSeq(line, f, z) = [n \in 1 .. z - f + 1 |-> line[f + n - 1]]
    <3>1. line \in Seq(Letters \cup {Blank})
      BY <1>1 DEF Lines
    <3> QED
      BY <2>1, <3>1
  <2>3. SubSeq(line, f, z) = [n \in 1 .. m |-> line[f + n - 1]]
    BY <2>1, <2>2, Zenon
  <2> QED
    BY <2>3 DEF z
<1> HIDE DEF M
<1>15. SubSeq(line, f, M - 1) = SubSeq(line, f, f + m - 1)
  <2>1. M - 1 = f + m - 1
    BY <1>1, <1>2, <1>8, <1>11
  <2> QED
    BY <2>1, Zenon
<1>16. Argument(b, first) = SubSeq(line, f, M - 1)
  BY <1>12, <1>13, <1>14, <1>15, Zenon
<1> QED
  <2>1. HoldsPart(b, line, first, last)
    BY <1>16, Zenon DEF M, Part, HoldsPart
  <2> QED
    BY <2>1 DEF b

(* strtok of an array, from position start on. *)
TokenAt(array, start) ==
    LET first == Min({k \in DOMAIN array : k >= start /\ array[k] # Blank})
        last  == Min({k \in DOMAIN array : k >= first /\ array[k] \in {Blank, NUL}})
    IN  IF start = NULL THEN [sp |-> NULL, a |-> array, token |-> NULL]
        ELSE IF array[first] = NUL THEN [sp |-> NULL, a |-> array, token |-> NULL]
        ELSE [sp |-> IF array[last] = Blank THEN last + 1 ELSE last,
              a |-> [array EXCEPT ![last] = NUL], token |-> first]

LEMMA StrtokAt ==
    ASSUME NEW str
    PROVE  strtok(str) = TokenAt(scommand, IF sp = NULL THEN str ELSE sp)
  BY Zenon DEF strtok, TokenAt

(* Without a token strtok forgets its place. *)
LEMMA TokenEnds ==
    ASSUME NEW array, NEW start, TokenAt(array, start).token = NULL,
           \A k \in DOMAIN array : k \in Nat, \E k \in DOMAIN array : k >= start /\ array[k] = NUL
    PROVE  TokenAt(array, start).sp = NULL
<1> DEFINE Begins == {k \in DOMAIN array : k >= start /\ array[k] # Blank}
           first == Min(Begins)
           last == Min({k \in DOMAIN array : k >= first /\ array[k] \in {Blank, NUL}})
<1>1. first \in Begins
  <2>1. Begins \subseteq Nat /\ Begins # {}
    BY DEF NUL, Blank
  <2> HIDE DEF Begins
  <2> QED
    BY <2>1, MinElement
<1>2. first # NULL
  BY <1>1 DEF NULL
<1> HIDE DEF first
<1>3. TokenAt(array, start) = IF start = NULL THEN [sp |-> NULL, a |-> array, token |-> NULL]
        ELSE IF array[first] = NUL THEN [sp |-> NULL, a |-> array, token |-> NULL]
        ELSE [sp |-> IF array[last] = Blank THEN last + 1 ELSE last,
              a |-> [array EXCEPT ![last] = NUL], token |-> first]
  BY DEF TokenAt, first
<1> HIDE DEF last
<1> QED
  BY <1>2, <1>3

(* A round of strtok when the array holds the line. *)
LEMMA TokenIs ==
    ASSUME NEW array \in [0 .. BufSize -> Bytes], NEW line, NEW p, Holds(array, line, p)
    PROVE  LET t == TokenAt(array, p)
           IN  \/ t.token = NULL /\ t.sp = NULL /\ Starts(line) \subseteq 0 .. p
               \/ /\ t.token # NULL /\ Holds(t.a, line, t.sp)
                  /\ Append(Given(line, p), Argument(t.a, t.token)) = Given(line, t.sp)
<1> DEFINE L == Len(line)
           Begins == {k \in DOMAIN array : k >= p /\ array[k] # Blank}
           first == Min(Begins)
           Ends == {k \in DOMAIN array : k >= first /\ array[k] \in {Blank, NUL}}
           last == Min(Ends)
           t == TokenAt(array, p)
           q == IF array[last] = Blank THEN last + 1 ELSE last
           b == [array EXCEPT ![last] = NUL]
<1>1. /\ L \in Nat /\ p \in 0 .. L /\ line \in Lines /\ L < BufSize /\ BufSize \in Nat
      /\ array[L] = NUL
      /\ \A k \in p .. L - 1 : array[k] = line[k + 1] /\ array[k] # NUL
  BY LineChars, ShellAssumption DEF Holds, NUL
<1>2. t = IF p = NULL THEN [sp |-> NULL, a |-> array, token |-> NULL]
          ELSE IF array[first] = NUL THEN [sp |-> NULL, a |-> array, token |-> NULL]
          ELSE [sp |-> q, a |-> b, token |-> first]
  BY Zenon DEF TokenAt
<1> HIDE DEF t
<1>3. p # NULL
  BY <1>1 DEF NULL
<1>4. first \in Begins /\ \A k \in Begins : first <= k
  <2>1. L \in Begins /\ Begins \subseteq Nat
    BY <1>1 DEF NUL, Blank
  <2> HIDE DEF Begins
  <2> QED
    BY <2>1, MinElement
<1> HIDE DEF first, L
<1>5. first \in p .. L /\ array[first] # Blank /\ \A k \in p .. first - 1 : array[k] = Blank
  <2>1. L \in Begins
    BY <1>1 DEF NUL, Blank
  <2>2. first \in p .. L
    BY <1>1, <1>4, <2>1
  <2>3. ASSUME NEW k \in p .. first - 1, array[k] # Blank PROVE FALSE
    <3>1. k \in Begins
      BY <1>1, <2>2, <2>3
    <3> QED
      BY <1>1, <1>4, <2>2, <3>1
  <2> QED
    BY <1>4, <2>2, <2>3
<1>6. CASE first = L
  <2>1. array[first] = NUL
    BY <1>1, <1>6
  <2>2. t.token = NULL /\ t.sp = NULL
    BY <1>2, <1>3, <2>1
  <2>3. Starts(line) \subseteq 0 .. p
    BY <1>1, <1>5, <1>6, NoWordLeft DEF L
  <2> QED
    BY <2>2, <2>3 DEF t
<1>7. CASE first # L
  <2>1. first \in p .. L - 1
    BY <1>1, <1>5, <1>7
  <2>2. last \in Ends /\ \A k \in Ends : last <= k
    <3>1. L \in Ends /\ Ends \subseteq Nat
      BY <1>1, <2>1
    <3> HIDE DEF Ends
    <3> QED
      BY <3>1, MinElement
  <2> HIDE DEF last
  <2>3. /\ last \in first .. L /\ array[last] \in {Blank, NUL}
        /\ \A k \in first .. last - 1 : array[k] \notin {Blank, NUL}
    <3>1. L \in Ends
      BY <1>1, <2>1
    <3>2. last \in first .. L
      BY <1>1, <2>1, <2>2, <3>1
    <3>3. ASSUME NEW k \in first .. last - 1, array[k] \in {Blank, NUL} PROVE FALSE
      <4>1. k \in Ends
        BY <1>1, <2>1, <3>2, <3>3
      <4> QED
        BY <1>1, <2>1, <2>2, <3>2, <4>1
    <3> QED
      BY <2>2, <3>2, <3>3
  <2>4. t = [sp |-> q, a |-> b, token |-> first]
    BY <1>1, <1>2, <1>3, <2>1
  <2>5. IsToken(array, line, p, first, last) /\ q = Behind(array, last)
    BY <1>5, <2>1, <2>3 DEF L, IsToken, Behind
  <2> HIDE DEF q, Begins, Ends
  <2>6. /\ first + 1 \in Starts(line) /\ StopOf(line, first + 1) = last + 1 /\ first < last
        /\ UpTo(line, first + 1) = UpTo(line, p) \cup {first + 1}
        /\ UpTo(line, q) = UpTo(line, p) \cup {first + 1}
        /\ Holds(b, line, q)
    <3>1. IsToken(array, line, p, first, last) /\ array \in [0 .. BufSize -> Bytes]
      BY <2>5
    <3>2. q = Behind(array, last)
      BY <2>5
    <3>3. /\ first + 1 \in Starts(line) /\ StopOf(line, first + 1) = last + 1 /\ first < last
          /\ UpTo(line, first + 1) = UpTo(line, p) \cup {first + 1}
          /\ UpTo(line, Behind(array, last)) = UpTo(line, p) \cup {first + 1}
          /\ Holds(b, line, Behind(array, last))
      BY <3>1, WordLeft, Zenon
    <3> QED
      BY <3>2, <3>3
  <2>7. HoldsPart(b, line, first, last)
    BY <2>5, ArgumentIs, Zenon
  <2> HIDE DEF b
  <2>8. Argument(b, first) = Part(line, first + 1, last + 1)
    BY <2>7 DEF HoldsPart
  <2>9. Argument(b, first) = WordAt(line, first + 1)
    BY <2>6, <2>8, Zenon DEF WordAt, Part
  <2>10. Given(line, q) = Append(Given(line, p), WordAt(line, first + 1))
    <3>1. q \in 0 .. L
      BY <2>6 DEF Holds, L
    <3>2. p \in Nat /\ q \in Nat /\ p < first + 1
      <4>1. p \in Int /\ p >= 0 /\ L \in Nat
        BY <1>1
      <4>2. first \in Int /\ first >= p
        BY <2>1, <4>1
      <4> QED
        BY <3>1, <4>1, <4>2
    <3> QED
      BY <1>1, <2>6, <3>2, GivenMore, Zenon
  <2>11. t.sp = q /\ t.a = b /\ t.token = first /\ first # NULL
    <3>1. first # NULL
      BY <1>1, <2>1 DEF NULL
    <3> QED
      BY <2>4, <3>1
  <2> QED
    BY <2>6, <2>9, <2>10, <2>11 DEF t
<1> QED
  BY <1>6, <1>7

-------------------------------------------------------------------------------
(* The steps of the shell. *)

LEMMA InitArgv == ShellInit => ArgvInv
<1> SUFFICES ASSUME ShellInit PROVE ArgvInv
  OBVIOUS
<1>1. pc = "prompt" /\ started = NoArgs /\ sp = NULL /\ failed = <<FALSE, FALSE>>
  BY DEF ShellInit
<1> QED
  BY <1>1 DEF ArgvInv, ArgvIsTyped, Pair

(* A new line; the end of a command; another process that writes. *)
LEMMA PromptArgv == ASSUME ArgvInv, PrintPrompt PROVE ArgvInv'
<1>1. /\ pc = "prompt" /\ pc' = "read" /\ started' = NoArgs /\ i' = 0 /\ typed' = <<>>
      /\ failed' = failed /\ sp' = sp
  BY DEF PrintPrompt
<1>2. typed' \in Lines /\ Len(typed') = i'
  BY <1>1 DEF Lines
<1>3. \A k \in 0 .. i' - 1 : out'[k] = typed'[k + 1]
  BY <1>1
<1> QED
  BY <1>1, <1>2, <1>3 DEF ArgvInv, ArgvIsTyped

LEMMA IdleArgv == ASSUME ArgvInv, EndCommand \/ pandora_system PROVE ArgvInv'
<1>1. CASE EndCommand
  <2>1. /\ pc = "done" /\ pc' = "prompt"
        /\ UNCHANGED <<started, failed, sp, spoilt, typed>>
    BY <1>1 DEF EndCommand
  <2> QED
    BY <2>1 DEF ArgvInv, ArgvIsTyped
<1>2. CASE pandora_system
  <2>1. /\ pc = "system" /\ pc' = "done" /\ started' \in {arguments, NoArgs}
        /\ UNCHANGED <<failed, sp, spoilt, typed>>
    BY <1>2 DEF pandora_system
  <2>2. ArgvIsTyped'
    BY <2>1 DEF ArgvInv, ArgvIsTyped, Clean
  <2> QED
    BY <2>1, <2>2 DEF ArgvInv
<1> QED
  BY <1>1, <1>2

LEMMA OtherArgv ==
    ASSUME ArgvInv, UNCHANGED <<pc, out, i, scommand, sp, arguments, started, typed, failed>>,
           "empty" \in spoilt' <=> "empty" \in spoilt
    PROVE  ArgvInv'
<1>1. Clean' <=> Clean
  BY DEF Clean
<1>2. ArgvIsTyped'
  BY DEF ArgvInv, ArgvIsTyped
<1> QED
  BY <1>1, <1>2 DEF ArgvInv, Holds

(* Typing. *)
LEMMA ReadKeyArgv == ASSUME ShapeInv, ArgvInv, NEW key \in Keys, ReadKey(key) PROVE ArgvInv'
<1>1. /\ pc = "read" /\ pc' = "read" /\ started = NoArgs
      /\ UNCHANGED <<scommand, sp, arguments, started, failed>>
      /\ key # Enter /\ i < BufSize - 1
  BY DEF ReadKey, RoomLeft, ArgvInv
<1>2. out \in [0 .. BufSize - 1 -> Bytes] /\ i \in 0 .. BufSize - 1 /\ BufSize \in Nat
  BY ShellAssumption DEF ShapeInv, ShellShapes, ShellTypeOK
<1>3. ASSUME "empty" \notin spoilt'
      PROVE  /\ typed' \in Lines /\ Len(typed') = i'
             /\ \A k \in 0 .. i' - 1 : out'[k] = typed'[k + 1]
  <2>1. "empty" \notin spoilt
    BY <1>3 DEF ReadKey
  <2>2. /\ typed \in Lines /\ Len(typed) = i
        /\ \A k \in 0 .. i - 1 : out[k] = typed[k + 1]
    BY <1>1, <2>1 DEF ArgvInv
  <2>3. CASE key = Backspace
    <3>1. i # 0
      BY <1>3, <2>3 DEF ReadKey
    <3>2. i >= 1
      BY <1>2, <3>1
    <3>3. out' = [out EXCEPT ![i - 1] = NUL] /\ i' = i - 1 /\ typed' = SubSeq(typed, 1, i - 1)
      BY <2>2, <2>3, <3>2 DEF ReadKey, Front
    <3>4. typed' \in Lines /\ Len(typed') = i - 1 /\ \A k \in 1 .. i - 1 : typed'[k] = typed[k]
      <4> DEFINE t == typed'
                 n == i - 1
      <4>1. t = SubSeq(typed, 1, n) /\ typed \in Seq(Letters \cup {Blank})
            /\ n \in Nat /\ n <= Len(typed)
        BY <1>2, <2>2, <3>2, <3>3 DEF Lines
      <4> HIDE DEF t, n
      <4>2. t \in Seq(Letters \cup {Blank}) /\ Len(t) = n /\ \A k \in 1 .. n : t[k] = typed[k]
        BY <4>1
      <4> QED
        BY <4>2 DEF t, n, Lines
    <3>5. ASSUME NEW k \in 0 .. (i - 1) - 1 PROVE out'[k] = typed'[k + 1]
      <4>1. k \in 0 .. i - 1 /\ k # i - 1 /\ k + 1 \in 1 .. i - 1 /\ k \in 0 .. BufSize - 1
        BY <1>2, <3>2
      <4> QED
        BY <1>2, <2>2, <3>3, <3>4, <4>1
    <3> QED
      BY <3>3, <3>4, <3>5
  <2>4. CASE key # Backspace
    <3>1. out' = [out EXCEPT ![i] = key] /\ i' = i + 1 /\ typed' = Append(typed, key)
      BY <2>4 DEF ReadKey
    <3>2. key \in Letters \cup {Blank}
      BY <1>1, <2>4 DEF Keys
    <3>3. /\ typed' \in Lines /\ Len(typed') = i + 1 /\ typed'[i + 1] = key
          /\ \A k \in 1 .. i : typed'[k] = typed[k]
      BY <1>2, <2>2, <3>1, <3>2 DEF Lines
    <3>4. ASSUME NEW k \in 0 .. (i + 1) - 1 PROVE out'[k] = typed'[k + 1]
      <4>1. CASE k = i
        BY <1>2, <3>1, <3>3, <4>1
      <4>2. CASE k # i
        <5>1. k \in 0 .. i - 1 /\ k + 1 \in 1 .. i /\ k \in 0 .. BufSize - 1
          BY <1>2, <4>2
        <5> QED
          BY <1>2, <2>2, <3>1, <3>3, <4>2, <5>1
      <4> QED
        BY <4>1, <4>2
    <3> QED
      BY <3>1, <3>3, <3>4
  <2> QED
    BY <2>3, <2>4
<1> QED
  BY <1>1, <1>3 DEF ArgvInv, ArgvIsTyped

(* The copy of the line. *)
LEMMA EndLineArgv == ASSUME ShapeInv, ArgvInv, EndLine PROVE ArgvInv'
<1>1. /\ pc = "read" /\ pc' = "first" /\ started = NoArgs /\ started' = NoArgs
      /\ out' = [out EXCEPT ![i] = NUL]
      /\ scommand' = strncpy(scommand, StringAt(out', 0), BufSize + 1)
      /\ arguments' = <<>> /\ failed' = <<FALSE, failed[1]>>
      /\ sp' = sp /\ typed' = typed /\ spoilt' = spoilt
  BY DEF EndLine, ArgvInv
<1>2. /\ out \in [0 .. BufSize - 1 -> Bytes] /\ i \in 0 .. BufSize - 1 /\ BufSize \in Nat \ {0}
      /\ scommand \in [0 .. BufSize -> Bytes]
  BY ShellAssumption DEF ShapeInv, ShellShapes, ShellTypeOK
<1>3. Pair(failed') /\ ~failed'[1] /\ (failed'[2] <=> failed[1])
  BY <1>1 DEF ArgvInv, Pair
<1>4. ASSUME "empty" \notin spoilt
      PROVE  Holds(scommand', typed', 0) /\ arguments' = Given(typed', 0)
  <2>1. /\ typed \in Lines /\ Len(typed) = i
        /\ \A k \in 0 .. i - 1 : out[k] = typed[k + 1]
    BY <1>1, <1>4 DEF ArgvInv
  <2> DEFINE o == out'
             c == scommand'
             E == {e \in DOMAIN o : e >= 0 /\ o[e] = NUL}
  <2>2. /\ o \in [0 .. BufSize - 1 -> Bytes] /\ o[i] = NUL
        /\ \A k \in 0 .. i - 1 : o[k] = typed[k + 1] /\ o[k] # NUL
    <3>1. \A k \in 1 .. i : typed[k] # NUL
      BY <2>1, LineChars
    <3>2. o \in [0 .. BufSize - 1 -> Bytes] /\ o[i] = NUL
      BY <1>1, <1>2 DEF Bytes
    <3>3. ASSUME NEW k \in 0 .. i - 1 PROVE o[k] = typed[k + 1] /\ o[k] # NUL
      <4>1. k # i /\ k \in 0 .. BufSize - 1 /\ k + 1 \in 1 .. i
        BY <1>2
      <4> QED
        BY <1>1, <1>2, <2>1, <3>1, <4>1
    <3> QED
      BY <3>2, <3>3
  <2>3. c = strncpy(scommand, StringAt(o, 0), BufSize + 1)
    BY <1>1
  <2> HIDE DEF o, c
  <2>4. Min(E) = i
    <3>1. E \subseteq Nat /\ i \in E
      BY <1>2, <2>2
    <3>2. ASSUME NEW y \in E PROVE i <= y
      BY <1>2, <2>2
    <3> HIDE DEF E
    <3> QED
      BY <3>1, <3>2, MinIs
  <2>5. StringAt(o, 0) = [n \in 1 .. i |-> typed[n]]
    <3>1. StringAt(o, 0) = [n \in 1 .. i - 0 |-> o[0 + n - 1]]
      BY <2>4 DEF StringAt
    <3>2. i - 0 = i
      BY <1>2
    <3>3. ASSUME NEW n \in 1 .. i PROVE o[0 + n - 1] = typed[n]
      <4>1. n - 1 \in 0 .. i - 1 /\ (n - 1) + 1 = n /\ 0 + n - 1 = n - 1
        BY <1>2
      <4> QED
        BY <2>2, <4>1
    <3> QED
      BY <3>1, <3>2, <3>3
  <2>6. StringAt(o, 0) = typed
    <3>1. typed = [n \in 1 .. Len(typed) |-> typed[n]]
      BY <2>1 DEF Lines
    <3>2. typed = [n \in 1 .. i |-> typed[n]]
      BY <2>1, <3>1, Zenon
    <3> QED
      BY <2>5, <3>2, Zenon
  <2>7. c = strncpy(scommand, typed, BufSize + 1)
    BY <2>3, <2>6
  <2>8. c = [k \in 0 .. BufSize |-> IF k < i THEN typed[k + 1] ELSE IF k = i THEN NUL
                                    ELSE scommand[k]]
    <3>1. i < BufSize + 1 /\ DOMAIN scommand = 0 .. BufSize
      BY <1>2
    <3> QED
      BY <2>1, <2>7, <3>1 DEF strncpy
  <2>9. Holds(c, typed, 0)
    <3>1. c[i] = NUL
      BY <1>2, <2>8
    <3>2. ASSUME NEW k \in 0 .. i - 1 PROVE c[k] = typed[k + 1]
      BY <1>2, <2>8
    <3> QED
      BY <1>2, <2>1, <3>1, <3>2 DEF Holds
  <2>10. Given(typed, 0) = <<>>
    <3>1. UpTo(typed, 0) = {}
      <4>1. Starts(typed) \subseteq 1 .. i
        BY <2>1, StartsFinite
      <4> QED
        BY <1>2, <4>1 DEF UpTo
    <3>2. Cardinality(UpTo(typed, 0)) = 0
      BY <3>1, FS_EmptySet
    <3> QED
      BY <3>2 DEF Given
  <2> QED
    BY <1>1, <2>9, <2>10 DEF c
<1> QED
  BY <1>1, <1>3, <1>4 DEF ArgvInv, ArgvIsTyped, Clean

(* A round of strtok: a word more, the end, or no memory for the word. *)
LEMMA NextTokenArgv == ASSUME ShapeInv, ArgvInv, NextToken PROVE ArgvInv'
<1> DEFINE str == IF pc = "first" THEN 0 ELSE NULL
           t == strtok(str)
           p == IF pc = "first" THEN 0 ELSE sp
<1>1. /\ pc \in {"first", "next"} /\ started = NoArgs /\ started' = NoArgs /\ ~failed[1]
      /\ Pair(failed)
      /\ UNCHANGED <<typed, spoilt>>
  BY DEF NextToken, ArgvInv
<1>2. /\ sp' = t.sp /\ scommand' = t.a
      /\ \/ /\ t.token = NULL
            /\ pc' = IF arguments = <<>> THEN "done" ELSE "system"
            /\ arguments' = arguments /\ failed' = failed
         \/ /\ t.token # NULL
            /\ arguments' = Append(arguments, Argument(t.a, t.token))
            /\ pc' = "next" /\ failed' = failed
         \/ /\ t.token # NULL
            /\ pc' = IF arguments = <<>> THEN "done" ELSE "system"
            /\ failed' = [failed EXCEPT ![1] = TRUE] /\ arguments' = arguments
  BY DEF NextToken
<1>3. t.token = NULL => t.sp = NULL
  <2> DEFINE q == IF sp = NULL THEN str ELSE sp
  <2>1. t = TokenAt(scommand, q)
    BY StrtokAt
  <2>2. scommand \in [0 .. BufSize -> Bytes] /\ scommand[BufSize] = NUL /\ BufSize \in Nat
    BY ShellAssumption DEF ShapeInv, ShellShapes, ShellTypeOK
  <2>3. q \in Int /\ q <= BufSize
    <3>1. sp = NULL \/ sp \in 0 .. BufSize
      BY DEF ShapeInv, ShellShapes, ShellTypeOK
    <3> QED
      BY <2>2, <3>1 DEF NULL
  <2> HIDE DEF q, t
  <2>4. /\ \A k \in DOMAIN scommand : k \in Nat
        /\ \E k \in DOMAIN scommand : k >= q /\ scommand[k] = NUL
    BY <2>2, <2>3
  <2> QED
    BY <2>1, <2>4, TokenEnds
<1>4. ASSUME Clean
      PROVE  /\ typed \in Lines /\ p \in Nat /\ arguments = Given(typed, p)
             /\ \/ t.token = NULL /\ t.sp = NULL /\ Starts(typed) \subseteq 0 .. p
                \/ /\ t.token # NULL /\ Holds(t.a, typed, t.sp)
                   /\ Append(Given(typed, p), Argument(t.a, t.token)) = Given(typed, t.sp)
  <2>1. Holds(scommand, typed, p) /\ arguments = Given(typed, p)
    BY <1>1, <1>4 DEF ArgvInv
  <2>2. typed \in Lines /\ p \in 0 .. Len(typed) /\ Len(typed) \in Nat
    BY <2>1, LineChars DEF Holds
  <2>3. t = TokenAt(scommand, p)
    <3>1. pc = "first" => sp = NULL
      BY <1>4 DEF ArgvInv, Clean
    <3>2. pc = "next" => sp # NULL
      BY <2>2 DEF NULL
    <3>3. p = IF sp = NULL THEN str ELSE sp
      BY <1>1, <3>1, <3>2
    <3> HIDE DEF p, str
    <3> QED
      BY <3>3, StrtokAt, Zenon
  <2>4. scommand \in [0 .. BufSize -> Bytes]
    BY DEF ShapeInv, ShellShapes, ShellTypeOK
  <2> HIDE DEF t, p
  <2>5. \/ t.token = NULL /\ t.sp = NULL /\ Starts(typed) \subseteq 0 .. p
        \/ /\ t.token # NULL /\ Holds(t.a, typed, t.sp)
           /\ Append(Given(typed, p), Argument(t.a, t.token)) = Given(typed, t.sp)
    BY <2>1, <2>3, <2>4, TokenIs, Zenon
  <2> QED
    BY <2>1, <2>2, <2>5
<1> HIDE DEF t, p
<1>5. CASE t.token = NULL
  <2>1. /\ pc' \in {"done", "system"} /\ failed' = failed /\ arguments' = arguments /\ sp' = NULL
    BY <1>2, <1>3, <1>5
  <2>2. ASSUME Clean PROVE arguments = Words(typed)
    BY <1>4, <1>5, <2>2, GivenPrefix
  <2> QED
    BY <1>1, <2>1, <2>2 DEF ArgvInv, ArgvIsTyped, Clean
<1>6. CASE t.token # NULL /\ failed' = failed
  <2>1. pc' = "next" /\ arguments' = Append(arguments, Argument(t.a, t.token))
    BY <1>1, <1>2, <1>6 DEF Pair
  <2>2. ASSUME Clean PROVE Holds(scommand', typed, sp') /\ arguments' = Given(typed, sp')
    BY <1>2, <1>4, <1>6, <2>1, <2>2
  <2> QED
    BY <1>1, <1>6, <2>1, <2>2 DEF ArgvInv, ArgvIsTyped, Clean
<1>7. CASE t.token # NULL /\ failed' # failed
  <2>1. /\ pc' \in {"done", "system"} /\ arguments' = arguments
        /\ failed' = [failed EXCEPT ![1] = TRUE]
    BY <1>2, <1>7
  <2>2. Pair(failed') /\ failed'[1] /\ failed'[2] = failed[2]
    BY <1>1, <2>1 DEF Pair
  <2>3. ASSUME Clean PROVE IsPrefix(arguments, Words(typed))
    BY <1>4, <2>3, GivenPrefix
  <2> QED
    BY <1>1, <2>1, <2>2, <2>3 DEF ArgvInv, ArgvIsTyped, Clean
<1> QED
  BY <1>5, <1>6, <1>7

LEMMA ArgvStep == ShapeInv /\ ArgvInv /\ [ShellNext]_shellVars => ArgvInv'
<1> SUFFICES ASSUME ShapeInv, ArgvInv, [ShellNext]_shellVars PROVE ArgvInv'
  OBVIOUS
<1>1. CASE PrintPrompt
  BY <1>1, PromptArgv
<1>2. CASE \E key \in Keys : ReadKey(key)
  BY <1>2, ReadKeyArgv
<1>3. CASE EndLine
  BY <1>3, EndLineArgv
<1>4. CASE NextToken
  BY <1>4, NextTokenArgv
<1>5. CASE pandora_system \/ EndCommand
  BY <1>5, IdleArgv
<1>6. CASE \E c \in OtherChars : OtherWrites(c)
  <2>1. UNCHANGED <<pc, out, i, scommand, sp, arguments, started, typed, failed>>
    BY <1>6 DEF OtherWrites
  <2>2. "empty" \in spoilt' <=> "empty" \in spoilt
    BY <1>6 DEF OtherWrites
  <2> QED
    BY <2>1, <2>2, OtherArgv
<1>7. CASE UNCHANGED shellVars
  BY <1>7, OtherArgv DEF shellVars
<1> QED
  BY <1>1, <1>2, <1>3, <1>4, <1>5, <1>6, <1>7 DEF ShellNext

(* A program is started with the words that were typed, or with the first  *)
(* of them when memory ran out, for every line and every length of buffer  *)
(* and argument, whatever else is written to the terminal in between;      *)
(* except on a line with a stored backspace, or behind a line that ran out *)
(* of memory (pandora_terminal_readline, pandora_parse_command, strtok).   *)
THEOREM ArgvRight == ShellSpec => []ArgvIsTyped
<1>1. ShapeInv /\ ArgvInv => ArgvIsTyped
  BY DEF ArgvInv
<1>2. ShellInit => ShapeInv /\ ArgvInv
  BY InitShape, InitArgv
<1>3. (ShapeInv /\ ArgvInv) /\ [ShellNext]_shellVars => (ShapeInv /\ ArgvInv)'
  BY ShapeStep, ArgvStep
<1> QED
  BY <1>1, <1>2, <1>3, PTL DEF ShellSpec
===============================================================================
