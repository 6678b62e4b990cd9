-------------------------------- MODULE Vga --------------------------------
(* devices/vga.c: the text screen.  obj is the cursor and the frame buffer;  *)
(* ref is an endless sheet of rows, of which the screen shows the last       *)
(* ROW_CNT.  Attributes, all GRAY_ON_BLACK, are left out.                    *)
EXTENDS Integers, FiniteSets, Caller

CONSTANTS COL_CNT, ROW_CNT,  \* 80 and 25 in vga.c
          TabStop,           \* 8 in vga.c
          MaxRows            \* bound on the rows of the sheet
ASSUME VgaAssumption == {COL_CNT, ROW_CNT, TabStop} \subseteq Nat \ {0} /\ MaxRows > ROW_CNT

Blank == " "
Cols == 0..COL_CNT - 1
Rows == 0..ROW_CNT - 1
clear_row(fb, y) == [fb EXCEPT ![y] = [x \in Cols |-> Blank]]

newline(o) ==
  IF o.cy + 1 < ROW_CNT THEN [o EXCEPT !.cx = 0, !.cy = @ + 1]
  ELSE [o EXCEPT !.cx = 0, !.cy = ROW_CNT - 1,
                 !.fb = clear_row([y \in Rows |-> IF y < ROW_CNT - 1 THEN @[y + 1] ELSE @[y]],
                                  ROW_CNT - 1)]
cls(o) == [cx |-> 0, cy |-> 0, fb |-> [y \in Rows |-> [x \in Cols |-> Blank]], cursor |-> o.cursor]

Tabbed(o) == LET x == ((o.cx + TabStop) \div TabStop) * TabStop IN
             IF x >= COL_CNT THEN newline(o) ELSE [o EXCEPT !.cx = x]
Shown(o, c) == LET s == [o EXCEPT !.fb[o.cy][o.cx] = c, !.cx = @ + 1] IN
               IF s.cx >= COL_CNT THEN newline(s) ELSE s

\* move_cursor() and find_cursor(): one number for the two coordinates.
move_cursor(o) == [o EXCEPT !.cursor = o.cx + COL_CNT * o.cy]
vga_putc(o, c) ==
  move_cursor(CASE c = "\n" -> newline(o)
                [] c = "\f" -> cls(o)
                [] c = "back" -> IF o.cx > 0 THEN [o EXCEPT !.cx = @ - 1] ELSE o
                [] c = "\r" -> [o EXCEPT !.cx = 0]
                [] c = "\t" -> Tabbed(o)
                [] OTHER -> Shown(o, c))

\* The first call finds what the BIOS left: some text, the cursor somewhere.
VgaInit ==
  /\ unit = "vga" /\ ret = NoReturn
  /\ \E cp \in 0..COL_CNT * ROW_CNT - 1, c \in {Blank, "bios"} :
       LET fb == [y \in Rows |-> [x \in Cols |-> c]] IN
       /\ obj = [cx |-> cp % COL_CNT, cy |-> cp \div COL_CNT, fb |-> fb, cursor |-> cp]
       /\ ref = [rows |-> fb, x |-> cp % COL_CNT, y |-> cp \div COL_CNT]

-----------------------------------------------------------------------------
\* The sheet: a new row is added when the cursor leaves the last one.
RowCount(r) == Cardinality(DOMAIN r.rows)
NextRow(r) ==
  IF r.y + 1 < RowCount(r) THEN [r EXCEPT !.x = 0, !.y = @ + 1]
  ELSE [x |-> 0, y |-> r.y + 1,
        rows |-> [y \in 0..r.y + 1 |-> IF y <= r.y THEN r.rows[y] ELSE [x \in Cols |-> Blank]]]
Advance(r, x) == IF x < COL_CNT THEN [r EXCEPT !.x = x] ELSE NextRow(r)
Type(r, c) ==
  CASE c = "\n" -> NextRow(r)
    [] c = "\f" -> [x |-> 0, y |-> 0, rows |-> [y \in Rows |-> [x \in Cols |-> Blank]]]
    [] c = "back" -> [r EXCEPT !.x = IF @ = 0 THEN 0 ELSE @ - 1]
    [] c = "\r" -> [r EXCEPT !.x = 0]
    [] c = "\t" -> Advance(r, CHOOSE x \in r.x + 1..r.x + TabStop : x % TabStop = 0)
    [] OTHER -> Advance([r EXCEPT !.rows[r.y][r.x] = c], r.x + 1)

VgaPut(c) ==
  /\ unit = "vga" /\ RowCount(Type(ref, c)) <= MaxRows
  /\ Does(vga_putc(obj, c), Type(ref, c), 0, 0)
VgaNext == \E c \in {"\n", "\f", "back", "\r", "\t", "x", Blank} : VgaPut(c)

\* The screen is the last ROW_CNT rows of what was typed, however lines wrap
\* and scroll, and the hardware cursor is on the screen where the next
\* character goes (vga_putc(), newline(), move_cursor()).
ScreenExact ==
  unit = "vga" =>
    LET top == RowCount(ref) - ROW_CNT IN
    /\ obj.fb = [y \in Rows |-> ref.rows[top + y]]
    /\ obj.cursor \in 0..COL_CNT * ROW_CNT - 1
    /\ obj.cursor % COL_CNT = ref.x /\ obj.cursor \div COL_CNT = ref.y - top
=============================================================================
