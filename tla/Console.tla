------------------------------- MODULE Console -------------------------------
(* The two ends of the console, devices/kbd.c and devices/vga.c.             *)
EXTENDS Keyboard, Vga

ConsoleSpec == (KeyInit \/ VgaInit) /\ [][KeyNext \/ VgaNext]_callerVars

\* What is typed arrives as the characters of the keys, whatever modifiers are
\* held or released on the way, and what is printed is on the screen (kbd.c,
\* vga.c).
TypedAndShown == KeyboardExact /\ ScreenExact

-----------------------------------------------------------------------------
(* The inductive invariant of SequentialProofs.                            *)

KeyType ==
  /\ obj \in [state : [Modifiers -> BOOLEAN], caps_lock : BOOLEAN]
  /\ ref \in [down : SUBSET AllKeys, caps : BOOLEAN]

\* The screen o shows the last ROW_CNT of the n rows of the sheet r, and its
\* cursor is on the same row.
Lines == [Cols -> {Blank, "bios", "x"}]
ScreenType == [cx : Nat, cy : Rows, fb : [Rows -> Lines], cursor : Nat]
SheetType(n) == [rows : [0..n - 1 -> Lines], x : Nat, y : n - ROW_CNT..n - 1]
Shows(o, r, n) ==
  /\ n \in Nat /\ n >= ROW_CNT /\ o \in ScreenType /\ r \in SheetType(n)
  /\ \A y \in Rows : o.fb[y] = r.rows[n - ROW_CNT + y]
  /\ o.cy = r.y - (n - ROW_CNT)
SameColumn(o, r) == o.cx = r.x /\ o.cx \in Cols

ConsoleInv ==
  /\ unit \in {"keyboard", "vga"}
  /\ unit = "keyboard" => KeyType /\ KeyboardExact
  /\ unit = "vga" => /\ Shows(obj, ref, RowCount(ref)) /\ SameColumn(obj, ref)
                     /\ obj.cursor = obj.cx + COL_CNT * obj.cy
==============================================================================
