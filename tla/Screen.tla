-------------------------------- MODULE Screen --------------------------------
(***************************************************************************)
(* What a console promises: a screen of cells with a cursor, a scrolling   *)
(* region and a saved cursor, and what each control function does to it.   *)
(* Nothing is said of video memory, nor of how a function is spelled as an *)
(* escape sequence.  Module Console implements it.                         *)
(***************************************************************************)
EXTENDS Integers

CONSTANTS Columns, Lines,
          Glyphs,   \* what can be printed
          Blank,    \* an erased cell
          TabWidth

Rows == 0..(Lines - 1)
Cols == 0..(Columns - 1)

VARIABLES cell,         \* cell[row][column]
          x, y,         \* the cursor; x = Columns: the line is full
          top, bottom,  \* the scrolling region: the rows from top to bottom - 1
          saved         \* a cursor kept for later

vars == <<cell, x, y, top, bottom, saved>>

Init ==
    /\ cell = [r \in Rows |-> [c \in Cols |-> Blank]]
    /\ x = 0 /\ y = 0
    /\ top = 0 /\ bottom = Lines
    /\ saved = <<0, 0>>

BlankLine == [c \in Cols |-> Blank]

(* Rows from..to - 1 move up, or down, by n; what is freed is blank. *)
Up(from, to, n) == [r \in Rows |-> CASE r \notin from..(to - 1) -> cell[r]
                                     [] r \in from..(to - 1) /\ r + n < to -> cell[r + n]
                                     [] OTHER -> BlankLine]
Down(from, to, n) == [r \in Rows |-> CASE r \notin from..(to - 1) -> cell[r]
                                       [] r \in from..(to - 1) /\ r - n >= from -> cell[r - n]
                                       [] OTHER -> BlankLine]

Erase(S) == cell' = [r \in Rows |-> [c \in Cols |-> IF <<r, c>> \in S THEN Blank ELSE cell[r][c]]]

(* The next line; at the end of the region, or below it, the region moves. *)
NextLine ==
    IF y + 1 < bottom THEN y' = y + 1 /\ UNCHANGED cell
                      ELSE cell' = Up(top, bottom, 1) /\ UNCHANGED y

Display(g) ==
    /\ IF x < Columns
         THEN /\ cell' = [cell EXCEPT ![y][x] = g]
              /\ x' = x + 1
              /\ UNCHANGED y
         ELSE /\ IF y + 1 < bottom
                   THEN /\ cell' = [cell EXCEPT ![y + 1][0] = g]
                        /\ y' = y + 1
                   ELSE /\ cell' = [Up(top, bottom, 1) EXCEPT ![y][0] = g]
                        /\ UNCHANGED y
              /\ x' = 1
    /\ UNCHANGED <<top, bottom, saved>>

LineFeed == NextLine /\ UNCHANGED <<x, top, bottom, saved>>
NewLine == NextLine /\ x' = 0 /\ UNCHANGED <<top, bottom, saved>>
Return == x' = 0 /\ UNCHANGED <<cell, y, top, bottom, saved>>

ReverseFeed ==
    /\ IF y > top THEN y' = y - 1 /\ UNCHANGED cell
                  ELSE cell' = Down(top, bottom, 1) /\ UNCHANGED y
    /\ UNCHANGED <<x, top, bottom, saved>>

Backspace == x > 0 /\ x' = x - 1 /\ UNCHANGED <<cell, y, top, bottom, saved>>
RubOut == x > 0 /\ x' = x - 1 /\ Erase({<<y, x - 1>>}) /\ UNCHANGED <<y, top, bottom, saved>>

Tab ==
    LET stop == (x \div TabWidth + 1) * TabWidth IN
    /\ IF stop <= Columns THEN x' = stop /\ UNCHANGED <<cell, y>>
                          ELSE x' = stop - Columns /\ NextLine
    /\ UNCHANGED <<top, bottom, saved>>

Goto(nx, ny) == x' = nx /\ y' = ny /\ UNCHANGED <<cell, top, bottom, saved>>
Save == saved' = <<x, y>> /\ UNCHANGED <<cell, x, y, top, bottom>>
SetRegion(t, b) == top' = t /\ bottom' = b /\ UNCHANGED <<cell, x, y, saved>>

Before(r, c) == r < y \/ (r = y /\ c < x)
EraseDisplay(S) == Erase(S) /\ UNCHANGED <<x, y, top, bottom, saved>>
ToTheEnd == {p \in Rows \X Cols : ~Before(p[1], p[2])}
FromTheStart == {p \in Rows \X Cols : Before(p[1], p[2])}
OfLine(S) == {p \in S : p[1] = y}

InsertLines(n) == cell' = Down(y, Lines, n) /\ UNCHANGED <<x, y, top, bottom, saved>>
DeleteLines(n) == cell' = Up(y, Lines, n) /\ UNCHANGED <<x, y, top, bottom, saved>>
InsertChars(n) ==
    /\ cell' = [cell EXCEPT ![y] = [c \in Cols |-> CASE c < x -> cell[y][c]
                                                      [] c >= x /\ c - n >= x -> cell[y][c - n]
                                                      [] OTHER -> Blank]]
    /\ UNCHANGED <<x, y, top, bottom, saved>>
DeleteChars(n) ==
    /\ cell' = [cell EXCEPT ![y] = [c \in Cols |-> CASE c < x -> cell[y][c]
                                                      [] c >= x /\ c + n < Columns -> cell[y][c + n]
                                                      [] OTHER -> Blank]]
    /\ UNCHANGED <<x, y, top, bottom, saved>>

Next ==
    \/ \E g \in Glyphs : Display(g)
    \/ LineFeed \/ NewLine \/ Return \/ ReverseFeed \/ Backspace \/ RubOut \/ Tab
    \/ \E nx \in 0..Columns, ny \in Rows : Goto(nx, ny)
    \/ Goto(saved[1], saved[2]) \/ Save
    \/ \E t \in Rows, b \in 1..Lines : t < b /\ SetRegion(t, b)
    \/ \E S \in {Rows \X Cols, ToTheEnd, FromTheStart} : EraseDisplay(S) \/ EraseDisplay(OfLine(S))
    \/ \E n \in 1..Lines : InsertLines(n) \/ DeleteLines(n)
    \/ \E n \in 1..Columns : InsertChars(n) \/ DeleteChars(n)

Spec == Init /\ [][Next]_vars
=============================================================================
