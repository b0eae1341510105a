------------------------------- MODULE Console -------------------------------
(***************************************************************************)
(* The virtual consoles (kernel/chr_drv/console.c): con_write with its     *)
(* escape sequences, the windows of video memory the consoles own, and     *)
(* console_print.  Addresses count cells; colours, the character sets and  *)
(* the registers of the display are left out.                              *)
(*                                                                         *)
(* con_write is called by tty_write and, for the echo, by the keyboard     *)
(* interrupt and by the answer to a query: while another con_write of the  *)
(* same console is under way.  frames are the calls, the last one runs.    *)
(***************************************************************************)
EXTENDS Integers, Sequences

CONSTANTS Columns, Lines,  \* video_num_columns, video_num_lines
          Memory,          \* cells of a console's part of video memory
          NR_CONSOLES,
          Blank,
          TabWidth,        \* 8
          NPAR,            \* 16
          MaxPar,          \* bound on the parameters of a sequence
          Setups           \* what a behaviour is about: records of
                           \*   texts: what tty_write puts into the queue of each console
                           \*   keys:  what the keyboard interrupt echoes
                           \*   prints: what the kernel prints
                           \*   shown: the consoles that may come to the foreground
                           \*   ega:   does the display scroll by moving its origin?

Consoles == 0..(NR_CONSOLES - 1)
Address == 0..(NR_CONSOLES * Memory - 1)
Digits == {"0", "1", "2", "3"}
Value(c) == CHOOSE n \in 0..3 : <<"0", "1", "2", "3">>[n + 1] = c
Control == {"ESC", "LF", "CR", "BS", "TAB", "DEL", "CAN"}
Glyph(c) == IF c = "b" THEN "b" ELSE "a"

ConsoleAssumption ==
    /\ {Columns, Lines, NPAR, NR_CONSOLES} \subseteq Nat \ {0}
    /\ Memory >= Lines * Columns
    /\ Columns % TabWidth = 0

VARIABLES setup,   \* a member of Setups, chosen at the start
          mem,     \* video memory
          vc,      \* vc_cons: see Init
          write_q, \* of each console
          frames,  \* con_write calls under way: <<console, characters left to do>>
          fg,      \* fg_console
          stale    \* has con_write taken a character from an empty queue?

vars == <<setup, mem, vc, write_q, frames, fg, stale>>

MemStart(k) == k * Memory
MemEnd(k) == (k + 1) * Memory

Init ==
    /\ setup \in Setups
    /\ mem = [a \in Address |-> Blank]
    /\ vc = [k \in Consoles |->
               [origin |-> MemStart(k), scr_end |-> MemStart(k) + Lines * Columns,
                pos |-> MemStart(k), x |-> 0, y |-> 0, top |-> 0, bottom |-> Lines,
                saved_x |-> 0, saved_y |-> 0, state |-> "ESnormal", ques |-> FALSE,
                npar |-> 0, par |-> [i \in 0..(NPAR - 1) |-> 0]]]
    /\ write_q = [k \in Consoles |-> <<>>]
    /\ frames = <<>>
    /\ fg = 0
    /\ stale = FALSE

-----------------------------------------------------------------------------
(* What is done to a console: v has the fields of vc[k], its number k and  *)
(* the video memory m.                                                     *)
Fill(m, from, n) == [a \in Address |-> IF a \in from..(from + n - 1) THEN Blank ELSE m[a]]
Move(m, to, from, n) == [a \in Address |-> IF a \in to..(to + n - 1) THEN m[from + a - to] ELSE m[a]]
Times(n, v, Do(_)) == LET f[i \in 0..n] == IF i = 0 THEN v ELSE Do(f[i - 1]) IN f[n]

gotoxy(v, nx, ny) ==
    IF nx \in 0..Columns /\ ny \in 0..(Lines - 1)
      THEN [v EXCEPT !.x = nx, !.y = ny, !.pos = v.origin + ny * Columns + nx]
      ELSE v

MutScrUp(v) ==
    LET o == v.origin + Columns
        e == v.scr_end + Columns
        back == o - MemStart(v.k) IN
    IF v.bottom <= v.top THEN v
    ELSE IF setup.ega /\ v.top = 0 /\ v.bottom = Lines THEN
         IF e > MemEnd(v.k)
           THEN [v EXCEPT !.m = Fill(Move(@, MemStart(v.k), o, (Lines - 1) * Columns),
                                     MemStart(v.k) + (Lines - 1) * Columns, Columns),
                          !.origin = MemStart(v.k), !.scr_end = e - back,
                          !.pos = @ + Columns]
           ELSE [v EXCEPT !.m = Fill(@, e - Columns, Columns), !.origin = o, !.scr_end = e,
                          !.pos = @ + Columns]
    ELSE [v EXCEPT !.m = Fill(Move(@, v.origin + v.top * Columns, v.origin + (v.top + 1) * Columns,
                                   (v.bottom - v.top - 1) * Columns),
                              v.origin + (v.bottom - 1) * Columns, Columns)]

(* The whole screen moves by a window that slides down the memory, and is  *)
(* copied back to its start when it reaches the end.                       *)
ScrUp(v) ==
    LET o == v.origin + Columns
        e == v.scr_end + Columns
        back == o - MemStart(v.k) IN
    IF v.bottom <= v.top THEN v
    ELSE IF setup.ega /\ v.top = 0 /\ v.bottom = Lines THEN
         IF e > MemEnd(v.k)
           THEN [v EXCEPT !.m = Fill(Move(@, MemStart(v.k), o, (Lines - 1) * Columns),
                                     MemStart(v.k) + (Lines - 1) * Columns, Columns),
                          !.origin = MemStart(v.k), !.scr_end = e - back,
                          !.pos = @ + Columns - back]
           ELSE [v EXCEPT !.m = Fill(@, e - Columns, Columns), !.origin = o, !.scr_end = e,
                          !.pos = @ + Columns]
    ELSE [v EXCEPT !.m = Fill(Move(@, v.origin + v.top * Columns, v.origin + (v.top + 1) * Columns,
                                   (v.bottom - v.top - 1) * Columns),
                              v.origin + (v.bottom - 1) * Columns, Columns)]

ScrDown(v) ==
    IF v.bottom <= v.top THEN v
    ELSE [v EXCEPT !.m = Fill(Move(@, v.origin + (v.top + 1) * Columns, v.origin + v.top * Columns,
                                   (v.bottom - v.top - 1) * Columns),
                              v.origin + v.top * Columns, Columns)]

lf(v) == IF v.y + 1 < v.bottom THEN [v EXCEPT !.y = @ + 1, !.pos = @ + Columns] ELSE ScrUp(v)
ri(v) == IF v.y > v.top THEN [v EXCEPT !.y = @ - 1, !.pos = @ - Columns] ELSE ScrDown(v)
cr(v) == [v EXCEPT !.pos = @ - v.x, !.x = 0]
bs(v) == IF v.x = 0 THEN v ELSE [v EXCEPT !.pos = @ - 1, !.x = @ - 1]
del(v) == IF v.x = 0 THEN v ELSE [bs(v) EXCEPT !.m = Fill(@, v.pos - 1, 1)]

Wrap(v) == lf([v EXCEPT !.x = @ - Columns, !.pos = @ - Columns])
Put(v, c) ==
    LET w == IF v.x >= Columns THEN Wrap(v) ELSE v
    IN  [w EXCEPT !.m[w.pos] = Glyph(c), !.pos = @ + 1, !.x = @ + 1]
tab(v) ==
    LET n == TabWidth - (v.x % TabWidth)
        w == [v EXCEPT !.x = @ + n, !.pos = @ + n]
    IN  IF w.x > Columns THEN Wrap(w) ELSE w

csi_J(v, p) ==
    CASE p = 0 -> [v EXCEPT !.m = Fill(@, v.pos, v.scr_end - v.pos)]
      [] p = 1 -> [v EXCEPT !.m = Fill(@, v.origin, v.pos - v.origin)]
      [] p = 2 -> [v EXCEPT !.m = Fill(@, v.origin, Columns * Lines)]
      [] OTHER -> v
csi_K(v, p) ==
    CASE p = 0 -> IF v.x >= Columns THEN v ELSE [v EXCEPT !.m = Fill(@, v.pos, Columns - v.x)]
      [] p = 1 -> [v EXCEPT !.m = Fill(@, v.pos - v.x, v.x)]
      [] p = 2 -> [v EXCEPT !.m = Fill(@, v.pos - v.x, Columns)]
      [] OTHER -> v

(* insert_line and delete_line scroll a region from the cursor on. *)
Scroll(v, Do(_)) == [Do([v EXCEPT !.top = v.y, !.bottom = Lines]) EXCEPT !.top = v.top, !.bottom = v.bottom]
insert_line(v) == Scroll(v, ScrDown)
delete_line(v) == Scroll(v, ScrUp)
insert_char(v) ==
    IF v.x >= Columns THEN v
    ELSE [v EXCEPT !.m = Fill(Move(@, v.pos + 1, v.pos, Columns - v.x - 1), v.pos, 1)]
delete_char(v) ==
    IF v.x >= Columns THEN v
    ELSE [v EXCEPT !.m = Fill(Move(@, v.pos, v.pos + 1, Columns - v.x - 1), v.pos + Columns - v.x - 1, 1)]
Count(n, max) == IF n > max THEN max ELSE IF n = 0 THEN 1 ELSE n

save_cur(v) == [v EXCEPT !.saved_x = v.x, !.saved_y = v.y]
restore_cur(v) == gotoxy(v, v.saved_x, v.saved_y)

-----------------------------------------------------------------------------
(* The states of con_write. *)
Normal(v, c) ==
    CASE c \notin Control -> Put(v, c)
      [] c = "ESC" -> [v EXCEPT !.state = "ESesc"]
      [] c = "LF" -> lf(v)
      [] c = "CR" -> cr(v)
      [] c = "DEL" -> del(v)
      [] c = "BS" -> bs(v)
      [] c = "TAB" -> tab(v)
      [] c = "CAN" -> v

Escape(v, c) ==
    LET w == [v EXCEPT !.state = "ESnormal"] IN
    CASE c = "[" -> [v EXCEPT !.state = "ESsquare"]
      [] c = "E" -> gotoxy(w, 0, v.y + 1)
      [] c = "M" -> ri(w)
      [] c = "D" -> lf(w)
      [] c = "7" -> save_cur(w)
      [] c = "8" -> restore_cur(w)
      [] c \in {"(", ")"} -> [v EXCEPT !.state = "ESsetgraph"]
      [] c = "P" -> [v EXCEPT !.state = "ESsetterm"]
      [] c = "#" -> [v EXCEPT !.state = "undefined"]
      [] c = "c" -> [w EXCEPT !.top = 0, !.bottom = Lines]
      [] OTHER -> w

(* The last character of a sequence; p and q are its parameters, at least  *)
(* 1, or counted from 0, where the code says so.                           *)
GotPars(v, c) ==
    LET p == v.par[0]
        q == v.par[1]
        n == IF p = 0 THEN 1 ELSE p
        p0 == IF p = 0 THEN 0 ELSE p - 1
        q0 == IF q = 0 THEN 0 ELSE q - 1
        end == IF q = 0 THEN Lines ELSE q IN
    CASE c = "G" -> gotoxy(v, p0, v.y)
      [] c = "A" -> gotoxy(v, v.x, v.y - n)
      [] c \in {"B", "e"} -> gotoxy(v, v.x, v.y + n)
      [] c \in {"C", "a"} -> gotoxy(v, v.x + n, v.y)
      [] c = "D" -> gotoxy(v, v.x - n, v.y)
      [] c = "E" -> gotoxy(v, 0, v.y + n)
      [] c = "F" -> gotoxy(v, 0, v.y - n)
      [] c = "d" -> gotoxy(v, v.x, p0)
      [] c \in {"H", "f"} -> gotoxy(v, q0, p0)
      [] c = "J" -> csi_J(v, p)
      [] c = "K" -> csi_K(v, p)
      [] c = "L" -> Times(Count(p, Lines), v, insert_line)
      [] c = "M" -> Times(Count(p, Lines), v, delete_line)
      [] c = "P" -> Times(Count(p, Columns), v, delete_char)
      [] c = "@" -> Times(Count(p, Columns), v, insert_char)
      [] c = "r" -> IF p0 < end /\ end <= Lines THEN [v EXCEPT !.top = p0, !.bottom = end] ELSE v
      [] c = "s" -> save_cur(v)
      [] c = "u" -> restore_cur(v)
      [] OTHER -> v

GetPars(v, c) ==
    CASE c = ";" /\ v.npar < NPAR - 1 -> [v EXCEPT !.npar = @ + 1]
      [] c \in Digits -> [v EXCEPT !.par[v.npar] = 10 * @ + Value(c)]
      [] OTHER -> LET w == [v EXCEPT !.state = "ESnormal"] IN
                  IF v.ques THEN [w EXCEPT !.ques = FALSE] ELSE GotPars(w, c)

Square(v, c) ==
    LET w == [v EXCEPT !.par = [i \in 0..(NPAR - 1) |-> 0], !.npar = 0, !.state = "ESgetpars"] IN
    CASE c = "[" -> [w EXCEPT !.state = "ESfunckey"]
      [] c = "?" -> [w EXCEPT !.ques = TRUE]
      [] OTHER -> GetPars([w EXCEPT !.ques = FALSE], c)

Character(v, c) ==
    LET state == IF c = "CAN" THEN "ESnormal" ELSE v.state IN
    CASE state = "ESnormal" -> Normal([v EXCEPT !.state = state], c)
      [] state = "ESesc" -> Escape(v, c)
      [] state = "ESsquare" -> Square(v, c)
      [] state = "ESgetpars" -> GetPars(v, c)
      [] OTHER -> [v EXCEPT !.state = "ESnormal"]

View(k) == [f \in DOMAIN vc[k] \cup {"k", "m"} |->
               IF f = "k" THEN k ELSE IF f = "m" THEN mem ELSE vc[k][f]]
Becomes(v) ==
    /\ mem' = v.m
    /\ vc' = [vc EXCEPT ![v.k] = [f \in DOMAIN vc[v.k] |-> v[f]]]

-----------------------------------------------------------------------------
Top == frames[Len(frames)]
Below == SubSeq(frames, 1, Len(frames) - 1)
MoreDigits(v, c) == v.state = "ESgetpars" /\ c \in Digits

(* tty_write has put a text into the queue. *)
Write(k, text) ==
    /\ frames = <<>>
    /\ text \in setup.texts[k]
    /\ \A i \in DOMAIN text : MoreDigits(vc[k], text[i]) => 10 * vc[k].par[vc[k].npar] + 3 <= MaxPar
    /\ write_q' = [write_q EXCEPT ![k] = @ \o text]
    /\ frames' = <<<<k, Len(write_q[k]) + Len(text)>>>>
    /\ UNCHANGED <<setup, mem, vc, fg, stale>>

(* The keyboard interrupts whatever runs, and echoes. *)
Key(c) ==
    /\ c \in setup.keys
    /\ Len(frames) < 2
    /\ write_q' = [write_q EXCEPT ![fg] = Append(@, c)]
    /\ frames' = Append(frames, <<fg, Len(write_q[fg]) + 1>>)
    /\ UNCHANGED <<setup, mem, vc, fg, stale>>

Next1 == <<Top[1], Top[2] - 1>>

ConWrite ==
    LET k == Top[1]
        c == Head(write_q[k]) IN
    /\ frames # <<>>
    /\ Top[2] > 0
    /\ write_q[k] # <<>>
    /\ ~(vc[k].state = "ESesc" /\ c = "Z")
    /\ write_q' = [write_q EXCEPT ![k] = Tail(@)]
    /\ frames' = Append(Below, Next1)
    /\ Becomes(Character(View(k), c))
    /\ UNCHANGED <<setup, fg, stale>>

(* "What are you?": the answer goes to the read queue, and the tty echoes  *)
(* it before con_write goes on.                                            *)
Respond ==
    LET k == Top[1] IN
    /\ frames # <<>>
    /\ Top[2] > 0
    /\ write_q[k] # <<>>
    /\ vc[k].state = "ESesc" /\ Head(write_q[k]) = "Z"
    /\ write_q' = [write_q EXCEPT ![k] = Append(Tail(@), "a")]
    /\ frames' = Below \o <<Next1, <<k, Len(write_q[k])>>>>
    /\ vc' = [vc EXCEPT ![k].state = "ESnormal"]
    /\ UNCHANGED <<setup, mem, fg, stale>>

(* Another con_write has emptied the queue: what is taken is old, and the  *)
(* tail passes the head.                                                   *)
TakeStale ==
    /\ frames # <<>>
    /\ Top[2] > 0
    /\ write_q[Top[1]] = <<>>
    /\ frames' = <<>>
    /\ stale' = TRUE
    /\ UNCHANGED <<setup, mem, vc, write_q, fg>>

Done ==
    /\ frames # <<>>
    /\ Top[2] = 0
    /\ frames' = Below
    /\ UNCHANGED <<setup, mem, vc, write_q, fg, stale>>

(* console_print: a character of a message of the kernel. *)
ConsolePrint(c) ==
    LET v == View(fg) IN
    /\ c \in setup.prints
    /\ Becomes(CASE c = "LF" -> lf(cr(v)) [] c = "CR" -> cr(v) [] OTHER -> Put(v, c))
    /\ UNCHANGED <<setup, write_q, frames, fg, stale>>

ChangeConsole(k) ==
    /\ k \in setup.shown
    /\ fg' = k
    /\ UNCHANGED <<setup, mem, vc, write_q, frames, stale>>

Next ==
    \/ \E k \in Consoles : ChangeConsole(k) \/ \E text \in setup.texts[k] : Write(k, text)
    \/ \E c \in setup.keys : Key(c)
    \/ \E c \in setup.prints : ConsolePrint(c)
    \/ ConWrite \/ Respond \/ TakeStale \/ Done

-----------------------------------------------------------------------------
(* A console's window of video memory is a screen, and every character     *)
(* does to it one thing or nothing, whatever the other consoles do.        *)
ScreenOf(k) == INSTANCE Screen WITH
    Glyphs <- {"a", "b"},
    cell <- [r \in 0..(Lines - 1) |-> [c \in 0..(Columns - 1) |-> mem[vc[k].origin + r * Columns + c]]],
    x <- vc[k].x, y <- vc[k].y, top <- vc[k].top, bottom <- vc[k].bottom,
    saved <- <<vc[k].saved_x, vc[k].saved_y>>

(* "this will work even for keyboard interrupts": a con_write never takes  *)
(* a character that is not there.                                          *)
NothingStale == ~stale
=============================================================================
