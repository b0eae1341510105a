----------------------------- MODULE MCDevices -----------------------------
(***************************************************************************)
(* Model checking the terminals, the screens of the consoles, the floppy   *)
(* driver and the memory in one run: as in MCDrivers, a behaviour is one   *)
(* of a single part, chosen at the start.                                  *)
(***************************************************************************)
EXTENDS Memory, Integers, Sequences

CONSTANTS t1, t2,       \* tasks
          p1, p2,       \* programs
          Parts,        \* the parts to check
          TtSetups, CnSetups, FdSetups   \* and what of them

VARIABLES part,
          tt_setup, tt_s, tt_job, tt_running,
          cn_setup, cn_mem, cn_vc, cn_write_q, cn_frames, cn_fg, cn_stale,
          fd_setup, fd_queue, fd_do_floppy, fd_recalibrate, fd_reset, fd_seek,
          fd_current_drive, fd_current_track, fd_selected, fd_current_DOR,
          fd_mon_timer, fd_moff_timer, fd_timer, fd_clock, fd_outer, fd_call, fd_fdc,
          fd_heads, fd_faults, fd_task

tt_vars == <<tt_setup, tt_s, tt_job, tt_running>>
cn_vars == <<cn_setup, cn_mem, cn_vc, cn_write_q, cn_frames, cn_fg, cn_stale>>
fd_vars == <<fd_setup, fd_queue, fd_do_floppy, fd_recalibrate, fd_reset, fd_seek,
             fd_current_drive, fd_current_track, fd_selected, fd_current_DOR,
             fd_mon_timer, fd_moff_timer, fd_timer, fd_clock, fd_outer, fd_call, fd_fdc,
             fd_heads, fd_faults, fd_task>>
dv_vars == <<part, tt_vars, cn_vars, fd_vars, vars>>

-----------------------------------------------------------------------------
(* Terminals: a console, a serial line, a pty with its master.             *)
Tty == {"c", "r", "m", "s"}
TT == INSTANCE Terminals WITH
    Task <- {t1, t2}, SIZE <- 4, Low <- 2, Startup <- 1, Setups <- TtSetups,
    setup <- tt_setup, s <- tt_s, job <- tt_job, running <- tt_running

TtQuiet == [kind |-> [i \in Tty |-> CASE i = "c" -> "con" [] i = "r" -> "rs" [] OTHER -> "pty"],
          peer |-> [i \in Tty |-> IF i = "m" THEN "s" ELSE "m"],
          canon |-> {"c", "s"}, echo |-> {"c"}, ixon |-> {}, hup |-> {},
          pgrp |-> [i \in Tty |-> {}], min |-> 1, time |-> 0,
          calls |-> [p \in {t1, t2} |-> <<>>],
          keys |-> [i \in Tty |-> {}], most |-> 0, ioctls |-> {}, faults |-> FALSE]
Reads(i, nr) == [op |-> "read", tty |-> i, nr |-> nr, text |-> <<>>]
Writes(i, text) == [op |-> "write", tty |-> i, nr |-> Len(text), text |-> text]

TtWorks == {
    \* a line is edited while it is read
    [TtQuiet EXCEPT !.keys["c"] = {"a", "ERASE", "KILL", "CR", "EOF"}, !.most = 5, !.faults = TRUE,
                  !.calls = (t1 :> <<Reads("c", 2), Reads("c", 3)>> @@ t2 :> <<>>)],
    \* output is stopped, and interrupted
    [TtQuiet EXCEPT !.keys["c"] = {"STOP", "START", "INTR"}, !.most = 3,
                  !.echo = {}, !.ixon = {"c"}, !.pgrp["c"] = {t1},
                  !.ioctls = {<<"c", "TCOOFF">>, <<"c", "TCOON">>},
                  !.calls = (t1 :> <<Writes("c", <<"a", "NL", "b">>), Writes("c", <<"a", "b", "a", "b">>)>>
                             @@ t2 :> <<Writes("c", <<"d", "d">>)>>)],
    \* a serial line, without canonical input
    [TtQuiet EXCEPT !.keys["r"] = {"a"}, !.most = 3, !.min = 2, !.time = 1,
                  !.ioctls = {<<"r", "TCIFLUSH">>, <<"r", "TCOFLUSH">>},
                  !.calls = (t1 :> <<Reads("r", 3), Writes("r", <<"a", "b">>)>>
                             @@ t2 :> <<Writes("r", <<"a", "b", "a", "b", "a">>)>>)],
    [TtQuiet EXCEPT !.keys["r"] = {"a"}, !.most = 4, !.min = 0, !.time = 1, !.faults = TRUE,
                  !.calls = (t1 :> <<Reads("r", 2), Reads("r", 2)>> @@ t2 :> <<Reads("r", 1)>>)],
    \* through a pty, more than its queues hold
    [TtQuiet EXCEPT !.echo = {"s"},
                  !.calls = (t1 :> <<Writes("m", <<"a", "b", "NL", "a", "ERASE", "b", "NL">>),
                                     Writes("m", <<"a", "b", "a", "b", "a", "b", "a", "b", "NL">>)>>
                             @@ t2 :> <<Reads("s", 2), Reads("s", 3), Reads("s", 3), Reads("s", 3), Reads("s", 3)>>)],
    [TtQuiet EXCEPT !.echo = {}, !.pgrp["s"] = {t1},
                  !.calls = (t1 :> <<Reads("s", 2), Writes("s", <<"c", "c", "c", "c", "c", "c", "c", "c">>)>>
                             @@ t2 :> <<Writes("m", <<"a", "NL", "INTR", "b", "EOF">>), Reads("m", 1), Reads("m", 2)>>)],
    [TtQuiet EXCEPT !.hup = {"s"},
                  !.calls = (t1 :> <<Reads("s", 2)>> @@ t2 :> <<Writes("m", <<"a", "NL">>)>>)]
    }

\* more is typed than both queues hold, without the end of a line
TtLongLine == {
    [TtQuiet EXCEPT !.keys["c"] = {"a", "ERASE"}, !.most = 7, !.echo = {},
                  !.calls = (t1 :> <<Reads("c", 3)>> @@ t2 :> <<>>)]}

TtStopped == {
    [TtQuiet EXCEPT !.keys["c"] = {"STOP", "START"}, !.most = 2, !.ixon = {"c"}, !.echo = {},
                  !.calls = (t1 :> <<Writes("c", <<"a", "b", "a", "b">>)>> @@ t2 :> <<>>)]}

-----------------------------------------------------------------------------
(* Consoles: two, three lines of two columns, one line of room to scroll.  *)
CN == INSTANCE Console WITH
    Columns <- 2, Lines <- 3, Memory <- 8, NR_CONSOLES <- 2, Blank <- " ",
    TabWidth <- 2, NPAR <- 2, MaxPar <- 3, Setups <- CnSetups,
    setup <- cn_setup, mem <- cn_mem, vc <- cn_vc, write_q <- cn_write_q,
    frames <- cn_frames, fg <- cn_fg, stale <- cn_stale

Chars(S) == {<<c>> : c \in S}
Esc(S) == {<<"ESC", c>> : c \in S}
Csi(S) == {<<"ESC", "[">> \o w : w \in S}
Texts(S) == [texts |-> [n \in {0, 1} |-> IF n = 0 THEN S ELSE {}],
             keys |-> {}, prints |-> {}, shown |-> {0}, ega |-> TRUE]

CnWorks == {
    Texts(Chars({"a", "LF", "CR", "TAB", "DEL", "BS"})),
    Texts(Chars({"a", "LF"}) \cup Esc({"M"}) \cup Csi({<<"2", "r">>})),
    Texts(Chars({"a"}) \cup Csi({<<"L">>, <<"M">>, <<"2", "M">>, <<"2", "H">>})),
    [Texts(Chars({"a"}) \cup Csi({<<"J">>, <<"1", "J">>, <<"2", "J">>, <<"K">>, <<"1", "K">>, <<"2", "K">>,
                                  <<"P">>, <<"@">>, <<"2", "@">>, <<"D">>, <<"A">>})) EXCEPT !.ega = FALSE],
    Texts(Esc({"7", "8", "E", "c"}) \cup Csi({<<"u">>, <<"s">>, <<"2", "C">>, <<"B">>, <<"F">>, <<"2", "d">>,
                                              <<"3", "G">>, <<"2", "r">>})),
    Texts(Chars({"ESC", "[", "?", "2", "f", "CAN"})),
    [Texts({<<"ESC", "Z">>}) EXCEPT !.keys = {"b"}],
    [Texts(Chars({"LF"})) EXCEPT !.prints = {"a", "CR"}],
    [Texts(Chars({"LF"})) EXCEPT !.prints = {"a"}, !.shown = {0, 1}]}

CnNested == {[Texts({<<"ESC", "Z", "b">>}) EXCEPT !.keys = {"a"}]}

-----------------------------------------------------------------------------
(* Floppy: two drives with diskettes of two tracks.                        *)
FD == INSTANCE Floppy WITH
    Drives <- {0, 1}, LastTrack <- 1, MAX_ERRORS <- 2, SpinTicks <- 2,
    Changers <- {t1}, Setups <- FdSetups,
    setup <- fd_setup, queue <- fd_queue, do_floppy <- fd_do_floppy,
    recalibrate <- fd_recalibrate, reset <- fd_reset, seek <- fd_seek,
    current_drive <- fd_current_drive, current_track <- fd_current_track,
    selected <- fd_selected, current_DOR <- fd_current_DOR,
    mon_timer <- fd_mon_timer, moff_timer <- fd_moff_timer, timer <- fd_timer,
    clock <- fd_clock, outer <- fd_outer, call <- fd_call, fdc <- fd_fdc, heads <- fd_heads,
    faults <- fd_faults, task <- fd_task

OneRequest == [queue |-> 1, used |-> {0, 1}, faults |-> 0, watched |-> {}, late |-> FALSE]
FdWorks == {[OneRequest EXCEPT !.faults = 1], [OneRequest EXCEPT !.used = {0}, !.watched = {1}],
            [OneRequest EXCEPT !.queue = 2]}
FdLate == {[OneRequest EXCEPT !.late = TRUE]}

ASSUME TT!TerminalsAssumption /\ CN!ConsoleAssumption

-----------------------------------------------------------------------------
(* Memory: what two tasks do.                                              *)
MmQuiet == [start |-> [t \in Task |-> CASE t = t1 -> p1 [] t = t2 -> p2 [] OTHER -> NoProg],
            table |-> [t \in Task |-> NoFrame], frames |-> NFrames, slots |-> NSlots, write |-> Task,
            fork |-> {}, exec |-> {}, kernel |-> {}, present |-> FALSE,
            sleeps |-> FALSE, preempt |-> FALSE, closes |-> FALSE]

(* Memory for everything, so that no page is ever taken from a task. *)
Roomy == [MmQuiet EXCEPT !.start[t2] = NoProg, !.fork = {t1}, !.exec = {<<t2, p1>>},
                         !.kernel = {t1}, !.present = TRUE]

(* Too little memory, and two tasks that share nothing. *)
Tight(n) == [MmQuiet EXCEPT !.frames = n, !.kernel = {t1}, !.sleeps = TRUE, !.preempt = TRUE]

(* Too little memory, but nobody writes, so that no page is copied. *)
Calm(n) == [MmQuiet EXCEPT !.start[t2] = NoProg, !.frames = n, !.fork = {t1},
                           !.exec = {<<t1, p1>>}, !.write = {}]

(* A program that has all of memory, and no swap device. *)
Full == [MmQuiet EXCEPT !.start[t2] = NoProg, !.table[t1] = 1, !.frames = 2, !.slots = 0,
                        !.fork = {t1}]

MmWorks == {Roomy, Tight(4), Calm(4), Full}

(* Too little memory for a fork and the writes that follow. *)
MmForks == {[Roomy EXCEPT !.exec = {}, !.kernel = {}]}

-----------------------------------------------------------------------------
(* The parts that a behaviour is not about stay at one initial state.      *)
First(S) == CHOOSE x \in S : TRUE

DvInit ==
    /\ part \in Parts
    /\ TT!Init /\ CN!Init /\ FD!Init /\ Init
    /\ part # "tt" => tt_setup = First(TtSetups)
    /\ part # "cn" => cn_setup = First(CnSetups)
    /\ part # "fd" => fd_setup = First(FdSetups)
    /\ part # "mm" => setup = First(Setups)

DvNext ==
    \/ part = "tt" /\ TT!Next /\ UNCHANGED <<part, cn_vars, fd_vars, vars>>
    \/ part = "cn" /\ CN!Next /\ UNCHANGED <<part, tt_vars, fd_vars, vars>>
    \/ part = "fd" /\ FD!Next /\ UNCHANGED <<part, tt_vars, cn_vars, vars>>
    \/ part = "mm" /\ Next /\ UNCHANGED <<part, tt_vars, cn_vars, fd_vars>>

DvSpec == DvInit /\ [][DvNext]_dv_vars

-----------------------------------------------------------------------------
(* The properties of the parts, see there; those of the memory are in its  *)
(* module.                                                                 *)
TerminalsSound == part = "tt" => TT!TerminalsSound
WritersWoken == TT!WritersWoken
TextAsEdited == TT!TextAsEdited

ImplementsScreen ==
    /\ CN!ScreenOf(0)!Init /\ CN!ScreenOf(1)!Init
    /\ [][part = "cn" => /\ [CN!ScreenOf(0)!Next]_(CN!ScreenOf(0)!vars)
                         /\ [CN!ScreenOf(1)!Next]_(CN!ScreenOf(1)!vars)]_cn_vars
NothingStale == CN!NothingStale

FloppySound == part = "fd" => FD!SomeoneGoesOn /\ FD!RightDrive
UsesCurrent == FD!UsesCurrent
=============================================================================
