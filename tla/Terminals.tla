------------------------------- MODULE Terminals -------------------------------
(***************************************************************************)
(* The terminals (kernel/chr_drv/tty_io.c, tty_ioctl.c, pty.c, serial.c,   *)
(* rs_io.s): consoles, serial lines and pseudo terminals.  Each has a      *)
(* queue of what was typed (rq), of what was typed and edited (sec), and   *)
(* of what is to be written (wq).  tty_read and tty_write go on until they *)
(* sleep, or get_fs_byte or put_fs_byte does; the keyboard and the serial  *)
(* lines interrupt them.  What con_write does to the screen is in Console. *)
(***************************************************************************)
EXTENDS Integers, Sequences, FiniteSets

CONSTANTS Task, NoTask, Tty,
          SIZE,      \* TTY_BUF_SIZE: a queue holds one character less
          Low,       \* 128: a writer sleeps until this much is free
          Startup,   \* 256: a serial line wakes its writer when this much is left
          Setups     \* what a behaviour is about: records of
                     \*   kind: con, rs or pty, and peer: the other end of a pty
                     \*   canon, echo, ixon, hup: sets of terminals
                     \*   pgrp: the tasks of a terminal
                     \*   min, time: VMIN and VTIME
                     \*   calls: what each task does, keys: what is typed
                     \*   most: bound on what is typed, ioctls: see Ioctl
                     \*   faults: may get_fs_byte and put_fs_byte sleep?

TerminalsAssumption ==
    /\ SIZE \in Nat /\ Low \in 1..(SIZE - 1) /\ Startup \in 0..(SIZE - 1)
    /\ NoTask \notin Task

VARIABLES setup,    \* a member of Setups, chosen at the start
          s,        \* the terminals: see Init
          job,      \* of each task: its call, where it is, what is left
          running   \* the task in the middle of its call, or NoTask

vars == <<setup, s, job, running>>

Of(t) == {i \in Tty : setup.kind[i] = t}

Init ==
    /\ setup \in Setups
    /\ s = [rq |-> [i \in Tty |-> <<>>], wq |-> [i \in Tty |-> <<>>],
            sec |-> [i \in Tty |-> <<>>],
            data |-> [i \in Tty |-> 0],           \* secondary->data
            stopped |-> [i \in Tty |-> FALSE],
            tx |-> [i \in Tty |-> FALSE],         \* the transmit interrupt is on
            readers |-> [i \in Tty |-> {}],       \* asleep on the secondary queue
            writers |-> [i \in Tty |-> {}],       \* asleep on the write queue
            signal |-> {},                        \* who has one pending
            cr |-> FALSE,                         \* cr_flag of tty_write
            keys |-> [i \in Tty |-> <<>>],        \* what was taken from rq
            got |-> [i \in Tty |-> <<>>],         \* what was read
            sent |-> [i \in Tty |-> <<>>],        \* what was put into wq
            out |-> [i \in Tty |-> <<>>]]         \* what left it
    /\ job = [p \in Task |-> [pc |-> "idle", n |-> 1, left |-> 0, min |-> 0,
                              time |-> 0, timeout |-> "none", got |-> 0, char |-> "none"]]
    /\ running = NoTask

-----------------------------------------------------------------------------
(* The queues.  PutCh does not look: one more than fits, and the queue is  *)
(* empty.                                                                  *)
Left(q) == SIZE - 1 - Len(q)
Full(q) == Left(q) = 0
PutCh(q, c) == IF Full(q) THEN <<>> ELSE Append(q, c)
LineEnds == {"NL", "EOF"}
Controls == {"CR", "EOF", "KILL", "STOP", "START", "INTR"}

RECURSIVE Cook(_, _), Output(_, _, _), PtyCopy(_, _, _)

Sends(w, i, c) == [w EXCEPT !.wq[i] = PutCh(@, c), !.sent[i] = Append(@, c)]

(* The echo: a control character shows as two. *)
Echo(w, i, c) ==
    LET shown == CASE c = "NL" -> <<"NL", "CR">> [] c \in Controls -> <<"^", c>> [] OTHER -> <<c>>
        put[n \in 0..Len(shown)] == IF n = 0 THEN w ELSE Sends(put[n - 1], i, shown[n])
    IN  IF i \in setup.echo THEN Output(put[Len(shown)], i, NoTask) ELSE w

RubOut(w, i) ==
    LET c == w.sec[i][Len(w.sec[i])]
        v == IF c \in Controls THEN Sends(w, i, "DEL") ELSE w
        e == IF i \in setup.echo THEN Output(Sends(v, i, "DEL"), i, NoTask) ELSE w
    IN  [e EXCEPT !.sec[i] = SubSeq(@, 1, Len(@) - 1)]

MutAtLineStart(w, i) == w.sec[i] = <<>>
AtLineStart(w, i) == w.sec[i] = <<>> \/ w.sec[i][Len(w.sec[i])] \in LineEnds
KillLine(w, i) ==
    LET r[n \in 0..SIZE] == IF n = 0 \/ AtLineStart(w, i) THEN w
                            ELSE IF AtLineStart(r[n - 1], i) THEN r[n - 1] ELSE RubOut(r[n - 1], i)
    IN  r[SIZE]

(* One character that was typed. *)
CookOne(w, i) ==
    LET typed == Head(w.rq[i])
        c == IF typed = "CR" /\ setup.kind[i] = "con" THEN "NL" ELSE typed
        v == [w EXCEPT !.rq[i] = Tail(@),
                       !.keys[i] = Append(@, [char |-> c, read |-> Len(w.got[i])])] IN
    CASE c = "KILL" /\ i \in setup.canon -> KillLine(v, i)
      [] c = "ERASE" /\ i \in setup.canon -> IF AtLineStart(v, i) THEN v ELSE RubOut(v, i)
      [] c = "STOP" /\ i \in setup.ixon -> Output([v EXCEPT !.stopped[i] = TRUE], i, NoTask)
      [] c = "START" /\ i \in setup.ixon -> Output([v EXCEPT !.stopped[i] = FALSE], i, NoTask)
      [] c = "INTR" /\ i \in setup.canon -> [v EXCEPT !.signal = @ \cup setup.pgrp[i]]
      [] OTHER -> [Echo(IF c \in LineEnds THEN [v EXCEPT !.data[i] = @ + 1] ELSE v, i, c)
                     EXCEPT !.sec[i] = PutCh(@, c)]

Cook(w, i) ==
    IF w.rq[i] = <<>> \/ Full(w.sec[i]) THEN [w EXCEPT !.readers[i] = {}]
    ELSE Cook(CookOne(w, i), i)

(* tty->write; p is the task that calls it. *)
Output(w, i, p) ==
    CASE setup.kind[i] = "con" ->
           IF w.stopped[i] THEN w ELSE [w EXCEPT !.out[i] = @ \o w.wq[i], !.wq[i] = <<>>]
      [] setup.kind[i] = "rs" -> [w EXCEPT !.tx[i] = @ \/ w.wq[i] # <<>>]
      [] setup.kind[i] = "pty" -> PtyCopy(w, i, p)

PtyCopy(w, i, p) ==
    LET j == setup.peer[i]
        c == Head(w.wq[i])
        Moved == [w EXCEPT !.wq[i] = Tail(@), !.out[i] = Append(@, c), !.rq[j] = Append(@, c)]
        Stop(v) == [Cook(v, j) EXCEPT !.writers[i] = {}] IN
    IF w.stopped[i] \/ w.wq[i] = <<>> THEN Stop(w)
    ELSE IF Full(w.rq[j]) THEN IF Full(w.sec[j]) THEN Stop(w) ELSE PtyCopy(Cook(w, j), i, p)
    ELSE IF p \in w.signal THEN Stop(Moved) ELSE PtyCopy(Moved, i, p)

-----------------------------------------------------------------------------
(* Interrupts.  A character is dropped when there is no room. *)
Type(i, c) ==
    /\ setup.kind[i] \in {"con", "rs"}
    /\ c \in setup.keys[i]
    /\ Len(s.keys[i]) + Len(s.rq[i]) < setup.most
    /\ s' = Cook(IF Full(s.rq[i]) THEN s ELSE [s EXCEPT !.rq[i] = Append(@, c)], i)
    /\ UNCHANGED <<setup, job, running>>

Transmit(i) ==
    LET q == s.wq[i]
        last == Len(q) <= 1 IN
    /\ s.tx[i]
    /\ s' = [s EXCEPT !.tx[i] = ~last,
                      !.writers[i] = IF last \/ Len(q) <= Startup THEN {} ELSE @,
                      !.wq[i] = IF q = <<>> THEN q ELSE Tail(q),
                      !.out[i] = IF q = <<>> THEN @ ELSE Append(@, Head(q))]
    /\ UNCHANGED <<setup, job, running>>

-----------------------------------------------------------------------------
(* What the tasks do. *)
CallOf(p) == setup.calls[p][job[p].n]
Asleep(p) == \E i \in Tty : p \in s.readers[i] \cup s.writers[i]
Awoken(p) == [s EXCEPT !.readers = [i \in Tty |-> @[i] \ {p}], !.writers = [i \in Tty |-> @[i] \ {p}]]

(* p goes on at a place. *)
At(p, places) ==
    /\ job[p].pc \in places
    /\ running \in {NoTask, p}
    /\ ~Asleep(p) \/ p \in s.signal

Return(p, w) ==
    /\ s' = [w EXCEPT !.signal = @ \ {p}]
    /\ job' = [job EXCEPT ![p].pc = "idle", ![p].n = @ + 1, ![p].timeout = "none"]
    /\ running' = NoTask

Call(p) ==
    LET c == CallOf(p)
        raw == c.op = "read" /\ c.tty \notin setup.canon
        min == IF raw /\ setup.min > 0 THEN setup.min ELSE c.nr IN
    /\ At(p, {"idle"})
    /\ job[p].n <= Len(setup.calls[p])
    /\ job' = [job EXCEPT ![p] = [pc |-> c.op, n |-> @.n, left |-> c.nr, got |-> 0, char |-> "none",
                                  min |-> IF min > c.nr THEN c.nr ELSE min,
                                  time |-> IF raw /\ setup.min > 0 THEN setup.time ELSE 0,
                                  timeout |-> CASE c.op = "write" -> "none"
                                                [] ~raw \/ setup.min > 0 -> "never"
                                                [] setup.time > 0 -> "set"
                                                [] OTHER -> "none"]]
    /\ running' = p
    /\ UNCHANGED <<setup, s>>

NothingToRead(w, i) ==
    \/ w.sec[i] = <<>>
    \/ i \in setup.canon /\ ~Full(w.rq[i]) /\ w.data[i] = 0

(* tty_read until it sleeps, ends, or reads buf[tail]: tail follows later. *)
Read(p) ==
    LET i == CallOf(p).tty
        w == IF setup.kind[i] = "pty" THEN Output(Awoken(p), setup.peer[i], p) ELSE Awoken(p) IN
    /\ At(p, {"read"})
    /\ IF job[p].left = 0 THEN Return(p, Awoken(p))
       ELSE IF NothingToRead(w, i) THEN
            IF job[p].timeout = "none" \/ p \in w.signal \/ i \in setup.hup THEN Return(p, w)
            ELSE /\ s' = [w EXCEPT !.readers[i] = @ \cup {p}]
                 /\ running' = NoTask
                 /\ UNCHANGED job
       ELSE /\ s' = w
            /\ job' = [job EXCEPT ![p].pc = "take", ![p].char = Head(w.sec[i])]
            /\ running' = p
    /\ UNCHANGED setup

(* INC(tail): past head, a queue that is empty becomes full.               *)
IncTail(q) == IF q = <<>> THEN [n \in 1..(SIZE - 1) |-> "stale"] ELSE Tail(q)

Take(p) ==
    LET i == CallOf(p).tty
        c == job[p].char
        w == [s EXCEPT !.sec[i] = IncTail(@), !.got[i] = Append(@, c),
                       !.data[i] = IF c \in LineEnds THEN @ - 1 ELSE @] IN
    /\ At(p, {"take"})
    /\ IF c = "EOF" /\ i \in setup.canon THEN Return(p, w)
       ELSE /\ s' = w
            /\ job' = [job EXCEPT ![p].pc = "give"]
            /\ running' = IF setup.faults THEN NoTask ELSE p
    /\ UNCHANGED setup

(* put_fs_byte has stored the character, perhaps after a page fault.       *)
Give(p) ==
    LET i == CallOf(p).tty
        j == [job[p] EXCEPT !.left = @ - 1, !.got = @ + 1]
        enough == i \in setup.canon \/ j.got >= j.min
        over == j.left = 0 \/ s.sec[i] = <<>> \/ (i \in setup.canon /\ j.char = "NL") IN
    /\ At(p, {"give"})
    /\ IF over /\ enough THEN Return(p, s)
       ELSE /\ job' = [job EXCEPT ![p] =
                 IF ~over THEN [j EXCEPT !.pc = "take", !.char = Head(s.sec[i])]
                 ELSE [j EXCEPT !.pc = "read", !.timeout = IF j.time > 0 THEN "set" ELSE @]]
            /\ running' = p
            /\ UNCHANGED s
    /\ UNCHANGED setup

TimeOut(p) ==
    /\ job[p].timeout = "set"
    /\ s' = Awoken(p)
    /\ job' = [job EXCEPT ![p].timeout = "none"]
    /\ UNCHANGED <<setup, running>>

(* sleep_if_full; "full" is inside its loop. *)
SleepIfFull(p) ==
    LET i == CallOf(p).tty
        full == job[p].pc = "full" \/ Full(s.wq[i]) IN
    /\ At(p, {"write", "full"})
    /\ IF job[p].left = 0 \/ p \in s.signal THEN Return(p, Awoken(p))
       ELSE IF full /\ Left(s.wq[i]) < Low
         THEN /\ s' = [s EXCEPT !.writers[i] = @ \cup {p}]
              /\ job' = [job EXCEPT ![p].pc = "full"]
              /\ running' = NoTask
         ELSE /\ job' = [job EXCEPT ![p].pc = "fill"]
              /\ running' = p
              /\ UNCHANGED s
    /\ UNCHANGED setup

(* There is room, and get_fs_byte takes the next character, which may have *)
(* to be swapped in.                                                       *)
Fetch(p) ==
    /\ At(p, {"fill"})
    /\ job[p].left > 0 /\ ~Full(s.wq[CallOf(p).tty])
    /\ job' = [job EXCEPT ![p].pc = "put"]
    /\ running' = IF setup.faults THEN NoTask ELSE p
    /\ UNCHANGED <<setup, s>>

Put(p) ==
    LET c == CallOf(p)
        char == c.text[Len(c.text) + 1 - job[p].left]
        addCr == char = "NL" /\ ~s.cr /\ setup.kind[c.tty] = "con" IN
    /\ At(p, {"put"})
    /\ s' = [Sends(s, c.tty, IF addCr THEN "CR" ELSE char) EXCEPT !.cr = addCr]
    /\ job' = [job EXCEPT ![p].pc = "fill", ![p].left = IF addCr THEN @ ELSE @ - 1]
    /\ running' = p
    /\ UNCHANGED setup

Flush(p) ==
    LET i == CallOf(p).tty
        w == Output(s, i, p) IN
    /\ At(p, {"fill"})
    /\ job[p].left = 0 \/ Full(s.wq[i])
    /\ IF job[p].left = 0 THEN Return(p, w)
       ELSE /\ s' = w
            /\ job' = [job EXCEPT ![p].pc = "write"]
            /\ running' = NoTask
    /\ UNCHANGED setup

(* tty_ioctl: TCXONC and TCFLSH. *)
Ioctl(i, cmd) ==
    /\ <<i, cmd>> \in setup.ioctls
    /\ running = NoTask
    /\ s' = CASE cmd = "TCOOFF" -> Output([s EXCEPT !.stopped[i] = TRUE], i, NoTask)
              [] cmd = "TCOON" -> Output([s EXCEPT !.stopped[i] = FALSE], i, NoTask)
              [] cmd = "TCIFLUSH" -> [s EXCEPT !.rq[i] = <<>>]
              [] cmd = "TCOFLUSH" -> [s EXCEPT !.wq[i] = <<>>, !.sent[i] = s.out[i]]
    /\ UNCHANGED <<setup, job, running>>

Next ==
    \/ \E p \in Task : Call(p) \/ Read(p) \/ Take(p) \/ Give(p) \/ TimeOut(p)
                       \/ SleepIfFull(p) \/ Fetch(p) \/ Put(p) \/ Flush(p)
    \/ \E i \in Tty : \/ Transmit(i)
                      \/ \E c \in setup.keys[i] : Type(i, c)
                      \/ \E cmd \in {"TCOOFF", "TCOON", "TCIFLUSH", "TCOFLUSH"} : Ioctl(i, cmd)

-----------------------------------------------------------------------------
(* copy_to_cooked and tty_read agree on the number of lines that wait to   *)
(* be read, whatever was erased in between (secondary->data).              *)
LinesCounted ==
    \A i \in Tty : s.data[i] = Cardinality({n \in DOMAIN s.sec[i] : s.sec[i][n] \in LineEnds})

(* What is read is what was typed, edited: an erasure takes back the last  *)
(* character of the line, unless it has been read, and nothing of the line *)
(* before; a kill takes back all of them.                                  *)
Edited(i) ==
    LET k == s.keys[i]
        f[n \in 0..Len(k)] ==
          IF n = 0 THEN <<>>
          ELSE LET t == f[n - 1]
                   c == k[n].char
                   kept == {m \in k[n].read..Len(t) :
                              \A l \in (m + 1)..Len(t) : t[l] \notin LineEnds}
                   first == CHOOSE m \in kept : \A l \in kept : m <= l IN
               CASE c = "KILL" -> SubSeq(t, 1, first)
                 [] c = "ERASE" -> SubSeq(t, 1, IF first < Len(t) THEN Len(t) - 1 ELSE Len(t))
                 [] c \in {"STOP", "START"} /\ i \in setup.ixon -> t
                 [] c = "INTR" -> t
                 [] OTHER -> Append(t, c)
    IN  f[Len(k)]
TextAsEdited == \A i \in setup.canon : s.got[i] \o s.sec[i] = Edited(i)

(* What is written leaves once and in order, whoever else types or writes. *)
WrittenInOrder == \A i \in Tty \ setup.echo : s.sent[i] = s.out[i] \o s.wq[i]

(* No reader sleeps while there is something to read; no writer sleeps     *)
(* unless the line transmits, or the other end of the pty has no room.     *)
NobodyForgotten ==
    \A i \in Tty :
      /\ s.readers[i] # {} => NothingToRead(s, i)
      /\ s.writers[i] # {} /\ setup.kind[i] = "rs" => s.tx[i]
      /\ s.writers[i] # {} /\ setup.kind[i] = "pty" => s.stopped[i] \/ Full(s.rq[setup.peer[i]])

TerminalsSound == LinesCounted /\ TextAsEdited /\ WrittenInOrder /\ NobodyForgotten

(* A writer never waits for an output queue that is empty. *)
WritersWoken == \A i \in Tty : s.writers[i] # {} => s.wq[i] # <<>>
=============================================================================
