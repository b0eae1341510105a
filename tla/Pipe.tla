-------------------------------- MODULE Pipe --------------------------------
(***************************************************************************)
(* Pipes (fs/pipe.c: sys_pipe, read_pipe, write_pipe; the pipe part of     *)
(* iput in fs/inode.c): a page used as a ring buffer, shared by the tasks  *)
(* that inherited its two ends.                                            *)
(*                                                                         *)
(* An action is a turn of the loops of read_pipe and write_pipe; for tasks *)
(* in Faulting the copy can be an action of its own, since a page fault in *)
(* it may put the task to sleep.  The wait queues i_wait and               *)
(* i_wait2 are sets of sleepers that wake_up empties (module SleepOn shows *)
(* that a wake-up travels through the whole queue).                        *)
(*                                                                         *)
(* Bytes are numbered in the order they were given to write_pipe.  Numbers *)
(* are kept modulo twice the page size, which tells apart all bytes a cell *)
(* of the page can hold.                                                   *)
(***************************************************************************)
EXTENDS Integers, FiniteSets

CONSTANTS Reader, Writer, \* the tasks that were given an end of the pipe
          PAGE_SIZE,
          MaxCount,       \* bound on the count of a read or write
          Faulting        \* the tasks whose copies to and from user space may fault

ASSUME PipeAssumption ==
    /\ PAGE_SIZE \in Nat /\ PAGE_SIZE > 1
    /\ MaxCount \in Nat \ {0}
    /\ Faulting \subseteq Reader \cup Writer

Task == Reader \cup Writer
Serial == 2 * PAGE_SIZE

VARIABLES head, tail,  \* PIPE_HEAD, PIPE_TAIL
          page,        \* the ring: the number of the byte in each cell
          readers, writers, \* the tasks that still hold each end
          i_wait, i_wait2,  \* the tasks asleep on each queue
          pc,          \* the call a task is in ("select..." is module Select's)
          count,       \* count[t]: bytes still to be transferred
          sent, got,   \* history: the number of the next byte written and read
          signal,      \* a task has a signal
          intact,      \* history: every byte delivered was the one expected
          faulted      \* history: a copy to or from the page was put off by a fault

ring == <<head, tail, page>>
ends == <<readers, writers>>
queues == <<i_wait, i_wait2>>
vars == <<head, tail, page, readers, writers, i_wait, i_wait2, pc, count,
          sent, got, signal, intact, faulted>>

PIPE_SIZE == (head - tail) % PAGE_SIZE

(* What fits into the pipe: one cell of the page always stays free. *)
Room == PAGE_SIZE - 1 - PIPE_SIZE

(* INC_PIPE *)
Advance(p, n) == (p + n) % PAGE_SIZE

Unknown == [c \in 0..(PAGE_SIZE - 1) |-> -1]

i_count == (IF readers = {} THEN 0 ELSE 1) + (IF writers = {} THEN 0 ELSE 1)

Min3(a, b, c) == IF a <= b /\ a <= c THEN a ELSE IF b <= c THEN b ELSE c

Init ==
    /\ head = 0 /\ tail = 0
    /\ page = Unknown
    /\ readers = Reader /\ writers = Writer
    /\ i_wait = {} /\ i_wait2 = {}
    /\ pc = [t \in Task |-> "idle"]
    /\ count = [t \in Task |-> 0]
    /\ sent = 0 /\ got = 0
    /\ signal = [t \in Task |-> FALSE]
    /\ intact = TRUE
    /\ faulted = FALSE

Awake(t) == t \notin i_wait \cup i_wait2

(* sys_read or sys_write of n bytes; no bytes, nothing to do. *)
Start(t, call, n) ==
    /\ pc[t] = "idle"
    /\ t \in (IF call = "read" THEN readers ELSE writers)
    /\ pc' = [pc EXCEPT ![t] = call]
    /\ count' = [count EXCEPT ![t] = n]
    /\ UNCHANGED <<ring, ends, queues, sent, got, signal, intact, faulted>>

(* The call returns to user space; signals are taken there. *)
Return(t) ==
    /\ pc' = [pc EXCEPT ![t] = "idle"]
    /\ count' = [count EXCEPT ![t] = 0]

-----------------------------------------------------------------------------
(* read_pipe *)

(* The loop is over: wake the writers. *)
ReadDone(t) ==
    /\ pc[t] = "read" /\ Awake(t)
    /\ count[t] = 0
    /\ i_wait2' = {}
    /\ Return(t)
    /\ signal' = [signal EXCEPT ![t] = FALSE]
    /\ UNCHANGED <<ring, ends, i_wait, sent, got, intact, faulted>>

MutReadEmpty(t) ==
    /\ pc[t] = "read" /\ Awake(t)
    /\ count[t] > 0
    /\ PIPE_SIZE = 0
    /\ \/ /\ i_count # 2 \/ signal[t]
          /\ Return(t)
          /\ signal' = [signal EXCEPT ![t] = FALSE]
          /\ UNCHANGED i_wait
       \/ /\ i_count = 2 /\ ~signal[t]
          /\ i_wait' = i_wait \cup {t}
          /\ UNCHANGED <<pc, count, signal>>
    /\ UNCHANGED <<ring, ends, i_wait2, sent, got, intact, faulted>>

(* The pipe is empty: wake the writers, and give up if there are none left *)
(* or a signal came, or else sleep.                                        *)
ReadEmpty(t) ==
    /\ pc[t] = "read" /\ Awake(t)
    /\ count[t] > 0
    /\ PIPE_SIZE = 0
    /\ i_wait2' = {}
    /\ \/ /\ i_count # 2 \/ signal[t]
          /\ Return(t)
          /\ signal' = [signal EXCEPT ![t] = FALSE]
          /\ UNCHANGED i_wait
       \/ /\ i_count = 2 /\ ~signal[t]
          /\ i_wait' = i_wait \cup {t}
          /\ UNCHANGED <<pc, count, signal>>
    /\ UNCHANGED <<ring, ends, sent, got, intact, faulted>>

(* Mutant: the bytes are copied from where the tail is afterwards. *)
MutDelivers(p, n, s) == \A i \in 0..(n - 1) : page[Advance(p, n + i)] = (s + i) % Serial

(* The bytes the reader copies from position p are numbered from s. *)
Delivers(p, n, s) == \A i \in 0..(n - 1) : page[p + i] = (s + i) % Serial

(* A page fault puts off the copy of a piece of which the tail or the head *)
(* has already moved.  From then on the bytes are no longer followed.      *)
Fault(t, call) ==
    /\ t \in Faulting
    /\ pc' = [pc EXCEPT ![t] = call]
    /\ page' = Unknown
    /\ faulted' = TRUE

(* A piece up to the end of the page: the tail moves on, then the bytes    *)
(* are copied.                                                             *)
ReadPiece(t) ==
    LET n == Min3(PAGE_SIZE - tail, count[t], PIPE_SIZE) IN
    /\ pc[t] = "read" /\ Awake(t)
    /\ count[t] > 0
    /\ PIPE_SIZE # 0
    /\ count' = [count EXCEPT ![t] = @ - n]
    /\ tail' = Advance(tail, n)
    /\ got' = (got + n) % Serial
    /\ \/ /\ intact' = (intact /\ (faulted \/ Delivers(tail, n, got)))
          /\ UNCHANGED <<page, pc, faulted>>
       \/ /\ Fault(t, "read_copy")
          /\ UNCHANGED intact
    /\ UNCHANGED <<head, ends, queues, sent, signal>>

(* The copy after a page fault. *)
Copied(t) ==
    /\ \/ pc[t] = "read_copy" /\ pc' = [pc EXCEPT ![t] = "read"]
       \/ pc[t] = "write_copy" /\ pc' = [pc EXCEPT ![t] = "write"]
    /\ UNCHANGED <<ring, ends, queues, count, sent, got, signal, intact, faulted>>

-----------------------------------------------------------------------------
(* write_pipe *)

MutWriteDone(t) ==
    /\ pc[t] = "write" /\ Awake(t)
    /\ count[t] = 0
    /\ Return(t)
    /\ UNCHANGED <<ring, ends, queues, sent, got, signal, intact, faulted>>

WriteDone(t) ==
    /\ pc[t] = "write" /\ Awake(t)
    /\ count[t] = 0
    /\ i_wait' = {}
    /\ Return(t)
    /\ UNCHANGED <<ring, ends, i_wait2, sent, got, signal, intact, faulted>>

(* The pipe is full: wake the readers, and give up with a SIGPIPE if there *)
(* are none left, or else sleep, uninterruptibly.                          *)
WriteFull(t) ==
    /\ pc[t] = "write" /\ Awake(t)
    /\ count[t] > 0
    /\ Room = 0
    /\ i_wait' = {}
    /\ \/ /\ i_count # 2
          /\ Return(t)
          /\ UNCHANGED i_wait2
       \/ /\ i_count = 2
          /\ i_wait2' = i_wait2 \cup {t}
          /\ UNCHANGED <<pc, count>>
    /\ UNCHANGED <<ring, ends, sent, got, signal, intact, faulted>>

(* The page after the bytes from number s on were copied to position p. *)
Stored(p, n, s) ==
    [c \in 0..(PAGE_SIZE - 1) |-> IF c \in p..(p + n - 1) THEN (s + c - p) % Serial ELSE page[c]]

(* A piece up to the end of the page: the head moves on, then the bytes    *)
(* are copied.                                                             *)
WritePiece(t) ==
    LET n == Min3(PAGE_SIZE - head, count[t], Room) IN
    /\ pc[t] = "write" /\ Awake(t)
    /\ count[t] > 0
    /\ Room # 0
    /\ count' = [count EXCEPT ![t] = @ - n]
    /\ head' = Advance(head, n)
    /\ sent' = (sent + n) % Serial
    /\ \/ /\ page' = IF faulted THEN page ELSE Stored(head, n, sent)
          /\ UNCHANGED <<pc, faulted>>
       \/ Fault(t, "write_copy")
    /\ UNCHANGED <<tail, ends, queues, got, signal, intact>>

-----------------------------------------------------------------------------
MutClose(t, end) ==
    /\ pc[t] = "idle"
    /\ \/ end = "read" /\ t \in readers /\ readers' = readers \ {t} /\ UNCHANGED writers
       \/ end = "write" /\ t \in writers /\ writers' = writers \ {t} /\ UNCHANGED readers
    /\ i_wait2' = IF i_count' # i_count THEN {} ELSE i_wait2
    /\ UNCHANGED <<ring, i_wait, pc, count, sent, got, signal, intact, faulted>>

(* A task closes an end.  When nobody else has it, iput is called: it      *)
(* wakes both queues and drops the count.                                  *)
Close(t, end) ==
    /\ pc[t] = "idle"
    /\ \/ end = "read" /\ t \in readers /\ readers' = readers \ {t} /\ UNCHANGED writers
       \/ end = "write" /\ t \in writers /\ writers' = writers \ {t} /\ UNCHANGED readers
    /\ IF i_count' # i_count
       THEN i_wait' = {} /\ i_wait2' = {}
       ELSE UNCHANGED queues
    /\ UNCHANGED <<ring, pc, count, sent, got, signal, intact, faulted>>

(* The page is freed with the last end; sys_pipe makes a new pipe, which   *)
(* the tasks inherit.                                                      *)
SysPipe ==
    /\ i_count = 0
    /\ head' = 0 /\ tail' = 0
    /\ page' = Unknown
    /\ readers' = Reader /\ writers' = Writer
    /\ sent' = 0 /\ got' = 0
    /\ intact' = TRUE /\ faulted' = FALSE
    /\ UNCHANGED <<queues, pc, count, signal>>

(* A signal is sent; it wakes a reader (schedule() sees to it), never a    *)
(* writer.                                                                 *)
Signal(t) ==
    /\ pc[t] = "read"
    /\ ~signal[t]
    /\ signal' = [signal EXCEPT ![t] = TRUE]
    /\ i_wait' = i_wait \ {t}
    /\ UNCHANGED <<ring, ends, i_wait2, pc, count, sent, got, intact, faulted>>

Step(t) ==
    \/ ReadDone(t)
    \/ ReadEmpty(t)
    \/ ReadPiece(t)
    \/ Copied(t)
    \/ WriteDone(t)
    \/ WriteFull(t)
    \/ WritePiece(t)

Calls ==
    \/ SysPipe
    \/ \E t \in Task :
          \/ \E call \in {"read", "write"}, n \in 1..MaxCount : Start(t, call, n)
          \/ \E end \in {"read", "write"} : Close(t, end)
          \/ Signal(t)

Next == Calls \/ \E t \in Task : Step(t)

(* A task in the kernel gets the processor again when it can go on. *)
Fairness == \A t \in Task : WF_vars(Step(t))

Spec == Init /\ [][Next]_vars /\ Fairness

-----------------------------------------------------------------------------
TypeOK ==
    /\ head \in 0..(PAGE_SIZE - 1) /\ tail \in 0..(PAGE_SIZE - 1)
    /\ page \in [0..(PAGE_SIZE - 1) -> -1..(Serial - 1)]
    /\ readers \subseteq Reader /\ writers \subseteq Writer
    /\ i_wait \subseteq Task /\ i_wait2 \subseteq Task
    /\ pc \in [Task -> {"idle", "read", "read_copy", "write", "write_copy",
                      "select", "select_again"}]
    /\ count \in [Task -> 0..MaxCount]
    /\ sent \in 0..(Serial - 1) /\ got \in 0..(Serial - 1)
    /\ signal \in [Task -> BOOLEAN]
    /\ intact \in BOOLEAN /\ faulted \in BOOLEAN

(* The picture in read_pipe and write_pipe: from the tail to the head the  *)
(* page holds exactly the bytes written and not yet read, in order, also   *)
(* when they wrap around its end.  It takes a copy that is never put off:  *)
(* write_pipe moves the head before it copies.                             *)
ValidData ==
    /\ PIPE_SIZE = (sent - got) % Serial
    /\ ~faulted => \A i \in 0..(PIPE_SIZE - 1) : page[(tail + i) % PAGE_SIZE] = (got + i) % Serial

(* Readers get the bytes written, each once and in the order written,      *)
(* however the reads and writes of several tasks interleave, as long as no *)
(* copy is put off by a page fault: read_pipe and write_pipe move the tail *)
(* and the head before they copy, so a fault lets others at the piece.     *)
StreamIntact == ~faulted => intact

(* A reader does not sleep on while there is something to read, or when    *)
(* the last writer is gone; a writer does not when there is room, or when  *)
(* the last reader is gone (which it can only learn by waking up).         *)
ReadersAndWritersWake ==
    /\ \A t \in Reader : (t \in i_wait /\ pc[t] = "read" /\ (PIPE_SIZE # 0 \/ writers = {}))
                         ~> ~(t \in i_wait /\ pc[t] = "read")
    /\ \A t \in Writer : (t \in i_wait2 /\ (Room # 0 \/ readers = {})) ~> t \notin i_wait2

(* Readers and writers never sleep at the same time, each side waiting for *)
(* the other.                                                              *)
NobodyWaitsForEachOther ==
    ~\E r \in i_wait, w \in i_wait2 : pc[r] = "read" /\ pc[w] = "write"
=============================================================================
