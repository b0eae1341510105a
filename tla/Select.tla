------------------------------- MODULE Select -------------------------------
(***************************************************************************)
(* select() on the ends of a pipe (fs/select.c: do_select with check_in,   *)
(* check_out, check_ex, add_wait and free_wait), together with the readers *)
(* and writers of module Pipe.  Interrupts are off throughout, so a task   *)
(* in do_select is interleaved with others only where it sleeps: in its    *)
(* own schedule(), and in free_wait, where it waits for those who came     *)
(* onto the queue after it.  Among themselves the readers do not (Pipe).   *)
(***************************************************************************)
EXTENDS Pipe

CONSTANT Selector \* bound: the tasks that call select

ASSUME SelectorAssumption == Selector \subseteq Task

VARIABLES sel,     \* sel[t]: what the task selects for: "in", "out" or "ex"
          timeout, \* timeout[t]: current->timeout: "none", "running" or "past"
          after    \* after[t]: who came onto the queue i_wait after t, and is still on it

svars == <<head, tail, page, readers, writers, i_wait, i_wait2, pc, count,
           sent, got, signal, intact, faulted, sel, timeout, after>>

SInit ==
    /\ Init
    /\ sel = [t \in Task |-> "in"]
    /\ timeout = [t \in Task |-> "none"]
    /\ after = [t \in Task |-> {}]

(* sys_select, with or without a time limit. *)
SelectStart(t, what, limit) ==
    /\ pc[t] = "idle"
    /\ t \in CASE what = "in" -> readers [] what = "out" -> writers [] OTHER -> readers \cup writers
    /\ pc' = [pc EXCEPT ![t] = "select"]
    /\ sel' = [sel EXCEPT ![t] = what]
    /\ timeout' = [timeout EXCEPT ![t] = limit]
    /\ UNCHANGED <<ring, ends, queues, count, sent, got, signal, intact, faulted, after>>

(* check_in, check_out and check_ex. *)
Ready(what) ==
    CASE what = "in" -> PIPE_SIZE # 0
      [] what = "out" -> PIPE_SIZE # PAGE_SIZE - 1
      [] what = "ex" -> i_count < 2

InSelect(t) == pc[t] \in {"select", "select_again"}

OnQueue(t) == pc[t] = "select_again"

(* When u goes on it leaves the queue; if it sleeps again, it is the last  *)
(* to have come.                                                           *)
GoesOn(u) ==
    after' = [t \in Task |-> IF t = u \/ ~OnQueue(t) THEN {}
                             ELSE (after[t] \ {u}) \cup (i_wait' \ i_wait)]

(* A task that comes back from schedule() calls free_wait before it looks  *)
(* again.  Those who came onto the queue after it must leave it first: it  *)
(* wakes them, also when they have come back meanwhile, ...                *)
SelectWaits(t) ==
    /\ OnQueue(t) /\ Awake(t)
    /\ after[t] \cap i_wait # {}
    /\ i_wait' = i_wait \ after[t]
    /\ UNCHANGED <<ring, ends, i_wait2, pc, count, sent, got, signal, intact, faulted, sel, timeout,
                   after>>

(* ... and then leaves it and wakes those who were there before.           *)
FreeWait(t) ==
    /\ after[t] = {}
    /\ i_wait' = IF OnQueue(t) THEN {} ELSE i_wait

(* Something is ready or a signal came: select returns. *)
SelectReturn(t) ==
    /\ InSelect(t) /\ Awake(t)
    /\ Ready(sel[t]) \/ signal[t]
    /\ pc' = [pc EXCEPT ![t] = "idle"]
    /\ timeout' = [timeout EXCEPT ![t] = "none"]
    /\ signal' = [signal EXCEPT ![t] = FALSE]
    /\ sel' = [sel EXCEPT ![t] = "in"]
    /\ FreeWait(t)
    /\ GoesOn(t)
    /\ UNCHANGED <<ring, ends, i_wait2, count, sent, got, intact, faulted>>

(* Nothing is ready: add_wait puts the task on i_wait, whatever it selects *)
(* for, and since wait_table.nr is not zero it sleeps -- also when its     *)
(* timeout is zero because schedule() has found it in the past.            *)
SelectSleep(t) ==
    /\ InSelect(t) /\ Awake(t)
    /\ ~Ready(sel[t]) /\ ~signal[t]
    /\ after[t] = {}
    /\ i_wait' = IF OnQueue(t) THEN {t} ELSE i_wait \cup {t}
    /\ GoesOn(t)
    /\ pc' = [pc EXCEPT ![t] = "select_again"]
    /\ UNCHANGED <<ring, ends, i_wait2, count, sent, got, signal, intact, faulted, sel, timeout>>

(* schedule() finds the timeout in the past and wakes the task, ... *)
SelectTimeout(t) ==
    /\ InSelect(t)
    /\ t \in i_wait
    /\ timeout[t] = "running"
    /\ timeout' = [timeout EXCEPT ![t] = "past"]
    /\ i_wait' = i_wait \ {t}
    /\ UNCHANGED <<ring, ends, i_wait2, pc, count, sent, got, signal, intact, faulted, sel, after>>

(* ... or a signal. *)
SelectSignal(t) ==
    /\ InSelect(t)
    /\ ~signal[t]
    /\ signal' = [signal EXCEPT ![t] = TRUE]
    /\ i_wait' = i_wait \ {t}
    /\ UNCHANGED <<ring, ends, i_wait2, pc, count, sent, got, intact, faulted, sel, timeout, after>>

SelectStep(t) == SelectReturn(t) \/ SelectSleep(t) \/ SelectWaits(t)

PipeStep(t) == Step(t) /\ GoesOn(t) /\ UNCHANGED <<sel, timeout>>

SNext ==
    \/ Calls /\ UNCHANGED <<sel, timeout, after>>
    \/ \E t \in Task : PipeStep(t)
    \/ \E t \in Selector :
          \/ \E what \in {"in", "out", "ex"}, limit \in {"none", "running"} : SelectStart(t, what, limit)
          \/ SelectStep(t)
          \/ SelectTimeout(t)
          \/ SelectSignal(t)

(* As in Pipe; jiffies pass every timeout. *)
SFairness ==
    /\ \A t \in Task : WF_svars(PipeStep(t))
    /\ \A t \in Selector :
        /\ WF_svars(SelectStep(t))
        /\ WF_svars(SelectTimeout(t))

SSpec == SInit /\ [][SNext]_svars /\ SFairness

-----------------------------------------------------------------------------
STypeOK ==
    /\ TypeOK
    /\ sel \in [Task -> {"in", "out", "ex"}]
    /\ timeout \in [Task -> {"none", "running", "past"}]
    /\ after \in [Task -> SUBSET Task]

Selecting(t, what) == InSelect(t) /\ t \in i_wait /\ sel[t] = what

(* A task that selects for reading wakes up when something was written,    *)
(* one that selects for an exception when an end is closed: iput wakes     *)
(* i_wait before it drops the count, and still nobody misses it.  Nor does *)
(* a task stay in select for ever while what it waits for is there,        *)
(* although it has to wait for later sleepers before it may leave.         *)
SelectorsReturn ==
    \A t \in Selector :
        /\ \A what \in {"in", "ex"} :
               (Selecting(t, what) /\ Ready(what)) ~> ~Selecting(t, what)
        /\ []<>~(InSelect(t) /\ sel[t] # "out" /\ Ready(sel[t]))

(* The head of select.c: it "should be free of race-conditions".  When a   *)
(* task in select has a signal, it leaves, unless a reader does so first.  *)
SignalEndsSelect ==
    \A t \in Selector :
        (InSelect(t) /\ signal[t]) ~> (~InSelect(t) \/ \E r \in Reader : pc[r] = "idle")
=============================================================================
