------------------------------- MODULE SleepOn -------------------------------
(***************************************************************************)
(* The kernel's wait queues (kernel/sched.c: __sleep_on, wake_up, and the  *)
(* part of schedule() that ends a sleep), driven by the lock loops that    *)
(* use them (lock_buffer, wait_on_buffer, unlock_buffer; the inode and     *)
(* super block locks have the same text).                                  *)
(*                                                                         *)
(* A queue has no list of its own.  The pointer *p names the task that     *)
(* went to sleep last, and every sleeper keeps the previous value of *p in *)
(* a local variable, tmp, on its kernel stack: the chain of sleepers runs  *)
(* through the stacks.  wake_up() makes only the task *p runnable, and     *)
(* each task that leaves the queue wakes the next one.                     *)
(*                                                                         *)
(* The kernel is not preemptive: a task runs from one call of schedule()   *)
(* to the next without another task in between, and the lock loops run     *)
(* with interrupts off, so each such stretch is one action.                *)
(***************************************************************************)
EXTENDS Naturals, Sequences

CONSTANTS Task,   \* the tasks other than task[0], which may not sleep
          NoTask  \* the NULL pointer

ASSUME NoTaskAssumption == NoTask \notin Task

VARIABLES head,   \* *p, the head of the wait queue
          tmp,    \* tmp[t]: the local variable of t's call of __sleep_on
          state,  \* state[t]: task_struct.state
          pc,     \* where a task is: "out", "asleep" (in schedule()) or "holds"
          how,    \* how[t]: the loop that called __sleep_on
          sig,    \* sig[t]: an unblocked signal is pending
          b_lock, \* the lock bit the queue belongs to
          queue   \* history: the tasks asleep, in the order they went to sleep

vars == <<head, tmp, state, pc, how, sig, b_lock, queue>>

(* lock_buffer takes the lock, wait_on_buffer only waits until it is free,  *)
(* an interruptible sleeper also gives up when it has a signal.            *)
Loop == {"lock_buffer", "wait_on_buffer", "interruptible"}

SleepState(k) ==
    IF k = "interruptible" THEN "TASK_INTERRUPTIBLE" ELSE "TASK_UNINTERRUPTIBLE"

TypeOK ==
    /\ head \in Task \cup {NoTask}
    /\ tmp \in [Task -> Task \cup {NoTask}]
    /\ state \in [Task -> {"TASK_RUNNING", "TASK_INTERRUPTIBLE", "TASK_UNINTERRUPTIBLE"}]
    /\ pc \in [Task -> {"out", "asleep", "holds"}]
    /\ how \in [Task -> Loop]
    /\ sig \in [Task -> BOOLEAN]
    /\ b_lock \in BOOLEAN
    /\ queue \in Seq(Task)

Init ==
    /\ head = NoTask
    /\ tmp = [t \in Task |-> NoTask]
    /\ state = [t \in Task |-> "TASK_RUNNING"]
    /\ pc = [t \in Task |-> "out"]
    /\ how = [t \in Task |-> "lock_buffer"]
    /\ sig = [t \in Task |-> FALSE]
    /\ b_lock = FALSE
    /\ queue = <<>>

(* The states after q->state = TASK_RUNNING, where q may be NULL. *)
Running(s, q) == [u \in Task |-> IF u = q THEN "TASK_RUNNING" ELSE s[u]]

-----------------------------------------------------------------------------
(* lock_buffer finds the lock free and takes it. *)
Take(t) ==
    /\ pc[t] = "out"
    /\ ~b_lock
    /\ b_lock' = TRUE
    /\ pc' = [pc EXCEPT ![t] = "holds"]
    /\ UNCHANGED <<head, tmp, state, how, sig, queue>>

(* A loop finds the lock taken and calls __sleep_on: tmp = *p, *p =        *)
(* current, current->state = state, schedule().                            *)
Sleep(t, k) ==
    /\ pc[t] = "out"
    /\ b_lock
    /\ tmp' = [tmp EXCEPT ![t] = head]
    /\ head' = t
    /\ state' = [state EXCEPT ![t] = SleepState(k)]
    /\ pc' = [pc EXCEPT ![t] = "asleep"]
    /\ how' = [how EXCEPT ![t] = k]
    /\ queue' = Append(queue, t)
    /\ UNCHANGED <<sig, b_lock>>

(* schedule() returns to a sleeper that is not the head of the queue: it   *)
(* wakes the head and sleeps on, now uninterruptibly.                      *)
WakeHead(t) ==
    /\ pc[t] = "asleep"
    /\ state[t] = "TASK_RUNNING"
    /\ head \notin {NoTask, t}
    /\ state' = [Running(state, head) EXCEPT ![t] = "TASK_UNINTERRUPTIBLE"]
    /\ UNCHANGED <<head, tmp, pc, how, sig, b_lock, queue>>

MutReturns(t) == pc[t] = "asleep" /\ state[t] = "TASK_RUNNING"

(* schedule() returns to the head (or finds *p NULL, and prints a warning): *)
(* __sleep_on pops the task, *p = tmp, and wakes the new head.             *)
Returns(t) ==
    /\ pc[t] = "asleep"
    /\ state[t] = "TASK_RUNNING"
    /\ head \in {NoTask, t}

(* A mutant: "if" for "while" in the lock loops. *)
MutLeaveIf(t) ==
    /\ Returns(t)
    /\ head' = tmp[t]
    /\ state' = Running(state, tmp[t])
    /\ b_lock' = (b_lock \/ how[t] = "lock_buffer")
    /\ pc' = [pc EXCEPT ![t] = IF how[t] = "lock_buffer" THEN "holds" ELSE "out"]
    /\ sig' = [sig EXCEPT ![t] = FALSE]
    /\ queue' = SubSeq(queue, 1, Len(queue) - 1)
    /\ UNCHANGED <<tmp, how>>

(* Back in its loop the task finds the lock free, or has a signal. *)
Leave(t) ==
    /\ Returns(t)
    /\ ~b_lock \/ (how[t] = "interruptible" /\ sig[t])
    /\ head' = tmp[t]
    /\ state' = Running(state, tmp[t])
    /\ b_lock' = (b_lock \/ how[t] = "lock_buffer")
    /\ pc' = [pc EXCEPT ![t] = IF how[t] = "lock_buffer" THEN "holds" ELSE "out"]
    /\ sig' = [sig EXCEPT ![t] = FALSE]
    /\ queue' = SubSeq(queue, 1, Len(queue) - 1)
    /\ UNCHANGED <<tmp, how>>

(* Back in its loop the task finds the lock still taken and calls          *)
(* __sleep_on again: it was popped, the new head tmp[t] was made runnable, *)
(* and the task pushes itself on top of it.                                *)
Resleep(t) ==
    /\ Returns(t)
    /\ b_lock
    /\ ~(how[t] = "interruptible" /\ sig[t])
    /\ head' = t
    /\ state' = [Running(state, tmp[t]) EXCEPT ![t] = SleepState(how[t])]
    /\ UNCHANGED <<tmp, pc, how, sig, b_lock, queue>>

MutUnlock(t) ==
    /\ pc[t] = "holds"
    /\ b_lock' = FALSE
    /\ pc' = [pc EXCEPT ![t] = "out"]
    /\ UNCHANGED <<head, tmp, state, how, sig, queue>>

(* unlock_buffer: b_lock = 0, wake_up(&b_wait). *)
Unlock(t) ==
    /\ pc[t] = "holds"
    /\ b_lock' = FALSE
    /\ pc' = [pc EXCEPT ![t] = "out"]
    /\ state' = Running(state, head)
    /\ UNCHANGED <<head, tmp, how, sig, queue>>

(* A signal is sent to a sleeper. *)
Signal(t) ==
    /\ pc[t] = "asleep"
    /\ ~sig[t]
    /\ sig' = [sig EXCEPT ![t] = TRUE]
    /\ UNCHANGED <<head, tmp, state, pc, how, b_lock, queue>>

(* schedule() makes an interruptible sleeper with a signal runnable. *)
ScheduleSignal(t) ==
    /\ sig[t]
    /\ state[t] = "TASK_INTERRUPTIBLE"
    /\ state' = [state EXCEPT ![t] = "TASK_RUNNING"]
    /\ UNCHANGED <<head, tmp, pc, how, sig, b_lock, queue>>

Next ==
    \E t \in Task :
        \/ Take(t)
        \/ \E k \in Loop : Sleep(t, k)
        \/ WakeHead(t)
        \/ Leave(t)
        \/ Resleep(t)
        \/ Unlock(t)
        \/ Signal(t)
        \/ ScheduleSignal(t)

(* schedule() gets around to every runnable task, it looks at every        *)
(* task's signals, and the I/O a lock is held for comes to an end.         *)
Fairness ==
    \A t \in Task :
        /\ WF_vars(WakeHead(t) \/ Leave(t) \/ Resleep(t))
        /\ WF_vars(Unlock(t))
        /\ WF_vars(ScheduleSignal(t))

Spec == Init /\ [][Next]_vars /\ Fairness

-----------------------------------------------------------------------------
Asleep == {t \in Task : pc[t] = "asleep"}

(* The chain through the kernel stacks is exactly the stack of sleepers:   *)
(* *p is the youngest, each tmp the next older one, nobody is on it twice  *)
(* and nobody is lost from it (kernel/sched.c, __sleep_on).                *)
Chain ==
    /\ head = IF queue = <<>> THEN NoTask ELSE queue[Len(queue)]
    /\ \A i \in 1..Len(queue) :
          /\ pc[queue[i]] = "asleep"
          /\ tmp[queue[i]] = IF i = 1 THEN NoTask ELSE queue[i - 1]
    /\ \A i, j \in 1..Len(queue) : queue[i] = queue[j] => i = j
    /\ \A t \in Asleep : \E i \in 1..Len(queue) : queue[i] = t

(* __sleep_on never gets to print "Warning: *P = NULL": a task that comes  *)
(* back from schedule() always finds somebody on the queue.                *)
NoNullWarning == \A t \in Task : pc[t] = "asleep" => head # NoTask

(* No lost wake-up: if the lock is free and tasks wait for it, the head of *)
(* the queue has been made runnable (so wake_up's single assignment, and   *)
(* the hand-over of each task that leaves, reach somebody who will go on). *)
NoLostWakeup == ~b_lock /\ Asleep # {} => head \in Task /\ state[head] = "TASK_RUNNING"

(* lock_buffer is a mutual exclusion lock: at most one holder, and the     *)
(* lock bit is set exactly while there is one.                             *)
LockOwner ==
    /\ \A t, u \in Task : pc[t] = "holds" /\ pc[u] = "holds" => t = u
    /\ b_lock <=> \E t \in Task : pc[t] = "holds"

(* A task that is not asleep is runnable: nobody's state is left at a      *)
(* sleeping value by a queue it is no longer on.                           *)
AwakeIsRunning == \A t \in Task : pc[t] # "asleep" => state[t] = "TASK_RUNNING"

(* The youngest sleeper goes first: a step removes at most the head from   *)
(* the queue, never a task from the middle of the chain.                   *)
LastInFirstOut ==
    [][\A t \in Task : pc[t] = "asleep" /\ pc'[t] # "asleep" => head = t]_vars

(* A free lock that tasks wait for is always taken or the waiters leave:   *)
(* deadlock freedom of the lock loops.                                     *)
WaitersProgress == (~b_lock /\ Asleep # {}) ~> (b_lock \/ Asleep = {})

(* The loops implement the abstract lock. *)
Abstract == INSTANCE WakeLock WITH owner <- {t \in Task : pc[t] = "holds"},
                                   waiting <- Asleep
ImplementsWakeLock == Abstract!ASpec
=============================================================================
