------------------------------ MODULE Scheduler ------------------------------
(***************************************************************************)
(* The scheduler (kernel/sched.c: schedule, the end of do_timer, sys_pause, *)
(* sys_alarm, sys_nice) and the exit from a system call that may call it   *)
(* (kernel/sys_call.s: reschedule, ret_from_sys_call).                     *)
(*                                                                         *)
(* One task runs, task[0] when no other can.  A task in the kernel keeps   *)
(* the processor until it calls schedule(); in user mode the clock takes   *)
(* it away when its time slice is used up.  A wake-up only makes a task    *)
(* runnable: nothing is switched before the next call of schedule().       *)
(*                                                                         *)
(* A timeout or an alarm is kept as the number of ticks after which        *)
(* schedule() finds it in the past, plus one; zero is unset.               *)
(***************************************************************************)
EXTENDS Naturals, FiniteSets

CONSTANTS Task,        \* the tasks other than task[0]
          Idle,        \* task[0]
          MaxPriority, \* bound on the priority that nice can reach
          Waits        \* the delays of timeouts and alarms, in ticks

ASSUME SchedulerAssumption ==
    /\ Idle \notin Task
    /\ MaxPriority \in Nat \ {0}
    /\ Waits \subseteq Nat

VARIABLES current,  \* the task that has the processor
          mode,     \* mode[t]: is the task in the kernel or in user mode?
          state,    \* task_struct.state
          counter,  \* the ticks left of the time slice
          priority,
          signal,   \* a signal is pending that is not blocked
          timeout, alarm

vars == <<current, mode, state, counter, priority, signal, timeout, alarm>>

(* Every task was forked with counter = priority. *)
Init ==
    /\ current = Idle
    /\ mode = [t \in Task |-> "user"]
    /\ state = [t \in Task |-> "TASK_RUNNING"]
    /\ priority \in [Task -> 1..MaxPriority]
    /\ counter = priority
    /\ signal = [t \in Task |-> FALSE]
    /\ timeout = [t \in Task |-> 0]
    /\ alarm = [t \in Task |-> 0]

-----------------------------------------------------------------------------
(* schedule() *)

Past(countdown) == countdown = 1

(* Its first loop ends timeouts, turns alarms into signals, and makes      *)
(* interruptible sleepers that have a signal runnable.                     *)
Alarmed(al) == [t \in Task |-> signal[t] \/ Past(al[t])]

MutAwakened(st, to, al) ==
    [t \in Task |-> IF st[t] = "TASK_INTERRUPTIBLE" /\ Alarmed(al)[t]
                    THEN "TASK_RUNNING" ELSE st[t]]

Awakened(st, to, al) ==
    [t \in Task |-> IF st[t] = "TASK_INTERRUPTIBLE" /\ (Past(to[t]) \/ Alarmed(al)[t])
                    THEN "TASK_RUNNING" ELSE st[t]]

Cancel(cd) == [t \in Task |-> IF Past(cd[t]) THEN 0 ELSE cd[t]]

Runnable(st) == {t \in Task : st[t] = "TASK_RUNNING"}

MutRefill(c) == [t \in Task |-> c[t] + priority[t]]

(* The scheduler proper: while every runnable task has used up its slice,  *)
(* all tasks get a new one, ...                                            *)
Refill(c) == [t \in Task |-> (c[t] \div 2) + priority[t]]

Slices(st, c) ==
    IF Runnable(st) # {} /\ \A t \in Runnable(st) : c[t] = 0 THEN Refill(c) ELSE c

MutBestAny(st, c) == {t \in Task : \A u \in Task : c[u] <= c[t]}

MutBestPriority(st, c) ==
    IF Runnable(st) = {} THEN {Idle}
    ELSE {t \in Runnable(st) : \A u \in Runnable(st) : priority[u] <= priority[t]}

(* ... and a task with the most ticks left runs. *)
Best(st, c) ==
    IF Runnable(st) = {} THEN {Idle}
    ELSE {t \in Runnable(st) : \A u \in Runnable(st) : c[u] <= c[t]}

(* A call of schedule() with these states, slices, timeouts and alarms. *)
Schedule(st, c, to, al) ==
    /\ state' = Awakened(st, to, al)
    /\ counter' = Slices(state', c)
    /\ signal' = Alarmed(al)
    /\ timeout' = Cancel(to)
    /\ alarm' = Cancel(al)
    /\ current' \in Best(state', counter')

-----------------------------------------------------------------------------
(* The clock interrupt: do_timer charges the current task, and calls       *)
(* schedule() if its slice is used up and it was in user mode.             *)
Later(cd) == [t \in Task |-> IF cd[t] > 1 THEN cd[t] - 1 ELSE cd[t]]

Charged(t) == [u \in Task |-> IF u = t /\ counter[u] > 0 THEN counter[u] - 1 ELSE counter[u]]

Tick(t) ==
    /\ current = t
    /\ \/ /\ mode[t] = "kernel" \/ Charged(t)[t] > 0
          /\ counter' = Charged(t)
          /\ timeout' = Later(timeout)
          /\ alarm' = Later(alarm)
          /\ UNCHANGED <<current, state, signal>>
       \/ /\ mode[t] = "user" /\ Charged(t)[t] = 0
          /\ Schedule(state, Charged(t), Later(timeout), Later(alarm))
    /\ UNCHANGED <<mode, priority>>

(* task[0] calls sys_pause all the time; it only passes the time. *)
IdleTick ==
    /\ current = Idle
    /\ timeout' = Later(timeout)
    /\ alarm' = Later(alarm)
    /\ UNCHANGED <<current, mode, state, counter, priority, signal>>

IdlePause ==
    /\ current = Idle
    /\ Schedule(state, counter, timeout, alarm)
    /\ UNCHANGED <<mode, priority>>

(* The current task makes a system call, ... *)
SystemCall(t) ==
    /\ current = t
    /\ mode[t] = "user"
    /\ mode' = [mode EXCEPT ![t] = "kernel"]
    /\ UNCHANGED <<current, state, counter, priority, signal, timeout, alarm>>

(* ... in which it may set an alarm ... *)
Alarm(t, wait) ==
    /\ current = t
    /\ mode[t] = "kernel"
    /\ alarm' = [alarm EXCEPT ![t] = wait + 2]
    /\ UNCHANGED <<current, mode, state, counter, priority, signal, timeout>>

(* ... or its priority (which nice never brings down to zero) ... *)
Nice(t, p) ==
    /\ current = t
    /\ mode[t] = "kernel"
    /\ priority' = [priority EXCEPT ![t] = p]
    /\ UNCHANGED <<current, mode, state, counter, signal, timeout, alarm>>

(* ... or go to sleep, in sys_select with a timeout, ... *)
Sleep(t, st, to) ==
    /\ current = t
    /\ mode[t] = "kernel"
    /\ Schedule([state EXCEPT ![t] = st], counter, [timeout EXCEPT ![t] = to], alarm)
    /\ UNCHANGED <<mode, priority>>

(* ... and from which it returns, taking its signals, or by way of         *)
(* schedule() if its slice is used up.                                     *)
SystemCallReturn(t) ==
    /\ current = t
    /\ mode[t] = "kernel"
    /\ mode' = [mode EXCEPT ![t] = "user"]
    /\ \/ /\ counter[t] > 0
          /\ signal' = [signal EXCEPT ![t] = FALSE]
          /\ UNCHANGED <<current, state, counter, timeout, alarm>>
       \/ /\ counter[t] = 0
          /\ Schedule(state, counter, timeout, alarm)
    /\ UNCHANGED priority

(* An interrupt or the current task wakes a sleeper, or signals a task. *)
WakeUp(t) ==
    /\ state[t] # "TASK_RUNNING"
    /\ state' = [state EXCEPT ![t] = "TASK_RUNNING"]
    /\ UNCHANGED <<current, mode, counter, priority, signal, timeout, alarm>>

Kill(t) ==
    /\ ~signal[t]
    /\ signal' = [signal EXCEPT ![t] = TRUE]
    /\ UNCHANGED <<current, mode, state, counter, priority, timeout, alarm>>

Next ==
    \/ IdleTick
    \/ IdlePause
    \/ \E t \in Task :
          \/ Tick(t)
          \/ SystemCall(t)
          \/ \E wait \in Waits : Alarm(t, wait)
          \/ \E p \in 1..MaxPriority : Nice(t, p)
          \/ \E st \in {"TASK_INTERRUPTIBLE", "TASK_UNINTERRUPTIBLE"} : Sleep(t, st, 0)
          \/ \E wait \in Waits : Sleep(t, "TASK_INTERRUPTIBLE", wait + 2)
          \/ SystemCallReturn(t)
          \/ WakeUp(t)
          \/ Kill(t)

(* The processor does not stop, a system call comes to an end (or sleeps), *)
(* and the clock, which does not know what the tasks are doing, does not   *)
(* always miss a task that gets the processor again and again.             *)
Fairness ==
    /\ WF_vars(IdlePause)
    /\ SF_vars(IdleTick)
    /\ \A t \in Task : WF_vars(SystemCallReturn(t)) /\ SF_vars(Tick(t))

Spec == Init /\ [][Next]_vars

FairSpec == Spec /\ Fairness

-----------------------------------------------------------------------------
TypeOK ==
    /\ current \in Task \cup {Idle}
    /\ mode \in [Task -> {"user", "kernel"}]
    /\ state \in [Task -> {"TASK_RUNNING", "TASK_INTERRUPTIBLE", "TASK_UNINTERRUPTIBLE"}]
    /\ counter \in [Task -> Nat]
    /\ priority \in [Task -> 1..MaxPriority]
    /\ signal \in [Task -> BOOLEAN]
    /\ timeout \in [Task -> Nat]
    /\ alarm \in [Task -> Nat]

(* Sleeping through refill after refill does not add up: no task ever has  *)
(* more than twice the largest priority in its slice.                      *)
SliceBounded == \A t \in Task : counter[t] <= 2 * MaxPriority

(* The processor is never given to a task that sleeps, and a task that     *)
(* sleeps is in the kernel.                                                *)
OnlyRunnableRuns ==
    /\ current # Idle => state[current] = "TASK_RUNNING"
    /\ \A t \in Task : state[t] # "TASK_RUNNING" => mode[t] = "kernel"

(* A task in user mode has ticks left: whoever uses up its slice, in a     *)
(* system call or not, is back in user mode only after a refill.           *)
UserHasTicks == current # Idle => mode[current] = "kernel" \/ counter[current] > 0

(* The slices are refilled only when no task that could run has any ticks  *)
(* left (but the one the clock takes from the current task in that very    *)
(* moment), so a task that has some cannot be overtaken twice by another.  *)
RefillOnlyWhenAllUsedUp ==
    [][(\E t \in Task : counter'[t] > counter[t]) =>
          \A t \in Task : state[t] = "TASK_RUNNING" /\ state'[t] = "TASK_RUNNING"
                             => counter[t] = 0 \/ (t = current /\ counter[t] = 1)]_vars

(* A task that can run gets the processor. *)
NoStarvation ==
    \A t \in Task : (state[t] = "TASK_RUNNING") ~> (current = t)

(* A sleep with a timeout ends. *)
TimeoutEndsSleep ==
    \A t \in Task : (state[t] = "TASK_INTERRUPTIBLE" /\ timeout[t] # 0) ~> (state[t] = "TASK_RUNNING")
=============================================================================
