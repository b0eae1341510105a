--------------------------- MODULE SchedulerProofs ---------------------------
(***************************************************************************)
(* Proofs about the scheduler, for any set of tasks and any largest        *)
(* priority.  Everything rests on one lemma about a call of schedule().    *)
(***************************************************************************)
EXTENDS Scheduler, TLAPS

State == {"TASK_RUNNING", "TASK_INTERRUPTIBLE", "TASK_UNINTERRUPTIBLE"}

Inv == TypeOK /\ SliceBounded /\ OnlyRunnableRuns /\ UserHasTicks

(* Refilling keeps slices within twice the largest priority: half of what  *)
(* a sleeper saved is at most one priority, and it gets one more.          *)
LEMMA RefillBound ==
    ASSUME NEW p \in Nat, NEW c \in Nat, c <= 2 * MaxPriority, p \in 1..MaxPriority
    PROVE  /\ (c \div 2) + p \in Nat
           /\ (c \div 2) + p > 0
           /\ (c \div 2) + p <= 2 * MaxPriority
BY SchedulerAssumption, Z3

(* What schedule() does, from wherever it is called: the slices stay       *)
(* bounded, nobody falls asleep in it, and the task it picks can run and   *)
(* has ticks left.                                                         *)
LEMMA ScheduleKeeps ==
    ASSUME TypeOK,
           NEW st \in [Task -> State], NEW c \in [Task -> Nat],
           NEW to \in [Task -> Nat], NEW al \in [Task -> Nat],
           \A t \in Task : c[t] <= 2 * MaxPriority,
           Schedule(st, c, to, al)
    PROVE  /\ state' \in [Task -> State]
           /\ counter' \in [Task -> Nat]
           /\ signal' \in [Task -> BOOLEAN]
           /\ timeout' \in [Task -> Nat]
           /\ alarm' \in [Task -> Nat]
           /\ current' \in Task \cup {Idle}
           /\ \A t \in Task : counter'[t] <= 2 * MaxPriority
           /\ \A t \in Task : state'[t] # "TASK_RUNNING" => st[t] # "TASK_RUNNING"
           /\ current' # Idle => state'[current'] = "TASK_RUNNING" /\ counter'[current'] > 0
<1>1. /\ state' \in [Task -> State]
      /\ \A t \in Task : state'[t] # "TASK_RUNNING" => st[t] # "TASK_RUNNING"
  BY DEF Schedule, Awakened, State
<1>2. signal' \in [Task -> BOOLEAN]
  BY DEF Schedule, Alarmed
<1>3. timeout' \in [Task -> Nat] /\ alarm' \in [Task -> Nat]
  BY DEF Schedule, Cancel
<1>4. \A t \in Task : /\ Refill(c)[t] \in Nat
                      /\ Refill(c)[t] > 0
                      /\ Refill(c)[t] <= 2 * MaxPriority
  <2> TAKE t \in Task
  <2>1. priority[t] \in 1..MaxPriority /\ priority[t] \in Nat
    BY SchedulerAssumption DEF TypeOK
  <2>2. c[t] \in Nat /\ c[t] <= 2 * MaxPriority
    OBVIOUS
  <2>3. Refill(c)[t] = (c[t] \div 2) + priority[t]
    BY DEF Refill
  <2> QED BY <2>1, <2>2, <2>3, RefillBound
<1>5. Refill(c) \in [Task -> Nat]
  BY <1>4 DEF Refill
<1>6. /\ counter' \in [Task -> Nat]
      /\ \A t \in Task : counter'[t] <= 2 * MaxPriority
  BY <1>4, <1>5 DEF Schedule, Slices
<1>7. current' \in Task \cup {Idle}
  BY DEF Schedule, Best, Runnable
<1>8. ASSUME current' # Idle
      PROVE  state'[current'] = "TASK_RUNNING" /\ counter'[current'] > 0
  <2>1. /\ Runnable(state') # {}
        /\ current' \in Runnable(state')
        /\ \A u \in Runnable(state') : counter'[u] <= counter'[current']
    BY <1>8 DEF Schedule, Best
  <2>2. state'[current'] = "TASK_RUNNING" /\ current' \in Task
    BY <2>1 DEF Runnable
  <2>3. CASE \A t \in Runnable(state') : c[t] = 0
    <3>1. counter' = Refill(c)
      BY <2>1, <2>3 DEF Schedule, Slices
    <3> QED BY <3>1, <2>2, <1>4
  <2>4. CASE \E t \in Runnable(state') : c[t] # 0
    <3>1. counter' = c
      BY <2>4 DEF Schedule, Slices
    <3>2. PICK u \in Runnable(state') : c[u] # 0
      BY <2>4
    <3>3. u \in Task /\ c[u] \in Nat /\ c[current'] \in Nat
      BY <3>2, <2>2 DEF Runnable
    <3>4. c[u] <= c[current']
      BY <3>1, <3>2, <2>1
    <3> QED BY <3>1, <3>2, <3>3, <3>4, <2>2
  <2> QED BY <2>2, <2>3, <2>4
<1> QED BY <1>1, <1>2, <1>3, <1>6, <1>7, <1>8

(* The clock only takes ticks away. *)
LEMMA ChargedKeeps ==
    ASSUME TypeOK, SliceBounded, NEW t \in Task
    PROVE  /\ Charged(t) \in [Task -> Nat]
           /\ \A u \in Task : Charged(t)[u] <= 2 * MaxPriority
<1>1. \A u \in Task : counter[u] \in Nat /\ counter[u] <= 2 * MaxPriority /\ 2 * MaxPriority \in Nat
  BY SchedulerAssumption DEF TypeOK, SliceBounded
<1> QED BY <1>1 DEF Charged

LEMMA LaterType ==
    ASSUME NEW cd \in [Task -> Nat]
    PROVE  Later(cd) \in [Task -> Nat]
BY DEF Later

LEMMA InvInit == Init => Inv
<1> SUFFICES ASSUME Init PROVE Inv OBVIOUS
<1>1. TypeOK
  BY SchedulerAssumption DEF Init, TypeOK
<1>2. SliceBounded
  <2>1. \A t \in Task : counter[t] \in 1..MaxPriority
    BY DEF Init
  <2> QED BY <2>1, SchedulerAssumption DEF SliceBounded
<1>3. OnlyRunnableRuns /\ UserHasTicks
  BY DEF Init, OnlyRunnableRuns, UserHasTicks
<1> QED BY <1>1, <1>2, <1>3 DEF Inv

LEMMA InvStep == Inv /\ [Next]_vars => Inv'
<1> SUFFICES ASSUME Inv, [Next]_vars PROVE Inv'
  OBVIOUS
<1> USE DEF Inv
<1>a. /\ state \in [Task -> State] /\ counter \in [Task -> Nat]
      /\ timeout \in [Task -> Nat] /\ alarm \in [Task -> Nat]
      /\ signal \in [Task -> BOOLEAN] /\ mode \in [Task -> {"user", "kernel"}]
      /\ priority \in [Task -> 1..MaxPriority] /\ current \in Task \cup {Idle}
  BY DEF TypeOK, State
<1>b. \A u \in Task : counter[u] <= 2 * MaxPriority
  BY DEF SliceBounded
<1>i. Idle \notin Task
  BY SchedulerAssumption
<1>1. CASE IdleTick
  <2>1. timeout' \in [Task -> Nat] /\ alarm' \in [Task -> Nat]
    BY <1>1, <1>a, LaterType DEF IdleTick
  <2> QED BY <1>1, <2>1 DEF IdleTick, TypeOK, SliceBounded, OnlyRunnableRuns, UserHasTicks
<1>2. CASE IdlePause
  <2>1. Schedule(state, counter, timeout, alarm) /\ UNCHANGED <<mode, priority>>
    BY <1>2 DEF IdlePause
  <2>2. /\ state' \in [Task -> State] /\ counter' \in [Task -> Nat]
        /\ signal' \in [Task -> BOOLEAN] /\ timeout' \in [Task -> Nat] /\ alarm' \in [Task -> Nat]
        /\ current' \in Task \cup {Idle}
        /\ \A t \in Task : counter'[t] <= 2 * MaxPriority
        /\ \A t \in Task : state'[t] # "TASK_RUNNING" => state[t] # "TASK_RUNNING"
        /\ current' # Idle => state'[current'] = "TASK_RUNNING" /\ counter'[current'] > 0
    BY <2>1, <1>a, <1>b, ScheduleKeeps
  <2> QED BY <2>1, <2>2 DEF TypeOK, State, SliceBounded, OnlyRunnableRuns, UserHasTicks
<1>3. ASSUME NEW t \in Task, Tick(t) PROVE Inv'
  <2>0. mode' = mode /\ priority' = priority /\ current = t
    BY <1>3 DEF Tick
  <2>1. CASE /\ mode[t] = "kernel" \/ Charged(t)[t] > 0
             /\ counter' = Charged(t) /\ timeout' = Later(timeout) /\ alarm' = Later(alarm)
             /\ UNCHANGED <<current, state, signal>>
    <3>1. /\ timeout' \in [Task -> Nat] /\ alarm' \in [Task -> Nat]
          /\ counter' \in [Task -> Nat] /\ \A u \in Task : counter'[u] <= 2 * MaxPriority
      BY <2>1, <1>a, LaterType, ChargedKeeps
    <3> QED BY <2>0, <2>1, <3>1 DEF TypeOK, SliceBounded, OnlyRunnableRuns, UserHasTicks
  <2>2. CASE Schedule(state, Charged(t), Later(timeout), Later(alarm))
    <3>1. /\ Charged(t) \in [Task -> Nat] /\ \A u \in Task : Charged(t)[u] <= 2 * MaxPriority
          /\ Later(timeout) \in [Task -> Nat] /\ Later(alarm) \in [Task -> Nat]
      BY <1>a, LaterType, ChargedKeeps
    <3>2. /\ state' \in [Task -> State] /\ counter' \in [Task -> Nat]
          /\ signal' \in [Task -> BOOLEAN] /\ timeout' \in [Task -> Nat] /\ alarm' \in [Task -> Nat]
          /\ current' \in Task \cup {Idle}
          /\ \A u \in Task : counter'[u] <= 2 * MaxPriority
          /\ \A u \in Task : state'[u] # "TASK_RUNNING" => state[u] # "TASK_RUNNING"
          /\ current' # Idle => state'[current'] = "TASK_RUNNING" /\ counter'[current'] > 0
      BY <2>2, <3>1, <1>a, ScheduleKeeps
    <3> QED BY <2>0, <3>2 DEF TypeOK, State, SliceBounded, OnlyRunnableRuns, UserHasTicks
  <2> QED BY <1>3, <2>1, <2>2 DEF Tick
<1>4. ASSUME NEW t \in Task, SystemCall(t) PROVE Inv'
  BY <1>4, <1>i DEF SystemCall, TypeOK, SliceBounded, OnlyRunnableRuns, UserHasTicks
<1>5. ASSUME NEW t \in Task, NEW wait \in Waits, Alarm(t, wait) PROVE Inv'
  <2>1. alarm' \in [Task -> Nat]
    BY <1>5, <1>a, SchedulerAssumption DEF Alarm
  <2> QED BY <1>5, <2>1 DEF Alarm, TypeOK, SliceBounded, OnlyRunnableRuns, UserHasTicks
<1>6. ASSUME NEW t \in Task, NEW p \in 1..MaxPriority, Nice(t, p) PROVE Inv'
  BY <1>6 DEF Nice, TypeOK, SliceBounded, OnlyRunnableRuns, UserHasTicks
<1>7. ASSUME NEW t \in Task, NEW st \in State, NEW to \in Nat, Sleep(t, st, to) PROVE Inv'
  <2> DEFINE asleep == [state EXCEPT ![t] = st]
             limit == [timeout EXCEPT ![t] = to]
  <2>0. mode' = mode /\ priority' = priority /\ mode[t] = "kernel"
    BY <1>7 DEF Sleep
  <2>1. asleep \in [Task -> State] /\ limit \in [Task -> Nat]
    BY <1>a, <1>7
  <2>2. Schedule(asleep, counter, limit, alarm)
    BY <1>7 DEF Sleep
  <2>3. /\ state' \in [Task -> State] /\ counter' \in [Task -> Nat]
        /\ signal' \in [Task -> BOOLEAN] /\ timeout' \in [Task -> Nat] /\ alarm' \in [Task -> Nat]
        /\ current' \in Task \cup {Idle}
        /\ \A u \in Task : counter'[u] <= 2 * MaxPriority
        /\ \A u \in Task : state'[u] # "TASK_RUNNING" => asleep[u] # "TASK_RUNNING"
        /\ current' # Idle => state'[current'] = "TASK_RUNNING" /\ counter'[current'] > 0
    BY <2>1, <2>2, <1>a, <1>b, ScheduleKeeps
  <2>4. \A u \in Task : state'[u] # "TASK_RUNNING" => mode[u] = "kernel"
    <3> TAKE u \in Task
    <3>1. CASE u = t BY <3>1, <2>0
    <3>2. CASE u # t
      <4>1. asleep[u] = state[u] BY <3>2, <1>a
      <4> QED BY <4>1, <2>3 DEF OnlyRunnableRuns
    <3> QED BY <3>1, <3>2
  <2> HIDE DEF asleep, limit
  <2> QED BY <2>0, <2>3, <2>4 DEF TypeOK, State, SliceBounded, OnlyRunnableRuns, UserHasTicks
<1>8. ASSUME NEW t \in Task, SystemCallReturn(t) PROVE Inv'
  <2>0. /\ mode' = [mode EXCEPT ![t] = "user"] /\ priority' = priority /\ current = t
        /\ mode' \in [Task -> {"user", "kernel"}]
    BY <1>8, <1>a DEF SystemCallReturn
  <2>c. state[t] = "TASK_RUNNING"
    BY <2>0, <1>i DEF OnlyRunnableRuns
  <2>1. CASE /\ counter[t] > 0
             /\ signal' = [signal EXCEPT ![t] = FALSE]
             /\ UNCHANGED <<current, state, counter, timeout, alarm>>
    BY <2>0, <2>1, <2>c DEF TypeOK, SliceBounded, OnlyRunnableRuns, UserHasTicks
  <2>2. CASE Schedule(state, counter, timeout, alarm)
    <3>1. /\ state' \in [Task -> State] /\ counter' \in [Task -> Nat]
          /\ signal' \in [Task -> BOOLEAN] /\ timeout' \in [Task -> Nat] /\ alarm' \in [Task -> Nat]
          /\ current' \in Task \cup {Idle}
          /\ \A u \in Task : counter'[u] <= 2 * MaxPriority
          /\ \A u \in Task : state'[u] # "TASK_RUNNING" => state[u] # "TASK_RUNNING"
          /\ current' # Idle => state'[current'] = "TASK_RUNNING" /\ counter'[current'] > 0
      BY <2>2, <1>a, <1>b, ScheduleKeeps
    <3>2. \A u \in Task : state'[u] # "TASK_RUNNING" => mode'[u] = "kernel"
      BY <3>1, <2>0, <2>c, <1>a DEF OnlyRunnableRuns
    <3> QED BY <2>0, <3>1, <3>2 DEF TypeOK, State, SliceBounded, OnlyRunnableRuns, UserHasTicks
  <2> QED BY <1>8, <2>1, <2>2 DEF SystemCallReturn
<1>9. ASSUME NEW t \in Task, WakeUp(t) PROVE Inv'
  BY <1>9 DEF WakeUp, TypeOK, SliceBounded, OnlyRunnableRuns, UserHasTicks
<1>10. ASSUME NEW t \in Task, Kill(t) PROVE Inv'
  BY <1>10 DEF Kill, TypeOK, SliceBounded, OnlyRunnableRuns, UserHasTicks
<1>11. CASE UNCHANGED vars
  BY <1>11 DEF vars, TypeOK, SliceBounded, OnlyRunnableRuns, UserHasTicks
<1>12. \A wait \in Waits : wait + 2 \in Nat
  BY SchedulerAssumption
<1> QED
  BY <1>1, <1>2, <1>3, <1>4, <1>5, <1>6, <1>7, <1>8, <1>9, <1>10, <1>11, <1>12 DEF Next, State

(* The scheduler's invariant holds in every behaviour. *)
THEOREM SchedulerInv == Spec => []Inv
BY InvInit, InvStep, PTL DEF Spec

(* No task's slice exceeds twice the largest priority, however often it    *)
(* sleeps through a refill (schedule's counter = counter/2 + priority).    *)
THEOREM SlicesStayBounded == Spec => []SliceBounded
BY SchedulerInv, PTL DEF Inv

(* schedule() never switches to a sleeping task, and sleepers are in the   *)
(* kernel.                                                                 *)
THEOREM RunningMeansRunnable == Spec => []OnlyRunnableRuns
BY SchedulerInv, PTL DEF Inv

(* A task in user mode has ticks left: schedule() picks a task with a      *)
(* positive counter, and neither the clock nor the end of a system call    *)
(* lets an empty slice through to user mode.                               *)
THEOREM UserModeHasTicks == Spec => []UserHasTicks
BY SchedulerInv, PTL DEF Inv
=============================================================================
