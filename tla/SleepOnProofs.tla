---------------------------- MODULE SleepOnProofs ----------------------------
(***************************************************************************)
(* Proofs about the wait queues of module SleepOn, for any set of tasks.   *)
(*                                                                         *)
(* The invariant that carries everything is Inv: the chain of tmp pointers *)
(* is the stack of sleepers, and a free lock has a runnable head.  The     *)
(* chain is needed to know that the task *p = tmp hands over to is really  *)
(* asleep on this queue, and that a task that returns finds *p set.        *)
(***************************************************************************)
EXTENDS SleepOn, SequenceTheorems, TLAPS

Inv == TypeOK /\ Chain /\ LockOwner /\ AwakeIsRunning /\ NoLostWakeup

(* Running() only ever assigns TASK_RUNNING, and nothing when q is NULL. *)
LEMMA RunningType ==
    ASSUME NEW s \in [Task -> {"TASK_RUNNING", "TASK_INTERRUPTIBLE", "TASK_UNINTERRUPTIBLE"}],
           NEW q
    PROVE  /\ Running(s, q) \in [Task -> {"TASK_RUNNING", "TASK_INTERRUPTIBLE", "TASK_UNINTERRUPTIBLE"}]
           /\ \A u \in Task : Running(s, q)[u] = IF u = q THEN "TASK_RUNNING" ELSE s[u]
  BY DEF Running

(* Every step keeps the variables in their types. *)
LEMMA TypeStep == TypeOK /\ [Next]_vars => TypeOK'
<1> SUFFICES ASSUME TypeOK, [Next]_vars PROVE TypeOK'
  OBVIOUS
<1> USE DEF TypeOK
<1>1. ASSUME NEW t \in Task, Take(t) PROVE TypeOK'
  BY <1>1 DEF Take
<1>2. ASSUME NEW t \in Task, NEW k \in Loop, Sleep(t, k) PROVE TypeOK'
  BY <1>2 DEF Sleep, SleepState, Loop
<1>3. ASSUME NEW t \in Task, WakeHead(t) PROVE TypeOK'
  BY <1>3, RunningType DEF WakeHead
<1>4. ASSUME NEW t \in Task, Leave(t) PROVE TypeOK'
  <2>1. queue' \in Seq(Task)
    BY <1>4 DEF Leave
  <2>2. state' \in [Task -> {"TASK_RUNNING", "TASK_INTERRUPTIBLE", "TASK_UNINTERRUPTIBLE"}]
    BY <1>4, RunningType DEF Leave
  <2>3. b_lock' \in BOOLEAN
    BY <1>4 DEF Leave
  <2>. QED BY <1>4, <2>1, <2>2, <2>3 DEF Leave
<1>5. ASSUME NEW t \in Task, Resleep(t) PROVE TypeOK'
  BY <1>5, RunningType DEF Resleep, Returns, SleepState
<1>6. ASSUME NEW t \in Task, Unlock(t) PROVE TypeOK'
  BY <1>6, RunningType DEF Unlock
<1>7. ASSUME NEW t \in Task, Signal(t) PROVE TypeOK'
  BY <1>7 DEF Signal
<1>8. ASSUME NEW t \in Task, ScheduleSignal(t) PROVE TypeOK'
  BY <1>8 DEF ScheduleSignal
<1>9. CASE UNCHANGED vars
  BY <1>9 DEF vars
<1>. QED BY <1>1, <1>2, <1>3, <1>4, <1>5, <1>6, <1>7, <1>8, <1>9 DEF Next

(* A task that returns from schedule() inside __sleep_on is the youngest   *)
(* sleeper, and its tmp is the one below it.                               *)
LEMMA ReturnsIsHead ==
    ASSUME Inv, NEW t \in Task, Returns(t)
    PROVE  /\ Len(queue) \in Nat \ {0}
           /\ queue[Len(queue)] = t
           /\ head = t
           /\ tmp[t] = IF Len(queue) = 1 THEN NoTask ELSE queue[Len(queue) - 1]
<1>1. PICK i \in 1..Len(queue) : queue[i] = t
  BY DEF Inv, Chain, Returns, Asleep
<1>2. Len(queue) \in Nat \ {0} /\ queue # <<>>
  BY <1>1 DEF Inv, TypeOK
<1>3. head = queue[Len(queue)] /\ head \in Task
  BY <1>2 DEF Inv, Chain, TypeOK
<1>4. head = t
  BY <1>3, NoTaskAssumption DEF Returns
<1>5. tmp[queue[Len(queue)]] = IF Len(queue) = 1 THEN NoTask ELSE queue[Len(queue) - 1]
  <2>1. \A j \in 1..Len(queue) : tmp[queue[j]] = IF j = 1 THEN NoTask ELSE queue[j - 1]
    BY DEF Inv, Chain
  <2>2. Len(queue) \in 1..Len(queue)
    BY <1>2
  <2>. QED BY <2>1, <2>2
<1>. QED BY <1>2, <1>3, <1>4, <1>5

(* The chain survives every step. *)
LEMMA ChainStep == Inv /\ [Next]_vars => Chain'
<1> SUFFICES ASSUME Inv, [Next]_vars PROVE Chain'
  OBVIOUS
<1>0. TypeOK /\ Chain /\ Len(queue) \in Nat /\ TypeOK'
  BY TypeStep DEF Inv, TypeOK
<1>1. ASSUME NEW t \in Task, Take(t) PROVE Chain'
  BY <1>1, <1>0 DEF Take, Chain, Asleep, TypeOK
<1>2. ASSUME NEW t \in Task, NEW k \in Loop, Sleep(t, k) PROVE Chain'
  <2>1. /\ Len(queue') = Len(queue) + 1
        /\ \A i \in 1..Len(queue) : queue'[i] = queue[i]
        /\ queue'[Len(queue) + 1] = t
        /\ queue' # <<>>
    BY <1>2, <1>0 DEF Sleep, TypeOK
  <2>2. \A i \in 1..Len(queue) : queue[i] # t /\ queue[i] \in Task
    BY <1>2, <1>0 DEF Sleep, Chain, TypeOK
  <2>3. head' = queue'[Len(queue')]
    BY <1>2, <2>1 DEF Sleep
  <2>4. \A i \in 1..Len(queue') :
          /\ pc'[queue'[i]] = "asleep"
          /\ tmp'[queue'[i]] = IF i = 1 THEN NoTask ELSE queue'[i - 1]
    <3> SUFFICES ASSUME NEW i \in 1..Len(queue')
                 PROVE  /\ pc'[queue'[i]] = "asleep"
                        /\ tmp'[queue'[i]] = IF i = 1 THEN NoTask ELSE queue'[i - 1]
      OBVIOUS
    <3>1. CASE i = Len(queue) + 1
      <4>1. tmp'[t] = head /\ pc'[t] = "asleep"
        BY <1>2, <1>0 DEF Sleep, TypeOK
      <4>2. CASE queue = <<>>
        BY <3>1, <4>1, <4>2, <2>1, <1>0 DEF Chain
      <4>3. CASE queue # <<>>
        <5>1. Len(queue) > 0
          BY <4>3, <1>0 DEF TypeOK
        <5>. QED BY <3>1, <4>1, <4>3, <5>1, <2>1, <1>0 DEF Chain
      <4>. QED BY <4>2, <4>3
    <3>2. CASE i \in 1..Len(queue)
      <4>1. queue'[i] = queue[i] /\ queue[i] # t /\ queue[i] \in Task
        BY <3>2, <2>1, <2>2
      <4>2. i # 1 => queue'[i - 1] = queue[i - 1]
        BY <3>2, <2>1, <1>0
      <4>3. pc'[queue[i]] = pc[queue[i]] /\ tmp'[queue[i]] = tmp[queue[i]]
        BY <4>1, <1>2, <1>0 DEF Sleep, TypeOK
      <4>. QED BY <3>2, <4>1, <4>2, <4>3, <1>0 DEF Chain
    <3>. QED BY <3>1, <3>2, <2>1, <1>0
  <2>5. \A i, j \in 1..Len(queue') : queue'[i] = queue'[j] => i = j
    BY <2>1, <2>2, <1>0 DEF Chain
  <2>6. \A u \in Asleep' : \E i \in 1..Len(queue') : queue'[i] = u
    <3> SUFFICES ASSUME NEW u \in Asleep' PROVE \E i \in 1..Len(queue') : queue'[i] = u
      OBVIOUS
    <3>1. CASE u = t
      BY <3>1, <2>1, <1>0
    <3>2. CASE u # t
      <4>1. u \in Asleep
        BY <3>2, <1>2, <1>0 DEF Sleep, Asleep, TypeOK
      <4>2. PICK i \in 1..Len(queue) : queue[i] = u
        BY <4>1, <1>0 DEF Chain
      <4>. QED BY <4>2, <2>1, <1>0
    <3>. QED BY <3>1, <3>2
  <2>. QED BY <2>1, <2>3, <2>4, <2>5, <2>6 DEF Chain
<1>3. ASSUME NEW t \in Task, WakeHead(t) PROVE Chain'
  BY <1>3, <1>0 DEF WakeHead, Chain, Asleep
<1>4. ASSUME NEW t \in Task, Leave(t) PROVE Chain'
  <2> DEFINE n == Len(queue)
  <2>1. /\ n \in Nat \ {0} /\ queue[n] = t
        /\ tmp[t] = IF n = 1 THEN NoTask ELSE queue[n - 1]
    BY <1>4, ReturnsIsHead DEF Leave
  <2>2. /\ Len(queue') = n - 1
        /\ \A i \in 1..(n - 1) : queue'[i] = queue[i]
    <3>1. queue' = SubSeq(queue, 1, n - 1) /\ queue \in Seq(Task)
      BY <1>4, <1>0 DEF Leave, TypeOK
    <3>2. \A i \in 1..(n - 1) : queue[i] \in Task
      BY <3>1, <2>1
    <3>3. /\ Len(SubSeq(queue, 1, n - 1)) = IF 1 <= n - 1 THEN (n - 1) - 1 + 1 ELSE 0
          /\ \A i \in 1..((n - 1) - 1 + 1) : SubSeq(queue, 1, n - 1)[i] = queue[1 + i - 1]
      <4>1. 1 \in Int /\ n - 1 \in Int
        BY <2>1
      <4> HIDE DEF n
      <4>. QED BY <3>2, <4>1, SubSeqProperties
    <3>4. \A i \in 1..(n - 1) : 1 + i - 1 = i /\ i \in 1..((n - 1) - 1 + 1)
      BY <2>1
    <3>5. (IF 1 <= n - 1 THEN (n - 1) - 1 + 1 ELSE 0) = n - 1
      BY <2>1
    <3>. QED BY <3>1, <3>3, <3>4, <3>5
  <2>3. \A i \in 1..(n - 1) : queue[i] # t /\ queue[i] \in Task
    BY <2>1, <1>0 DEF Chain, TypeOK
  <2>4. head' = IF queue' = <<>> THEN NoTask ELSE queue'[Len(queue')]
    <3>1. CASE n = 1
      <4>1. queue' = <<>>
        BY <3>1, <2>2, <1>0 DEF TypeOK
      <4>. QED BY <3>1, <4>1, <2>1, <1>4 DEF Leave
    <3>2. CASE n # 1
      <4>1. queue' # <<>>
        BY <3>2, <2>1, <2>2
      <4>. QED BY <3>2, <4>1, <2>1, <2>2, <1>4 DEF Leave
    <3>. QED BY <3>1, <3>2
  <2>5. \A i \in 1..Len(queue') :
          /\ pc'[queue'[i]] = "asleep"
          /\ tmp'[queue'[i]] = IF i = 1 THEN NoTask ELSE queue'[i - 1]
    <3> SUFFICES ASSUME NEW i \in 1..(n - 1)
                 PROVE  /\ pc'[queue'[i]] = "asleep"
                        /\ tmp'[queue'[i]] = IF i = 1 THEN NoTask ELSE queue'[i - 1]
      BY <2>2
    <3>1. queue'[i] = queue[i] /\ queue[i] # t /\ queue[i] \in Task
      BY <2>2, <2>3
    <3>2. i # 1 => queue'[i - 1] = queue[i - 1]
      BY <2>1, <2>2
    <3>3. pc'[queue[i]] = pc[queue[i]] /\ tmp' = tmp
      BY <3>1, <1>4, <1>0 DEF Leave, TypeOK
    <3>. QED BY <3>1, <3>2, <3>3, <2>1, <1>0 DEF Chain
  <2>6. \A i, j \in 1..Len(queue') : queue'[i] = queue'[j] => i = j
    BY <2>1, <2>2, <1>0 DEF Chain
  <2>7. \A u \in Asleep' : \E i \in 1..Len(queue') : queue'[i] = u
    <3> SUFFICES ASSUME NEW u \in Asleep' PROVE \E i \in 1..Len(queue') : queue'[i] = u
      OBVIOUS
    <3>1. u # t /\ u \in Asleep
      BY <1>4, <1>0 DEF Leave, Asleep, TypeOK
    <3>2. PICK i \in 1..Len(queue) : queue[i] = u
      BY <3>1, <1>0 DEF Chain
    <3>3. i \in 1..(n - 1)
      BY <3>1, <3>2, <2>1
    <3>. QED BY <3>2, <3>3, <2>2
  <2>. QED BY <2>4, <2>5, <2>6, <2>7 DEF Chain
<1>5. ASSUME NEW t \in Task, Resleep(t) PROVE Chain'
  <2>1. head' = head
    BY <1>5, ReturnsIsHead DEF Resleep
  <2>. QED BY <2>1, <1>5, <1>0 DEF Resleep, Chain, Asleep
<1>6. ASSUME NEW t \in Task, Unlock(t) PROVE Chain'
  BY <1>6, <1>0 DEF Unlock, Chain, Asleep, TypeOK
<1>7. ASSUME NEW t \in Task, Signal(t) PROVE Chain'
  BY <1>7, <1>0 DEF Signal, Chain, Asleep
<1>8. ASSUME NEW t \in Task, ScheduleSignal(t) PROVE Chain'
  BY <1>8, <1>0 DEF ScheduleSignal, Chain, Asleep
<1>9. CASE UNCHANGED vars
  BY <1>9, <1>0 DEF vars, Chain, Asleep
<1>. QED BY <1>1, <1>2, <1>3, <1>4, <1>5, <1>6, <1>7, <1>8, <1>9 DEF Next

(* Mutual exclusion survives every step. *)
LEMMA LockOwnerStep == Inv /\ [Next]_vars => LockOwner'
<1> SUFFICES ASSUME Inv, [Next]_vars PROVE LockOwner'
  OBVIOUS
<1>0. TypeOK /\ LockOwner
  BY DEF Inv
<1> USE <1>0 DEF LockOwner, TypeOK
<1>1. ASSUME NEW t \in Task, Take(t) PROVE LockOwner'
  BY <1>1 DEF Take
<1>2. ASSUME NEW t \in Task, NEW k \in Loop, Sleep(t, k) PROVE LockOwner'
  BY <1>2 DEF Sleep
<1>3. ASSUME NEW t \in Task, WakeHead(t) PROVE LockOwner'
  BY <1>3 DEF WakeHead
<1>4. ASSUME NEW t \in Task, Leave(t) PROVE LockOwner'
  <2>1. CASE how[t] = "lock_buffer"
    BY <1>4, <2>1 DEF Leave, Returns
  <2>2. CASE how[t] # "lock_buffer"
    BY <1>4, <2>2 DEF Leave, Returns
  <2>. QED BY <2>1, <2>2
<1>5. ASSUME NEW t \in Task, Resleep(t) PROVE LockOwner'
  BY <1>5 DEF Resleep
<1>6. ASSUME NEW t \in Task, Unlock(t) PROVE LockOwner'
  BY <1>6 DEF Unlock
<1>7. ASSUME NEW t \in Task, Signal(t) PROVE LockOwner'
  BY <1>7 DEF Signal
<1>8. ASSUME NEW t \in Task, ScheduleSignal(t) PROVE LockOwner'
  BY <1>8 DEF ScheduleSignal
<1>9. CASE UNCHANGED vars
  BY <1>9 DEF vars
<1>. QED BY <1>1, <1>2, <1>3, <1>4, <1>5, <1>6, <1>7, <1>8, <1>9 DEF Next

(* A task off the queue stays runnable, and a free lock keeps a runnable   *)
(* head, whatever step is taken.                                           *)
LEMMA WakeupStep == Inv /\ [Next]_vars => AwakeIsRunning' /\ NoLostWakeup'
<1> SUFFICES ASSUME Inv, [Next]_vars PROVE AwakeIsRunning' /\ NoLostWakeup'
  OBVIOUS
<1>0. TypeOK /\ Chain /\ AwakeIsRunning /\ NoLostWakeup /\ TypeOK' /\ Chain'
  BY TypeStep, ChainStep DEF Inv
<1>a. (Asleep' # {} => head' \in Task) /\ (Asleep # {} => head \in Task)
  <2>1. Asleep # {} => queue # <<>> /\ Len(queue) \in Nat \ {0}
    BY <1>0 DEF Chain, TypeOK
  <2>2. Asleep' # {} => queue' # <<>> /\ Len(queue') \in Nat \ {0}
    BY <1>0 DEF Chain, TypeOK
  <2>3. Asleep # {} => head \in Task
    BY <1>0, <2>1 DEF Chain, TypeOK
  <2>4. Asleep' # {} => head' \in Task
    BY <1>0, <2>2 DEF Chain, TypeOK
  <2>. QED BY <2>3, <2>4
<1> USE <1>0, <1>a, NoTaskAssumption DEF AwakeIsRunning, NoLostWakeup, TypeOK
<1>1. ASSUME NEW t \in Task, Take(t) PROVE AwakeIsRunning' /\ NoLostWakeup'
  BY <1>1 DEF Take
<1>2. ASSUME NEW t \in Task, NEW k \in Loop, Sleep(t, k)
      PROVE  AwakeIsRunning' /\ NoLostWakeup'
  BY <1>2 DEF Sleep
<1>3. ASSUME NEW t \in Task, WakeHead(t) PROVE AwakeIsRunning' /\ NoLostWakeup'
  BY <1>3, RunningType DEF WakeHead
<1>4. ASSUME NEW t \in Task, Leave(t) PROVE AwakeIsRunning' /\ NoLostWakeup'
  BY <1>4, RunningType DEF Leave, Returns
<1>5. ASSUME NEW t \in Task, Resleep(t) PROVE AwakeIsRunning' /\ NoLostWakeup'
  BY <1>5, RunningType DEF Resleep, Returns
<1>6. ASSUME NEW t \in Task, Unlock(t) PROVE AwakeIsRunning' /\ NoLostWakeup'
  BY <1>6, RunningType DEF Unlock
<1>7. ASSUME NEW t \in Task, Signal(t) PROVE AwakeIsRunning' /\ NoLostWakeup'
  BY <1>7 DEF Signal, Asleep
<1>8. ASSUME NEW t \in Task, ScheduleSignal(t) PROVE AwakeIsRunning' /\ NoLostWakeup'
  BY <1>8 DEF ScheduleSignal, Asleep
<1>9. CASE UNCHANGED vars
  BY <1>9 DEF vars, Asleep
<1>. QED BY <1>1, <1>2, <1>3, <1>4, <1>5, <1>6, <1>7, <1>8, <1>9 DEF Next

(* The initial state has nobody on the queue and the lock free. *)
LEMMA InvInit == Init => Inv
<1> SUFFICES ASSUME Init PROVE Inv
  OBVIOUS
<1>1. TypeOK
  <2>1. queue \in Seq(Task)
    <3>1. <<>> \in Seq(Task)
      OBVIOUS
    <3>. QED BY <3>1 DEF Init
  <2>a. sig \in [Task -> BOOLEAN] /\ b_lock \in BOOLEAN
    BY Zenon DEF Init
  <2>2. how \in [Task -> Loop] /\ tmp \in [Task -> Task \cup {NoTask}] /\ head \in Task \cup {NoTask}
    BY DEF Init, Loop
  <2>3. state \in [Task -> {"TASK_RUNNING", "TASK_INTERRUPTIBLE", "TASK_UNINTERRUPTIBLE"}]
    BY DEF Init
  <2>4. pc \in [Task -> {"out", "asleep", "holds"}]
    BY DEF Init
  <2>. QED BY <2>1, <2>2, <2>3, <2>4, <2>a DEF TypeOK
<1>2. queue = <<>> /\ Len(queue) = 0 /\ Asleep = {}
  BY DEF Init, Asleep
<1>3. Chain
  BY <1>2 DEF Init, Chain
<1>4. LockOwner /\ AwakeIsRunning /\ NoLostWakeup
  BY <1>2 DEF Init, LockOwner, AwakeIsRunning, NoLostWakeup
<1>. QED BY <1>1, <1>3, <1>4 DEF Inv

(* The inductive invariant of the wait queues. *)
THEOREM SleepOnInv == Spec => []Inv
<1>1. Inv /\ [Next]_vars => Inv'
  BY TypeStep, ChainStep, LockOwnerStep, WakeupStep DEF Inv
<1>. QED BY InvInit, <1>1, PTL DEF Spec

(* The chain through the kernel stacks is the stack of sleepers, in every  *)
(* reachable state and for any number of tasks (__sleep_on, sched.c).      *)
THEOREM ChainHolds == Spec => []Chain
<1>1. Inv => Chain
  BY DEF Inv
<1>. QED BY SleepOnInv, <1>1, PTL

(* No wake-up is lost: a free lock that somebody waits for has a runnable  *)
(* task at the head of its queue (wake_up and the hand-over in __sleep_on). *)
THEOREM WakeupsReachTheHead == Spec => []NoLostWakeup
<1>1. Inv => NoLostWakeup
  BY DEF Inv
<1>. QED BY SleepOnInv, <1>1, PTL

(* lock_buffer admits one holder at a time. *)
THEOREM LocksAreExclusive == Spec => []LockOwner
<1>1. Inv => LockOwner
  BY DEF Inv
<1>. QED BY SleepOnInv, <1>1, PTL

(* __sleep_on never prints its warning about an empty queue. *)
THEOREM WarningNeverPrinted == Spec => []NoNullWarning
<1>1. Inv => NoNullWarning
  <2> SUFFICES ASSUME Inv, NEW t \in Task, pc[t] = "asleep" PROVE head # NoTask
    BY DEF NoNullWarning
  <2>1. PICK i \in 1..Len(queue) : queue[i] = t
    BY DEF Inv, Chain, Asleep
  <2>2. queue # <<>> /\ Len(queue) \in 1..Len(queue)
    BY <2>1 DEF Inv, TypeOK
  <2>3. queue[Len(queue)] \in Task /\ head = queue[Len(queue)]
    BY <2>2 DEF Inv, Chain, TypeOK
  <2>. QED BY <2>3, NoTaskAssumption
<1>. QED BY SleepOnInv, <1>1, PTL

(* Sleepers leave youngest first, never from the middle of the chain. *)
THEOREM YoungestLeavesFirst == Spec => LastInFirstOut
<1>1. Inv /\ [Next]_vars =>
        [\A t \in Task : pc[t] = "asleep" /\ pc'[t] # "asleep" => head = t]_vars
  <2> SUFFICES ASSUME Inv, Next, NEW t \in Task, pc[t] = "asleep", pc'[t] # "asleep"
               PROVE  head = t
    OBVIOUS
  <2>1. ASSUME NEW u \in Task, Leave(u) PROVE head = t
    BY <2>1, ReturnsIsHead DEF Leave, Inv, TypeOK
  <2>2. ASSUME NEW u \in Task, Take(u) \/ Unlock(u) PROVE head = t
    BY <2>2 DEF Take, Unlock, Inv, TypeOK
  <2>3. ASSUME NEW u \in Task, NEW k \in Loop, Sleep(u, k) PROVE head = t
    BY <2>3 DEF Sleep, Inv, TypeOK
  <2>4. ASSUME NEW u \in Task,
               WakeHead(u) \/ Resleep(u) \/ Signal(u) \/ ScheduleSignal(u)
        PROVE  head = t
    BY <2>4 DEF WakeHead, Resleep, Signal, ScheduleSignal
  <2>. QED BY <2>1, <2>2, <2>3, <2>4 DEF Next
<1>. QED BY SleepOnInv, <1>1, PTL DEF Spec, LastInFirstOut

(* The lock loops implement the abstract lock of WakeLock: every step of   *)
(* the queue, whatever it does to the chain, is a step of the lock or does *)
(* not show there.  (The fairness part of WakeLock is left to TLC.)        *)
THEOREM LockRefinement == Spec => Abstract!ASafety
<1> DEFINE Own == {t \in Task : pc[t] = "holds"}
<1>1. Init => Abstract!AInit
  BY DEF Init, Abstract!AInit, Asleep
<1>2. Inv /\ [Next]_vars => [Abstract!ANext]_(Abstract!avars)
  <2> SUFFICES ASSUME Inv, [Next]_vars
               PROVE  Abstract!ANext \/ UNCHANGED <<Own, Asleep>>
    BY DEF Abstract!avars
  <2>0. TypeOK /\ LockOwner
    BY DEF Inv
  <2>a. b_lock <=> Own # {}
    BY <2>0 DEF LockOwner
  <2>1. ASSUME NEW t \in Task, Take(t) PROVE Abstract!ANext
    <3>1. Own = {} /\ Own' = {t} /\ Asleep' = Asleep /\ t \notin Own \cup Asleep
      BY <2>0, <2>a, <2>1 DEF Take, Asleep, TypeOK
    <3>. QED BY <3>1 DEF Abstract!ANext, Abstract!ATake
  <2>2. ASSUME NEW t \in Task, NEW k \in Loop, Sleep(t, k) PROVE Abstract!ANext
    <3>1. Own # {} /\ Own' = Own /\ Asleep' = Asleep \cup {t} /\ t \notin Own \cup Asleep
      BY <2>0, <2>a, <2>2 DEF Sleep, Asleep, TypeOK
    <3>. QED BY <3>1 DEF Abstract!ANext, Abstract!AWait
  <2>3. ASSUME NEW t \in Task, Leave(t) PROVE Abstract!ANext
    <3>1. t \in Asleep /\ Asleep' = Asleep \ {t}
      BY <2>0, <2>3 DEF Leave, Returns, Asleep, TypeOK
    <3>2. CASE how[t] = "lock_buffer"
      <4>1. Own = {} /\ Own' = {t}
        BY <2>0, <2>a, <2>3, <3>2 DEF Leave, Returns, TypeOK
      <4>. QED BY <3>1, <4>1 DEF Abstract!ANext, Abstract!APass
    <3>3. CASE how[t] # "lock_buffer"
      <4>1. Own' = Own
        BY <2>0, <2>3, <3>3 DEF Leave, Returns, TypeOK
      <4>. QED BY <3>1, <4>1 DEF Abstract!ANext, Abstract!AGiveUp
    <3>. QED BY <3>2, <3>3
  <2>4. ASSUME NEW t \in Task, Unlock(t) PROVE Abstract!ANext
    <3>1. t \in Own /\ Own' = Own \ {t} /\ Asleep' = Asleep
      BY <2>0, <2>4 DEF Unlock, Asleep, TypeOK
    <3>. QED BY <3>1 DEF Abstract!ANext, Abstract!ARelease
  <2>5. ASSUME NEW t \in Task,
               WakeHead(t) \/ Resleep(t) \/ Signal(t) \/ ScheduleSignal(t)
        PROVE  UNCHANGED <<Own, Asleep>>
    BY <2>5 DEF WakeHead, Resleep, Signal, ScheduleSignal, Asleep
  <2>6. CASE UNCHANGED vars
    BY <2>6 DEF vars, Asleep
  <2>. QED BY <2>1, <2>2, <2>3, <2>4, <2>5, <2>6 DEF Next
<1>. QED BY SleepOnInv, <1>1, <1>2, PTL DEF Spec, Abstract!ASafety
=============================================================================
