---------------------------- MODULE ProcessTree -----------------------------
(***************************************************************************)
(* Processes (kernel/fork.c, kernel/exit.c, do_signal in kernel/signal.c,  *)
(* sys_setpgid and sys_setsid in kernel/sys.c): the table task[], the tree *)
(* of parents and children with its lists of siblings, exit and waitpid,   *)
(* signals, process groups and sessions.                                   *)
(*                                                                         *)
(* A task in the kernel is not preempted, so a system call is one action   *)
(* up to where it sleeps: waitpid does, and fork does if get_free_page has *)
(* to swap (SwapSpec).  Signals have their default actions; a task in user *)
(* mode has taken all its signals (ret_from_sys_call) before it goes on.   *)
(*                                                                         *)
(* A task_struct is known by the number of its page.  Pages 0 and 1 are    *)
(* those of task 0 and of init.  Nobody sends signals to init, and init    *)
(* never exits: it forks and waits (init/main.c).                          *)
(***************************************************************************)
EXTENDS Integers, FiniteSets, Sequences

CONSTANTS NR_TASKS,
          NPages,    \* the pages there are for task_structs
          MaxPid,    \* stands for the largest pid
          NULL,
          MaxJobs,   \* bound on the calls of kill, setpgid and setsid
          JobTasks   \* bound on the tasks there are once such calls are made

ASSUME ProcessAssumption ==
    /\ NR_TASKS \in Nat /\ NR_TASKS > 2
    /\ NPages \in Nat /\ NPages >= NR_TASKS
    /\ MaxPid \in Nat /\ MaxPid >= 4 * NR_TASKS
    /\ MaxJobs \in Nat
    /\ JobTasks \in Nat
    /\ NULL \notin Int

Proc == 0..(NPages - 1)
Slot == 0..(NR_TASKS - 1)
InitTask == 1

VARIABLES task,     \* task[nr]: a page or NULL
          proc,     \* proc[p]: the task_struct in page p
          last_pid, \* 0 unless a fork sleeps
          pc,       \* pc[p]: "user", "wait", or how far fork has got
          arg,      \* arg[p]: waitpid's pid and option
          new,      \* new[p]: the slot and page of a fork that sleeps
          panic,    \* a panic, or a store through a NULL pointer
          jobs      \* calls of kill, setpgid and setsid so far

vars == <<task, proc, last_pid, pc, arg, new, panic, jobs>>

Signals == {"SIGHUP", "SIGKILL", "SIGCHLD", "SIGCONT", "SIGSTOP"}
States == {"free", "TASK_RUNNING", "TASK_INTERRUPTIBLE", "TASK_UNINTERRUPTIBLE",
           "TASK_ZOMBIE", "TASK_STOPPED"}
Codes == {"0", "exit"} \cup Signals

TaskStruct ==
    [state : States, pid : 0..MaxPid, pgrp : 0..MaxPid, session : 0..MaxPid, leader : BOOLEAN,
     signal : SUBSET Signals, exit_code : Codes, p_pptr : Proc \cup {NULL},
     p_cptr : Proc \cup {NULL}, p_ysptr : Proc \cup {NULL}, p_osptr : Proc \cup {NULL}]
FreePage == [state |-> "free", pid |-> 0, pgrp |-> 0, session |-> 0, leader |-> FALSE,
             signal |-> {}, exit_code |-> "0",
             p_pptr |-> NULL, p_cptr |-> NULL, p_ysptr |-> NULL, p_osptr |-> NULL]
NoArg == [pid |-> -1, option |-> "none"]
Options == {"none", "WUNTRACED", "WNOHANG"}
NoFork == [nr |-> 0, page |-> NULL]

(* task 0 has forked init. *)
Init ==
    /\ task = [nr \in Slot |-> IF nr \in {0, InitTask} THEN nr ELSE NULL]
    /\ proc = [p \in Proc |->
                 CASE p = 0 -> [FreePage EXCEPT !.state = "TASK_RUNNING", !.p_pptr = 0, !.p_cptr = InitTask]
                   [] p = InitTask -> [FreePage EXCEPT !.state = "TASK_RUNNING", !.pid = 1, !.p_pptr = 0]
                   [] OTHER -> FreePage]
    /\ last_pid = 0
    /\ pc = [p \in Proc |-> "user"]
    /\ arg = [p \in Proc |-> NoArg]
    /\ new = [p \in Proc |-> NoFork]
    /\ panic = FALSE
    /\ jobs = 0

(* The tasks in the table; the loops over it leave out task 0. *)
InTable == {task[nr] : nr \in Slot \ {0}} \ {NULL}

Runs(t) == t # 0 /\ proc[t].state = "TASK_RUNNING"

InUserMode(t) == Runs(t) /\ pc[t] = "user" /\ proc[t].signal = {}

-----------------------------------------------------------------------------
(* fork: find_empty_process and copy_process *)

MutPidsInUse ==
    LET live == {p \in InTable \cup {0} : proc[p].state # "TASK_ZOMBIE"}
    IN  {proc[p].pid : p \in live} \cup {proc[p].pgrp : p \in live}

PidsInUse == {proc[p].pid : p \in InTable \cup {0}} \cup {proc[p].pgrp : p \in InTable \cup {0}}

(* The numbers that are still remembered when their owner is gone. *)
Remembered == {proc[p].session : p \in InTable} \cup {arg[p].pid : p \in InTable}

(* find_empty_process.  The search goes on from last_pid, wherever that    *)
(* is, to a pid that is not in use.  Which one it is matters only if the   *)
(* number is remembered; of the others the least stands for all.           *)
FreePids == 1..MaxPid \ (PidsInUse \cup {last_pid})
NewPids == {pid \in FreePids : pid \in Remembered \/ \A n \in FreePids \ Remembered : pid <= n}
FreeSlots == {nr \in Slot \ {0} : task[nr] = NULL}
FreeSlot == CHOOSE nr \in FreeSlots : \A m \in FreeSlots : nr <= m

MayFork == jobs = 0 \/ Cardinality(InTable) < JobTasks

(* get_free_page *)
FreePages == {p \in Proc : proc[p].state = "free"}
NewPage == CHOOSE p \in FreePages : \A q \in FreePages : p <= q

(* copy_process: a copy of the task_struct, links included. *)
Copied(r, pid) ==
    [r EXCEPT !.state = "TASK_UNINTERRUPTIBLE", !.pid = pid, !.signal = {}, !.leader = FALSE]

(* The end of copy_process: task p becomes the youngest child of t. *)
Linked(ps, t, p) ==
    LET os == ps[t].p_cptr IN
    [q \in Proc |->
        CASE q = p -> [ps[p] EXCEPT !.p_pptr = t, !.p_cptr = NULL, !.p_ysptr = NULL,
                                    !.p_osptr = os, !.state = "TASK_RUNNING"]
          [] q = t -> [ps[t] EXCEPT !.p_cptr = p]
          [] q = os -> [ps[os] EXCEPT !.p_ysptr = p]
          [] OTHER -> ps[q]]

(* fork with memory to spare does not sleep; one that fails changes nothing. *)
Fork(t) ==
    /\ MayFork
    /\ FreeSlots # {} /\ FreePages # {}
    /\ task' = [task EXCEPT ![FreeSlot] = NewPage]
    /\ \E pid \in NewPids :
          proc' = Linked([proc EXCEPT ![NewPage] = Copied(proc[t], pid)], t, NewPage)
    /\ UNCHANGED <<last_pid, pc, arg, new, panic, jobs>>

(* When memory is short get_free_page swaps pages out and sleeps, in       *)
(* copy_process and again in copy_mem, and fork comes in pieces.           *)
FindEmptyProcess(t) ==
    /\ MayFork
    /\ FreeSlots # {}
    /\ last_pid' \in NewPids
    /\ new' = [new EXCEPT ![t].nr = FreeSlot]
    /\ pc' = [pc EXCEPT ![t] = "fork_page"]
    /\ UNCHANGED <<task, proc, arg, panic, jobs>>

CopyProcess(t) ==
    /\ pc[t] = "fork_page" /\ Runs(t)
    /\ FreePages # {}
    /\ task' = [task EXCEPT ![new[t].nr] = NewPage]
    /\ proc' = [proc EXCEPT ![NewPage] = Copied(proc[t], last_pid)]
    /\ new' = [new EXCEPT ![t].page = NewPage]
    /\ pc' = [pc EXCEPT ![t] = "fork_mem"]
    /\ UNCHANGED <<last_pid, arg, panic, jobs>>

ForkReturn(t) ==
    /\ pc' = [pc EXCEPT ![t] = "user"]
    /\ new' = [new EXCEPT ![t] = NoFork]
    /\ last_pid' = IF \E u \in Proc \ {t} : pc[u] \in {"fork_page", "fork_mem"} THEN last_pid ELSE 0

ForkFails(t) ==
    /\ pc[t] \in {"fork_page", "fork_mem"} /\ Runs(t)
    /\ IF pc[t] = "fork_mem"
       THEN /\ task' = [task EXCEPT ![new[t].nr] = NULL]
            /\ proc' = [proc EXCEPT ![new[t].page] = FreePage]
       ELSE UNCHANGED <<task, proc>>
    /\ ForkReturn(t)
    /\ UNCHANGED <<arg, panic, jobs>>

LinkProcess(t) ==
    /\ pc[t] = "fork_mem" /\ Runs(t)
    /\ proc' = Linked(proc, t, new[t].page)
    /\ ForkReturn(t)
    /\ UNCHANGED <<task, arg, panic, jobs>>

-----------------------------------------------------------------------------
(* Signals *)

(* send_sig *)
Sent(r, sig) ==
    LET cont == IF sig \notin {"SIGKILL", "SIGCONT"} THEN r
                ELSE [r EXCEPT !.state = IF @ = "TASK_STOPPED" THEN "TASK_RUNNING" ELSE @,
                               !.exit_code = "0",
                               !.signal = @ \ {"SIGSTOP"}]
        stop == IF sig # "SIGSTOP" THEN cont ELSE [cont EXCEPT !.signal = @ \ {"SIGCONT"}]
    IN  [stop EXCEPT !.signal = @ \cup {sig}]

KillPg(ps, g, sig) ==
    [p \in Proc |-> IF p \in InTable /\ ps[p].pgrp = g /\ g > 0 THEN Sent(ps[p], sig) ELSE ps[p]]

is_orphaned_pgrp(ps, g) ==
    ~\E p \in InTable :
        LET parent == ps[ps[p].p_pptr] IN
        /\ ps[p].pgrp = g
        /\ ps[p].state # "TASK_ZOMBIE"
        /\ parent.pid # 1
        /\ parent.pgrp # g
        /\ parent.session = ps[p].session

has_stopped_jobs(ps, g) == \E p \in InTable : ps[p].pgrp = g /\ ps[p].state = "TASK_STOPPED"

MutHangup(ps, g) ==
    IF is_orphaned_pgrp(ps, g) /\ has_stopped_jobs(ps, g) THEN KillPg(ps, g, "SIGHUP") ELSE ps

(* A group that has become orphaned and has stopped jobs. *)
Hangup(ps, g) ==
    IF is_orphaned_pgrp(ps, g) /\ has_stopped_jobs(ps, g)
    THEN KillPg(KillPg(ps, g, "SIGHUP"), g, "SIGCONT")
    ELSE ps

(* A call of kill, setpgid or setsid. *)
JobCall ==
    /\ jobs < MaxJobs
    /\ jobs' = jobs + 1
    /\ Cardinality(InTable) <= JobTasks

(* sys_kill of a task or of a group. *)
Kill(p, sig) ==
    /\ \/ proc' = [proc EXCEPT ![p] = Sent(@, sig)]
       \/ proc[p].pgrp > 0 /\ proc' = KillPg(proc, proc[p].pgrp, sig)
    /\ JobCall
    /\ UNCHANGED <<task, last_pid, pc, arg, new, panic>>

-----------------------------------------------------------------------------
(* The children of t in the order of the list: p_cptr, then p_osptr. *)
Links(ps, t) ==
    LET older == [c \in Proc \cup {NULL} |-> IF c = NULL THEN NULL ELSE ps[c].p_osptr]
        walk[n \in 1..NPages] == IF n = 1 THEN ps[t].p_cptr ELSE older[walk[n - 1]]
    IN  walk
Children(ps, t) ==
    LET walk == Links(ps, t) IN
    [n \in 1..Cardinality({m \in 1..NPages : walk[m] # NULL}) |-> walk[n]]

MutAdopted(t, ps, c) ==
    LET moved == [ps EXCEPT ![c].p_pptr = InitTask]
    IN  IF ps[c].pgrp # ps[t].pgrp /\ ps[c].session = ps[t].session
        THEN Hangup(moved, ps[c].pgrp) ELSE moved

(* do_exit's loop, for one child: init becomes the parent. *)
Adopted(t, ps, c) ==
    LET moved == [ps EXCEPT ![c].p_pptr = InitTask]
        told == IF moved[c].state = "TASK_ZOMBIE"
                THEN [moved EXCEPT ![InitTask].signal = @ \cup {"SIGCHLD"}] ELSE moved
    IN  IF ps[c].pgrp # ps[t].pgrp /\ ps[c].session = ps[t].session
        THEN Hangup(told, ps[c].pgrp) ELSE told

(* The loop. *)
AllAdopted(t, ps, kids) ==
    LET adopted[n \in 0..Len(kids)] == IF n = 0 THEN ps ELSE Adopted(t, adopted[n - 1], kids[n])
    IN  adopted[Len(kids)]

(* The list of t's children is put in front of init's. *)
Spliced(ps, first, last, t) ==
    LET old == ps[InitTask].p_cptr IN
    [q \in Proc |->
        [ps[q] EXCEPT !.p_osptr = IF q = last THEN old ELSE @,
                      !.p_ysptr = IF q = old THEN last ELSE @,
                      !.p_cptr = CASE q = InitTask -> first [] q = t -> NULL [] OTHER -> @]]

(* do_exit, once the files are closed.  fg stands for the foreground group *)
(* of a session leader's terminal, 0 for none.                             *)
DoExit(t, code, fg) ==
    LET zombie == [proc EXCEPT ![t].state = "TASK_ZOMBIE", ![t].exit_code = code,
                               ![t].signal = IF code \in Signals THEN @ \ {code} ELSE @]
        father == zombie[t].p_pptr
        left == IF zombie[father].pgrp # zombie[t].pgrp /\ zombie[father].session = zombie[t].session
                THEN Hangup(zombie, zombie[t].pgrp) ELSE zombie
        told == [left EXCEPT ![father].signal = @ \cup {"SIGCHLD"}]
        kids == Children(told, t)
        adopted == AllAdopted(t, told, kids)
        spliced == IF kids = <<>> THEN told ELSE Spliced(adopted, kids[1], kids[Len(kids)], t)
    IN  /\ fg = 0 \/ proc[t].leader
        /\ proc' = IF fg = 0 THEN spliced ELSE KillPg(spliced, fg, "SIGHUP")
        /\ panic' = (panic \/ (kids # <<>> /\ told[InitTask].p_cptr = NULL))
        /\ UNCHANGED <<task, last_pid, pc, arg, new, jobs>>

SysExit(t, fg) ==
    /\ t # InitTask
    /\ DoExit(t, "exit", fg)

(* do_signal: the signal with the lowest number is taken. *)
IgnoreSignal(t) ==
    /\ Runs(t) /\ pc[t] = "user"
    /\ proc[t].signal \cap {"SIGHUP", "SIGKILL"} = {}
    /\ \E sig \in {"SIGCHLD", "SIGCONT"} \cap proc[t].signal :
          /\ sig = "SIGCONT" => "SIGCHLD" \notin proc[t].signal
          /\ proc' = [proc EXCEPT ![t].signal = @ \ {sig}]
    /\ UNCHANGED <<task, last_pid, pc, arg, new, panic, jobs>>

StopBySignal(t) ==
    /\ Runs(t) /\ pc[t] = "user"
    /\ proc[t].signal = {"SIGSTOP"}
    /\ proc' = [proc EXCEPT ![t].state = "TASK_STOPPED",
                            ![t].exit_code = "SIGSTOP",
                            ![t].signal = {},
                            ![proc[t].p_pptr].signal = @ \cup {"SIGCHLD"}]
    /\ UNCHANGED <<task, last_pid, pc, arg, new, panic, jobs>>

ExitBySignal(t, fg) ==
    /\ Runs(t) /\ pc[t] = "user"
    /\ \/ "SIGHUP" \in proc[t].signal /\ DoExit(t, "SIGHUP", fg)
       \/ "SIGHUP" \notin proc[t].signal /\ "SIGKILL" \in proc[t].signal /\ DoExit(t, "SIGKILL", fg)

-----------------------------------------------------------------------------
(* waitpid: the places in the list of the children it asks about, and of  *)
(* those of them it reports.                                               *)

Asks(t, a, c) ==
    \/ a.pid \in {-1, proc[c].pid}
    \/ a.pid = 0 /\ proc[c].pgrp = proc[t].pgrp
    \/ a.pid < -1 /\ proc[c].pgrp = -a.pid
Asked(t, a) ==
    LET kids == Children(proc, t) IN {n \in DOMAIN kids : Asks(t, a, kids[n])}

Reports(a, c) ==
    \/ proc[c].state = "TASK_ZOMBIE"
    \/ proc[c].state = "TASK_STOPPED" /\ a.option = "WUNTRACED" /\ proc[c].exit_code # "0"
Reported(t, a) ==
    {n \in Asked(t, a) : Reports(a, Children(proc, t)[n])}
FirstReported(t, a) == {n \in Reported(t, a) : \A m \in Reported(t, a) : n <= m}

WaitReturn(t) ==
    /\ pc' = [pc EXCEPT ![t] = "user"]
    /\ arg' = [arg EXCEPT ![t] = NoArg]

MutReleased(ps, p) ==
    LET r == ps[p]
        os == IF r.p_osptr = NULL THEN ps ELSE [ps EXCEPT ![r.p_osptr].p_ysptr = r.p_ysptr]
    IN  [os EXCEPT ![r.p_pptr].p_cptr = r.p_osptr, ![p] = FreePage]

(* release: task p is taken off the lists and its page is freed. *)
Released(ps, p) ==
    LET r == ps[p]
        os == IF r.p_osptr = NULL THEN ps ELSE [ps EXCEPT ![r.p_osptr].p_ysptr = r.p_ysptr]
        ys == IF r.p_ysptr = NULL THEN [os EXCEPT ![r.p_pptr].p_cptr = r.p_osptr]
              ELSE [os EXCEPT ![r.p_ysptr].p_osptr = r.p_osptr]
    IN  [ys EXCEPT ![p] = FreePage]

Reap(t, p) ==
    /\ proc[p].state = "TASK_ZOMBIE"
    /\ IF p \in InTable
       THEN /\ task' = [nr \in Slot |-> IF task[nr] = p THEN NULL ELSE task[nr]]
            /\ proc' = Released(proc, p)
            /\ UNCHANGED panic
       ELSE panic' = TRUE /\ UNCHANGED <<task, proc>>
    /\ WaitReturn(t)

ReportStopped(t, p) ==
    /\ proc[p].state = "TASK_STOPPED"
    /\ proc' = [proc EXCEPT ![p].exit_code = "0"]
    /\ WaitReturn(t)
    /\ UNCHANGED <<task, panic>>

(* No child, or only stopped ones: ECHILD.  Otherwise sleep, or return 0.  *)
ReportNone(t, a) ==
    LET live == {n \in Asked(t, a) : proc[Children(proc, t)[n]].state # "TASK_STOPPED"} IN
    /\ IF live = {} \/ a.option = "WNOHANG"
       THEN WaitReturn(t) /\ UNCHANGED proc
       ELSE /\ proc' = [proc EXCEPT ![t].state = "TASK_INTERRUPTIBLE"]
            /\ pc' = [pc EXCEPT ![t] = "wait"]
            /\ arg' = [arg EXCEPT ![t] = a]
    /\ UNCHANGED <<task, panic>>

(* One pass over the list of children. *)
Scan(t, a) ==
    /\ \/ \E n \in FirstReported(t, a) : Reap(t, Children(proc, t)[n])
       \/ \E n \in FirstReported(t, a) : ReportStopped(t, Children(proc, t)[n])
       \/ Reported(t, a) = {} /\ ReportNone(t, a)
    /\ UNCHANGED <<last_pid, new, jobs>>

WaitPid(t, pid, option) ==
    /\ t = InitTask => pid = -1 /\ option = "none"
    /\ Scan(t, [pid |-> pid, option |-> option])

WaitAgain(t) == pc[t] = "wait" /\ Runs(t) /\ Scan(t, arg[t])

(* schedule() wakes a task that has a signal; waitpid looks again, unless  *)
(* there is a signal other than SIGCHLD.                                   *)
WaitWoken(t) ==
    /\ pc[t] = "wait"
    /\ proc[t].state = "TASK_INTERRUPTIBLE"
    /\ proc[t].signal # {}
    /\ proc' = [proc EXCEPT ![t].state = "TASK_RUNNING"]
    /\ IF proc[t].signal # {"SIGCHLD"} THEN WaitReturn(t) ELSE UNCHANGED <<pc, arg>>
    /\ UNCHANGED <<task, last_pid, new, panic, jobs>>

-----------------------------------------------------------------------------
(* Process groups and sessions *)

session_of_pgrp(g) ==
    LET slots == {nr \in Slot \ {0} : task[nr] # NULL /\ proc[task[nr]].pgrp = g}
    IN  IF slots = {} THEN NULL
        ELSE proc[task[CHOOSE nr \in slots : \A m \in slots : m <= nr]].session

SetPgid(t, p, g) ==
    /\ t # InitTask
    /\ p = t \/ proc[p].p_pptr = t
    /\ ~proc[p].leader
    /\ proc[p].session = proc[t].session
    /\ \/ g = proc[p].pid
       \/ session_of_pgrp(g) = proc[t].session
    /\ proc' = [proc EXCEPT ![p].pgrp = g]
    /\ JobCall
    /\ UNCHANGED <<task, last_pid, pc, arg, new, panic>>

SetSid(t) ==
    /\ t # InitTask
    /\ proc' = [proc EXCEPT ![t].session = proc[t].pid, ![t].pgrp = proc[t].pid, ![t].leader = TRUE]
    /\ JobCall
    /\ UNCHANGED <<task, last_pid, pc, arg, new, panic>>

-----------------------------------------------------------------------------
(* The arguments worth trying: the groups there are (0 for none) and the   *)
(* pids of a task's children.                                              *)
Groups == {0} \cup {proc[p].pgrp : p \in InTable}
Kids(t) == {c \in InTable : proc[c].p_pptr = t}
WaitPids(t) == {-1, 0} \cup {proc[c].pid : c \in Kids(t)} \cup ({-proc[c].pgrp : c \in Kids(t)} \ {0})

(* What a task does on its own account, and what it goes on with. *)
Call(t) ==
    /\ InUserMode(t)
    /\ \/ \E fg \in Groups : SysExit(t, fg)
       \/ \E p \in InTable \ {InitTask}, sig \in {"SIGKILL", "SIGSTOP", "SIGCONT"} : Kill(p, sig)
       \/ \E pid \in WaitPids(t), option \in Options : WaitPid(t, pid, option)
       \/ \E p \in InTable : \E g \in (Groups \cup {proc[p].pid}) \ {0} : SetPgid(t, p, g)
       \/ SetSid(t)

Step(t) ==
    \/ IgnoreSignal(t)
    \/ StopBySignal(t)
    \/ \E fg \in Groups : ExitBySignal(t, fg)
    \/ WaitWoken(t)
    \/ WaitAgain(t)

Next ==
    ~panic /\ \E t \in Proc : \/ InUserMode(t) /\ Fork(t)
                             \/ Call(t)
                             \/ Step(t)

(* The scheduler gets to a task that has been woken (NoStarvation in       *)
(* module Scheduler); nothing makes a task in user mode call the kernel.   *)
Fairness == \A t \in Proc \ {0} : WF_vars(~panic /\ (WaitWoken(t) \/ WaitAgain(t)))

Spec == Init /\ [][Next]_vars /\ Fairness

(* The same with too little memory. *)
SwapNext ==
    ~panic /\ \E t \in Proc : \/ InUserMode(t) /\ FindEmptyProcess(t)
                             \/ CopyProcess(t)
                             \/ ForkFails(t)
                             \/ LinkProcess(t)
                             \/ Call(t)
                             \/ Step(t)

SwapSpec == Init /\ [][SwapNext]_vars

-----------------------------------------------------------------------------
TypeOK ==
    /\ task \in [Slot -> Proc \cup {NULL}]
    /\ proc \in [Proc -> TaskStruct]
    /\ last_pid \in 0..MaxPid
    /\ pc \in [Proc -> {"user", "wait", "fork_page", "fork_mem"}]
    /\ arg \in [Proc -> [pid : -MaxPid..MaxPid, option : Options]]
    /\ new \in [Proc -> [nr : Slot, page : Proc \cup {NULL}]]
    /\ panic \in BOOLEAN
    /\ jobs \in 0..MaxJobs

(* The tasks that fork has finished. *)
Made == InTable \ {new[t].page : t \in Proc}

(* audit_ptree prints no warning: the links of every task lead to tasks in *)
(* the table, to its parent, and to its own place in the parent's list.    *)
AuditPtree ==
    \A p \in Made :
        LET r == proc[p] IN
        /\ {r.p_pptr, r.p_cptr, r.p_ysptr, r.p_osptr} \subseteq (InTable \cup {0, NULL}) \ {p}
        /\ r.p_osptr # NULL => proc[r.p_osptr].p_pptr = r.p_pptr /\ proc[r.p_osptr].p_ysptr = p
        /\ r.p_ysptr # NULL => proc[r.p_ysptr].p_pptr = r.p_pptr /\ proc[r.p_ysptr].p_osptr = p
        /\ r.p_cptr # NULL => proc[r.p_cptr].p_pptr = p /\ proc[r.p_cptr].p_ysptr = NULL

(* The list of a task's children has every task whose parent it is, once:  *)
(* nobody is lost to waitpid, also when orphans go over to init.           *)
EveryChildListed ==
    \A t \in Made \cup {0} :
        LET kids == Children(proc, t) IN
        /\ {kids[n] : n \in 1..Len(kids)} = {p \in Made : proc[p].p_pptr = t}
        /\ \A m, n \in 1..Len(kids) : kids[m] = kids[n] => m = n

(* The process tree is whole, and neither release nor do_exit comes upon a *)
(* task or a list that is not there.                                       *)
TreeOK == TypeOK /\ ~panic /\ AuditPtree /\ EveryChildListed

(* No two tasks have the same pid, however often numbers are used again.   *)
UniquePids ==
    \A p, q \in Made \cup {0} : proc[p].pid = proc[q].pid => p = q

(* "Newly orphaned process groups are to receive a SIGHUP and a SIGCONT"   *)
(* (is_orphaned_pgrp): an exit that leaves a group orphaned leaves nobody  *)
(* stopped in it.                                                          *)
OrphanedJobsGoOn ==
    [][\A t \in Proc, g \in 1..MaxPid :
          /\ proc[t].state # "TASK_ZOMBIE" /\ proc'[t].state = "TASK_ZOMBIE"
          /\ ~is_orphaned_pgrp(proc, g)
          /\ is_orphaned_pgrp(proc', g)
          => ~has_stopped_jobs(proc', g)]_vars

(* waitpid returns once a child it asks about has exited: SIGCHLD, also    *)
(* the one sent for an adopted zombie, is never missed.                    *)
WaitReturns ==
    \A t \in Proc \ {0} :
        (pc[t] = "wait" /\ \E c \in Kids(t) : proc[c].state = "TASK_ZOMBIE" /\ Asks(t, arg[t], c))
        ~> (pc[t] # "wait")
=============================================================================
