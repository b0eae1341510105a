------------------------------ MODULE Signals ------------------------------
(***************************************************************************)
(* How signals reach a program: masks, handlers on the user stack, system  *)
(* calls that are interrupted and made again (kernel/signal.c; send_sig in *)
(* kernel/exit.c; the way in and out of the kernel in kernel/sys_call.s;   *)
(* the calls that wait for signals in sched.c, pipe.c, exit.c, tty_io.c).  *)
(*                                                                         *)
(* One task and whoever sends it signals.  While the task is in the kernel *)
(* and runs ("call") only an interrupt can send one, the keyboard's; where *)
(* it sleeps, or loses the processor on its way out ("ret"), anybody can.  *)
(*                                                                         *)
(* The registers of the program are those that matter: eax is the number   *)
(* of a call or what it returned, eip is the next instruction or "int80",  *)
(* the call again.  ebx, ecx and edx are the arguments of sigsuspend.      *)
(***************************************************************************)
EXTENDS Naturals, Sequences, FiniteSets

CONSTANTS Setups,   \* what the program and the others do, see Setup
          MaxDepth  \* bound: nobody sends a signal to a program in that many handlers

SIGKILL == 9
SIGUSR1 == 10
SIGCHLD == 17
SIGCONT == 18
SIGSTOP == 19
SIGTSTP == 20
SIGTTIN == 21
Sig == {SIGKILL, SIGUSR1, SIGCHLD, SIGCONT, SIGSTOP, SIGTSTP, SIGTTIN}
NotBlockable == {SIGKILL, SIGSTOP}
StopSignals == {SIGSTOP, SIGTSTP, SIGTTIN}

(* struct sigaction; "catch" is the address of a handler.                  *)
Action == [sa_handler : {"SIG_DFL", "SIG_IGN", "catch"}, sa_mask : SUBSET Sig,
           sa_flags : SUBSET {"SA_INTERRUPT", "SA_NOMASK", "SA_ONESHOT"}]

Waiting == {"read", "tty", "waitpid", "pause", "sigsuspend"}

(* The calls of the program and of its handlers, the masks they give to    *)
(* ssetmask and to sigsuspend, what they give to sigaction, the signals    *)
(* that are sent, and the first actions.                                   *)
Setup == [calls : SUBSET Waiting, nested : SUBSET Waiting,
          masks : SUBSET SUBSET Sig, waits : SUBSET SUBSET Sig,
          changes : SUBSET (Sig \X Action), posts : SUBSET Sig, actions : [Sig -> Action]]

ASSUME SignalsAssumption == MaxDepth \in Nat /\ Setups \subseteq Setup

VARIABLES setup,
          signal, blocked, sigaction, state,  \* of the task_struct
          oldblocked, \* a local variable of sys_waitpid
          mode,       \* "user", "call", "asleep" (in schedule) or "ret"
          orig_eax,   \* the call the task is in, or "none" (an interrupt)
          regs,       \* the program's registers
          frames,     \* what do_signal has put on the user's stack
          view        \* history: what the program and its handlers believe

task == <<signal, blocked, sigaction, state>>
vars == <<setup, task, oldblocked, mode, orig_eax, regs, frames, view>>

Last(s) == s[Len(s)]
Below(s) == SubSeq(s, 1, Len(s) - 1)

(* The restorer has given the mask back, the registers are still saved.    *)
Returning == frames # <<>> /\ Last(frames).unmasked

(* What a program that starts knows: the mask it set, the one in force     *)
(* (another one during sigsuspend), its call and what interrupted it.      *)
Level(m) == [mask |-> m, during |-> m, call |-> "none", taken |-> {}]
AtTop(field, value) == view' = [view EXCEPT ![Len(view)][field] = value]

Init ==
    /\ setup \in Setups
    /\ signal = {} /\ blocked = {} /\ oldblocked = {}
    /\ sigaction = setup.actions
    /\ state = "TASK_RUNNING"
    /\ mode = "user" /\ orig_eax = "none"
    /\ regs = [eax |-> "done", ebx |-> 0, ecx |-> {}, edx |-> {}, eip |-> "next"]
    /\ frames = <<>>
    /\ view = <<Level({})>>

-----------------------------------------------------------------------------
(* Signals are sent.                                                       *)

(* send_sig: a signal that will be ignored is not even posted.             *)
SendSig(sig) ==
    LET wakes == sig \in {SIGKILL, SIGCONT}
        rest == IF wakes THEN signal \ StopSignals ELSE signal IN
    /\ state' = IF wakes /\ state = "TASK_STOPPED" THEN "TASK_RUNNING" ELSE state
    /\ signal' = IF sigaction[sig].sa_handler = "SIG_IGN" THEN rest
                 ELSE (IF sig \in StopSignals THEN rest \ {SIGCONT} ELSE rest) \cup {sig}

Reachable == state # "TASK_ZOMBIE" /\ Len(frames) < MaxDepth

(* Another task, or the keyboard, sends a signal.                          *)
Post(sig) ==
    /\ Reachable
    /\ sig \in setup.posts \ {SIGCHLD}
    /\ mode # "call" \/ sig = SIGTSTP
    /\ SendSig(sig)
    /\ UNCHANGED <<setup, blocked, sigaction, oldblocked, mode, orig_eax, regs, frames, view>>

(* do_exit of a child, or a child stops: the bit is set in any case.       *)
ChildChanges ==
    /\ Reachable
    /\ SIGCHLD \in setup.posts
    /\ mode # "call"
    /\ signal' = signal \cup {SIGCHLD}
    /\ UNCHANGED <<setup, blocked, sigaction, state, oldblocked, mode, orig_eax, regs, frames, view>>

(* schedule() wakes a task that sleeps interruptibly and has a signal.     *)
ScheduleWakes ==
    /\ state = "TASK_INTERRUPTIBLE"
    /\ signal \ (blocked \ NotBlockable) # {}
    /\ state' = "TASK_RUNNING"
    /\ UNCHANGED <<setup, signal, blocked, sigaction, oldblocked, mode, orig_eax, regs, frames, view>>

-----------------------------------------------------------------------------
(* The program.                                                            *)

InProgram == mode = "user" /\ state = "TASK_RUNNING" /\ regs.eip = "next" /\ ~Returning

(* A call that can sleep; sigsuspend with a mask and restart = 0.          *)
Call(name) ==
    /\ InProgram
    /\ name \in (IF frames = <<>> THEN setup.calls ELSE setup.nested)
    /\ \E set \in (IF name = "sigsuspend" THEN setup.waits ELSE {{}}) :
          /\ regs' = [eax |-> name, ebx |-> 0, ecx |-> {}, edx |-> set, eip |-> "next"]
          /\ view' = [view EXCEPT ![Len(view)] =
                        [mask |-> @.mask, call |-> name, taken |-> {},
                         during |-> IF name = "sigsuspend" THEN set ELSE @.mask]]
    /\ mode' = "call" /\ orig_eax' = name
    /\ UNCHANGED <<setup, task, oldblocked, frames>>

(* The int 0x80 that do_signal has gone back to.                           *)
CallAgain ==
    /\ mode = "user" /\ regs.eip = "int80" /\ ~Returning
    /\ regs' = [regs EXCEPT !.eip = "next"]
    /\ mode' = "call" /\ orig_eax' = regs.eax
    /\ UNCHANGED <<setup, task, oldblocked, frames, view>>

(* An interrupt in user mode: its way out looks for signals, too.          *)
Interrupt ==
    /\ mode = "user" /\ state = "TASK_RUNNING"
    /\ signal \ blocked # {}
    /\ mode' = "ret" /\ orig_eax' = "none"
    /\ UNCHANGED <<setup, task, oldblocked, regs, frames, view>>

(* A call that does not sleep.                                             *)
Immediate(name) ==
    /\ mode' = "ret" /\ orig_eax' = name
    /\ regs' = [regs EXCEPT !.eax = "done"]
    /\ UNCHANGED <<setup, signal, state, oldblocked, frames>>

(* Mutant: the two signals that cannot be blocked can be.                  *)
MutSsetmask(newmask) ==
    /\ InProgram
    /\ blocked' = newmask
    /\ view' = [view EXCEPT ![Len(view)] = Level(newmask \ NotBlockable)]
    /\ Immediate("ssetmask")
    /\ UNCHANGED sigaction

sys_ssetmask(newmask) ==
    /\ InProgram
    /\ blocked' = newmask \ NotBlockable
    /\ view' = [view EXCEPT ![Len(view)] = Level(newmask \ NotBlockable)]
    /\ Immediate("ssetmask")
    /\ UNCHANGED sigaction

(* Also sys_signal, whose flags are SA_ONESHOT and SA_NOMASK.              *)
sys_sigaction(signum, action) ==
    /\ InProgram
    /\ signum \notin NotBlockable
    /\ sigaction' = [sigaction EXCEPT ![signum] =
         IF "SA_NOMASK" \in action.sa_flags THEN [action EXCEPT !.sa_mask = {}]
         ELSE [action EXCEPT !.sa_mask = @ \cup {signum}]]
    /\ AtTop("call", "none")
    /\ Immediate("sigaction")
    /\ UNCHANGED blocked

(* A handler returns into sa_restorer, which first gives the old mask back *)
(* with ssetmask, if there is one on the stack,                            *)
RestoreMask ==
    /\ InProgram /\ frames # <<>>
    /\ ~Last(frames).nomask
    /\ blocked' = Last(frames).blocked \ NotBlockable
    /\ frames' = [frames EXCEPT ![Len(frames)].unmasked = TRUE]
    /\ AtTop("during", view[Len(view) - 1].during)
    /\ mode' = "ret" /\ orig_eax' = "ssetmask"
    /\ UNCHANGED <<setup, signal, sigaction, state, oldblocked, regs>>

(* and then pops the registers; ebx is what it was, since C code saves it. *)
PopFrame ==
    /\ mode = "user" /\ frames # <<>>
    /\ Returning \/ (InProgram /\ Last(frames).nomask)
    /\ regs' = Last(frames).regs
    /\ frames' = Below(frames)
    /\ view' = Below(view)
    /\ UNCHANGED <<setup, task, oldblocked, mode, orig_eax>>

-----------------------------------------------------------------------------
(* The calls, from one sleep to the next.                                  *)

In(name) == mode = "call" /\ orig_eax = name
Woken(name) == mode = "asleep" /\ orig_eax = name /\ state = "TASK_RUNNING"

Returns(value) == mode' = "ret" /\ regs' = [regs EXCEPT !.eax = value]
SleepsIn == state' = "TASK_INTERRUPTIBLE" /\ mode' = "asleep"

(* read_pipe: there is something to read, or a signal, or it sleeps.       *)
ReadData ==
    /\ In("read")
    /\ Returns("done")
    /\ UNCHANGED <<setup, task, oldblocked, orig_eax, frames, view>>

ReadEmpty ==
    /\ In("read")
    /\ \/ signal \ blocked # {} /\ Returns("ERESTARTSYS") /\ UNCHANGED state
       \/ signal \ blocked = {} /\ SleepsIn /\ UNCHANGED regs
    /\ UNCHANGED <<setup, signal, blocked, sigaction, oldblocked, orig_eax, frames, view>>

(* A writer wakes it; then it looks again.                                 *)
WakeReader ==
    /\ mode = "asleep" /\ orig_eax = "read" /\ state = "TASK_INTERRUPTIBLE"
    /\ state' = "TASK_RUNNING"
    /\ UNCHANGED <<setup, signal, blocked, sigaction, oldblocked, mode, orig_eax, regs, frames, view>>

ReadOn ==
    /\ Woken("read")
    /\ mode' = "call"
    /\ UNCHANGED <<setup, task, oldblocked, orig_eax, regs, frames, view>>

(* tty_read of a task in the foreground,                                   *)
TtyForeground ==
    /\ In("tty")
    /\ Returns("done")
    /\ UNCHANGED <<setup, task, oldblocked, orig_eax, frames, view>>

(* and tty_signal for one in the background.                               *)
TtySignal ==
    LET handler == sigaction[SIGTTIN].sa_handler IN
    /\ In("tty")
    /\ SendSig(SIGTTIN)
    /\ Returns(CASE SIGTTIN \in blocked \/ handler = "SIG_IGN" -> "EIO"
                 [] handler = "catch" -> "EINTR"
                 [] OTHER -> "ERESTARTSYS")
    /\ UNCHANGED <<setup, blocked, sigaction, oldblocked, orig_eax, frames, view>>

(* sys_waitpid finds a child, or sleeps with SIGCHLD unblocked.            *)
WaitFinds ==
    /\ In("waitpid")
    /\ Returns("done")
    /\ UNCHANGED <<setup, task, oldblocked, orig_eax, frames, view>>

(* Mutant: SIGCHLD stays unblocked after the sleep. *)
MutWaitWakes ==
    /\ Woken("waitpid")
    /\ \/ signal \ (oldblocked \cup {SIGCHLD}) # {} /\ Returns("ERESTARTSYS")
       \/ signal \ (oldblocked \cup {SIGCHLD}) = {} /\ mode' = "call" /\ UNCHANGED regs
    /\ UNCHANGED <<setup, task, oldblocked, orig_eax, frames, view>>

WaitSleeps ==
    /\ In("waitpid")
    /\ oldblocked' = blocked
    /\ blocked' = blocked \ {SIGCHLD}
    /\ SleepsIn
    /\ UNCHANGED <<setup, signal, sigaction, orig_eax, regs, frames, view>>

WaitWakes ==
    /\ Woken("waitpid")
    /\ blocked' = oldblocked
    /\ oldblocked' = {}
    /\ \/ signal \ (oldblocked \cup {SIGCHLD}) # {} /\ Returns("ERESTARTSYS")
       \/ signal \ (oldblocked \cup {SIGCHLD}) = {} /\ mode' = "call" /\ UNCHANGED regs
    /\ UNCHANGED <<setup, signal, sigaction, state, orig_eax, frames, view>>

sys_pause ==
    /\ In("pause")
    /\ SleepsIn
    /\ UNCHANGED <<setup, signal, blocked, sigaction, oldblocked, orig_eax, regs, frames, view>>

PauseEnds ==
    /\ Woken("pause")
    /\ Returns("done")
    /\ UNCHANGED <<setup, task, oldblocked, orig_eax, frames, view>>

(* sys_sigsuspend writes to its arguments, the registers of the program:   *)
(* restart = 1 and the old mask, for the call that is made again.          *)
SuspendStarts ==
    /\ In("sigsuspend") /\ regs.ebx = 0
    /\ regs' = [regs EXCEPT !.ebx = 1, !.ecx = blocked]
    /\ blocked' = regs.edx
    /\ SleepsIn
    /\ UNCHANGED <<setup, signal, sigaction, oldblocked, orig_eax, frames, view>>

SuspendEnds ==
    /\ Woken("sigsuspend")
    /\ Returns("ERESTARTNOINTR")
    /\ UNCHANGED <<setup, task, oldblocked, orig_eax, frames, view>>

SuspendRestarts ==
    /\ In("sigsuspend") /\ regs.ebx = 1
    /\ blocked' = regs.ecx
    /\ AtTop("during", Last(view).mask)
    /\ Returns("EINTR")
    /\ UNCHANGED <<setup, signal, sigaction, state, oldblocked, orig_eax, frames>>

-----------------------------------------------------------------------------
(* ret_from_sys_call.                                                      *)

Deliverable == signal \ blocked

(* bsfl: the lowest one.                                                   *)
Signr == CHOOSE s \in Deliverable : \A r \in Deliverable : s <= r

(* Mutant: SIGCONT is taken for one of the signals that interrupt calls.   *)
MutRestarted(signr) ==
    IF orig_eax = "none" \/ regs.eax \notin {"ERESTARTSYS", "ERESTARTNOINTR"} THEN regs
    ELSE IF /\ regs.eax = "ERESTARTSYS"
            /\ "SA_INTERRUPT" \in sigaction[signr].sa_flags \/ signr <= SIGCONT
         THEN [regs EXCEPT !.eax = "EINTR"]
         ELSE [regs EXCEPT !.eax = orig_eax, !.eip = "int80"]

(* What is left of a call that a signal interrupts: EINTR, or the call is  *)
(* made again.  (signr > SIGTTOU is as signr < SIGCONT.)                   *)
Restarted(signr) ==
    IF orig_eax = "none" \/ regs.eax \notin {"ERESTARTSYS", "ERESTARTNOINTR"} THEN regs
    ELSE IF /\ regs.eax = "ERESTARTSYS"
            /\ "SA_INTERRUPT" \in sigaction[signr].sa_flags \/ signr < SIGCONT
         THEN [regs EXCEPT !.eax = "EINTR"]
         ELSE [regs EXCEPT !.eax = orig_eax, !.eip = "int80"]

(* History: the signals that a call may fail for with EINTR.               *)
SeenAtTop(signr) ==
    IF signr < SIGCONT \/ "SA_INTERRUPT" \in sigaction[signr].sa_flags
    THEN [view EXCEPT ![Len(view)].taken = @ \cup {signr}] ELSE view

LooksForSignals(signr) ==
    /\ mode = "ret" /\ state = "TASK_RUNNING"
    /\ Deliverable # {} /\ signr = Signr
    /\ signal' = signal \ {signr}
    /\ UNCHANGED <<setup, oldblocked, orig_eax>>

(* do_signal: the signal is ignored, stops or ends the task,               *)
WithoutHandler(signr) ==
    LET handler == sigaction[signr].sa_handler IN
    /\ LooksForSignals(signr)
    /\ handler # "catch"
    /\ state' = CASE handler = "SIG_IGN" \/ signr \in {SIGCONT, SIGCHLD} -> "TASK_RUNNING"
                  [] signr \in StopSignals -> "TASK_STOPPED"
                  [] OTHER -> "TASK_ZOMBIE"
    /\ regs' = Restarted(signr)
    /\ view' = SeenAtTop(signr)
    /\ UNCHANGED <<blocked, sigaction, mode, frames>>

(* or its handler is called: the frame on the user's stack has the mask    *)
(* (unless SA_NOMASK), the registers and the place to go back to.          *)
WithHandler(signr) ==
    LET sa == sigaction[signr]
        saved == Restarted(signr) IN
    /\ LooksForSignals(signr)
    /\ sa.sa_handler = "catch"
    /\ sigaction' = [sigaction EXCEPT ![signr].sa_handler =
                        IF "SA_ONESHOT" \in sa.sa_flags THEN "SIG_DFL" ELSE @]
    /\ frames' = Append(frames, [blocked |-> blocked, nomask |-> "SA_NOMASK" \in sa.sa_flags,
                                 regs |-> saved, unmasked |-> FALSE])
    /\ blocked' = blocked \cup sa.sa_mask
    /\ regs' = [saved EXCEPT !.eip = "next"]
    /\ view' = Append(SeenAtTop(signr), Level(Last(view).during \cup sa.sa_mask))
    /\ mode' = "user"
    /\ UNCHANGED state

(* No signals (any more): back to the program.                             *)
ReturnToUser ==
    /\ mode = "ret" /\ state = "TASK_RUNNING"
    /\ Deliverable = {}
    /\ mode' = "user"
    /\ UNCHANGED <<setup, task, oldblocked, orig_eax, regs, frames, view>>

-----------------------------------------------------------------------------
KernelStep ==
    \/ ReadEmpty \/ ReadOn \/ TtySignal \/ WaitSleeps \/ WaitWakes
    \/ sys_pause \/ PauseEnds \/ SuspendStarts \/ SuspendEnds \/ SuspendRestarts
    \/ \E signr \in Sig : WithoutHandler(signr) \/ WithHandler(signr)
    \/ ReturnToUser

InNomask == frames # <<>> /\ Last(frames).nomask

ProgramStep ==
    \/ \E name \in Waiting : Call(name)
    \/ \E m \in setup.masks : ~InNomask /\ sys_ssetmask(m)
    \/ \E c \in setup.changes : sys_sigaction(c[1], c[2])
    \/ CallAgain \/ RestoreMask \/ PopFrame

Next ==
    \/ KernelStep \/ ProgramStep
    \/ ReadData \/ TtyForeground \/ WaitFinds
    \/ Interrupt \/ ScheduleWakes \/ WakeReader
    \/ \E sig \in Sig : Post(sig)
    \/ ChildChanges

(* The task runs when it can, schedule() looks at it, the clock ticks.     *)
Fairness == WF_vars(KernelStep) /\ WF_vars(ScheduleWakes) /\ WF_vars(Interrupt)

Spec == Init /\ [][Next]_vars /\ Fairness

-----------------------------------------------------------------------------
(* Two rules for programs.  The masks they give to sigaction and to        *)
(* sigsuspend leave out what cannot be blocked: the kernel does not check. *)
(* And where they wait, they block SIGCONT and the stop signals together   *)
(* or not at all, and ignore SIGCONT only if they are never stopped.       *)

(* The signals the task can get. *)
Posted(s) == s.posts \cup (IF "tty" \in s.calls \cup s.nested THEN {SIGTTIN} ELSE {})
Stops(s) == StopSignals \cap Posted(s)

(* A mask that blocks SIGCONT if and only if it blocks the stop signals. *)
Balanced(s, m) == SIGCONT \in Posted(s) => \A sig \in Stops(s) : (sig \in m) = (SIGCONT \in m)

(* An action for a signal that keeps to the rules. *)
ActionOK(s, sig, sa) ==
    /\ sa.sa_mask \cap NotBlockable = {}
    /\ "SA_NOMASK" \in sa.sa_flags => sa.sa_mask = {}
    /\ s.nested # {} => Balanced(s, sa.sa_mask)
    /\ sig = SIGKILL \/ (sig = SIGCONT /\ SIGCONT \in Posted(s) /\ Stops(s) # {}) =>
          sa.sa_handler # "SIG_IGN"

(* What sys_sigaction makes of the action it is given. *)
Changed(sig, sa) ==
    IF "SA_NOMASK" \in sa.sa_flags THEN [sa EXCEPT !.sa_mask = {}]
    ELSE [sa EXCEPT !.sa_mask = @ \cup {sig}]

(* The rules. *)
Careful(s) ==
    /\ \A m \in s.waits : m \cap NotBlockable = {} /\ Balanced(s, m)
    /\ \A m \in s.masks : Balanced(s, m \ NotBlockable)
    /\ \A sig \in Sig : ActionOK(s, sig, s.actions[sig])
    /\ \A c \in s.changes : c[1] \notin NotBlockable => ActionOK(s, c[1], Changed(c[1], c[2]))

-----------------------------------------------------------------------------
TypeOK ==
    /\ signal \subseteq Sig /\ blocked \subseteq Sig /\ oldblocked \subseteq Sig
    /\ sigaction \in [Sig -> Action]
    /\ state \in {"TASK_RUNNING", "TASK_INTERRUPTIBLE", "TASK_STOPPED", "TASK_ZOMBIE"}
    /\ mode \in {"user", "call", "asleep", "ret"}
    /\ Len(view) = Len(frames) + 1

(* However handlers nest, and wherever a signal comes in: the program, and *)
(* each of its handlers, runs with the mask it has to expect.  That is the *)
(* one it set or, in sigsuspend, asked for; in a handler the one of what   *)
(* was interrupted, with sa_mask; and it is the old one again when the     *)
(* handler or sigsuspend returns (sys_sigsuspend, sys_waitpid, do_signal). *)
MaskKept ==
    /\ TypeOK
    /\ mode = "user" /\ state = "TASK_RUNNING" => blocked = Last(view).during

(* A read or wait that only job control interrupted (a stop, SIGCONT or    *)
(* their handlers without SA_INTERRUPT) never fails with EINTR but goes on *)
(* by itself; and no call returns before its time with a number that is    *)
(* meant for do_signal ("should never be seen by user programs").          *)
NoRawRestart == mode = "user" => regs.eax \notin {"ERESTARTSYS", "ERESTARTNOINTR"}
CallsGoOn ==
    /\ NoRawRestart
    /\ InProgram /\ Last(view).call \in {"read", "waitpid"} /\ regs.eax = "EINTR" =>
          Last(view).taken # {}

(* SIGKILL ends the task, in whatever it sleeps, stands still or computes. *)
KillEnds == (SIGKILL \in signal) ~> (state = "TASK_ZOMBIE")
=============================================================================
