--------------------------- MODULE SignalsProofs ---------------------------
(***************************************************************************)
(* Masks and interrupted calls, for every program that keeps to two rules: *)
(* the masks it gives to sigaction and to sigsuspend leave out the signals *)
(* that cannot be blocked (the kernel does not take them out there), and   *)
(* where it waits, it blocks SIGCONT and the stop signals together or not  *)
(* at all (Careful in Signals).  Without the second rule a signal that     *)
(* interrupts a call can be taken back before do_signal sees it            *)
(* (RawRestart.cfg).                                                       *)
(***************************************************************************)
EXTENDS Signals, SequenceTheorems, TLAPS

-----------------------------------------------------------------------------
Raw(r) == r.eax \in {"ERESTARTSYS", "ERESTARTNOINTR"}
Again(r) == r.eip = "int80"
Suspended(r) == Again(r) /\ r.eax = "sigsuspend"

Results == {"done", "ERESTARTSYS", "ERESTARTNOINTR", "EINTR", "EIO"}
Regs == [eax : Waiting \cup Results, ebx : {0, 1}, ecx : SUBSET Sig, edx : SUBSET Sig,
         eip : {"next", "int80"}]
Frames == [blocked : SUBSET Sig, nomask : BOOLEAN, regs : Regs, unmasked : BOOLEAN]
Levels == [mask : SUBSET Sig, during : SUBSET Sig, call : Waiting \cup {"none"}, taken : SUBSET Sig]

Types ==
    /\ setup \in Setups
    /\ signal \in SUBSET Sig /\ blocked \in SUBSET Sig /\ oldblocked \in SUBSET Sig
    /\ sigaction \in [Sig -> Action]
    /\ state \in {"TASK_RUNNING", "TASK_INTERRUPTIBLE", "TASK_STOPPED", "TASK_ZOMBIE"}
    /\ mode \in {"user", "call", "asleep", "ret"}
    /\ orig_eax \in Waiting \cup {"none", "ssetmask", "sigaction"}
    /\ regs \in Regs
    /\ frames \in Seq(Frames)
    /\ view \in Seq(Levels)
    /\ Len(view) = Len(frames) + 1

(* What schedule() and do_signal leave of the state of the task. *)
States ==
    /\ mode \in {"user", "call"} => state = "TASK_RUNNING"
    /\ mode = "asleep" => state \in {"TASK_RUNNING", "TASK_INTERRUPTIBLE"}
    /\ mode = "ret" => state # "TASK_INTERRUPTIBLE"

Actions ==
    /\ signal \subseteq Posted(setup)
    /\ \A sig \in Sig : ActionOK(setup, sig, sigaction[sig])

(* Where the program waits, the masks are balanced. *)
MaskOK(k, m) ==
    /\ m \cap NotBlockable = {}
    /\ k = 1 \/ setup.nested # {} => Balanced(setup, m)
Masks == \A k \in 1..Len(view) : MaskOK(k, view[k].mask) /\ MaskOK(k, view[k].during)

(* The registers a level goes on with: it makes its call again, with what  *)
(* sigsuspend has written to them, or it has been told of a signal.        *)
Resumes(r, v) ==
    /\ Again(r) => r.eax = v.call /\ v.call \in Waiting
    /\ Suspended(r) => r.ebx = 1 /\ r.ecx = v.mask
    /\ r.eax = "EINTR" /\ v.call \in {"read", "waitpid"} => v.taken # {}

(* The frames on the user's stack, and the levels they belong to. *)
FrameOK(k) ==
    LET f == frames[k] IN
    /\ Resumes(f.regs, view[k])
    /\ ~Raw(f.regs)
    /\ Again(f.regs) => k = 1 \/ setup.nested # {}
    /\ view[k].during # view[k].mask => Suspended(f.regs) \/ (k > 1 /\ frames[k - 1].unmasked)
    /\ f.nomask => view[k + 1].mask = view[k].during /\ ~f.unmasked
    /\ ~f.nomask => f.blocked = view[k].during
    /\ f.unmasked => view[k + 1].during = view[k].during
Stack == \A k \in 1..Len(frames) : FrameOK(k)

InCall == mode \in {"call", "asleep"}

(* The call the program is in, or comes back from. *)
Calls ==
    /\ Resumes(regs, Last(view))
    /\ \A k \in 1..Len(view) : view[k].call \in setup.calls \cup setup.nested \cup {"none"}
    /\ InCall \/ Raw(regs) => orig_eax = Last(view).call /\ orig_eax \in Waiting /\ ~Again(regs)
    /\ InCall \/ Raw(regs) \/ Again(regs) => frames = <<>> \/ setup.nested # {}
    /\ Raw(regs) => mode = "ret"
    /\ InCall \/ Raw(regs) => ~Returning
    /\ Raw(regs) => (regs.eax = "ERESTARTNOINTR" <=> orig_eax = "sigsuspend")

(* sigsuspend has begun, and written to the registers. *)
HasSuspended ==
    (mode = "call" /\ orig_eax = "sigsuspend" /\ regs.ebx = 1)
    \/ (mode = "asleep" /\ orig_eax = "sigsuspend") \/ regs.eax = "ERESTARTNOINTR"

SuspendOK ==
    /\ HasSuspended => regs.ebx = 1 /\ regs.ecx = Last(view).mask
    /\ mode = "call" /\ orig_eax = "sigsuspend" /\ regs.ebx = 0 => regs.edx = Last(view).during
    /\ Last(view).during # Last(view).mask =>
          \/ InCall /\ orig_eax = "sigsuspend"
          \/ regs.eax = "ERESTARTNOINTR" \/ Suspended(regs) \/ Returning

(* The mask in force. *)
InForce ==
    CASE mode = "asleep" /\ orig_eax = "waitpid" ->
              oldblocked = Last(view).during /\ blocked = oldblocked \ {SIGCHLD}
      [] mode = "call" /\ orig_eax = "sigsuspend" /\ regs.ebx = 0 -> blocked = Last(view).mask
      [] OTHER -> blocked = Last(view).during

(* A signal that interrupts a call is still there when the call returns. *)
Interrupts ==
    Raw(regs) \/ (mode = "asleep" /\ orig_eax = "sigsuspend" /\ state = "TASK_RUNNING") => Deliverable # {}

Inv ==
    /\ Types /\ States /\ Actions /\ Masks /\ Stack /\ Calls /\ SuspendOK /\ InForce
    /\ Interrupts

-----------------------------------------------------------------------------
(* The signals are different numbers. *)
LEMMA SigDef ==
    /\ SIGKILL \in Sig /\ SIGCONT \in Sig /\ SIGCHLD \in Sig /\ SIGTTIN \in Sig
    /\ StopSignals \subseteq Sig
    /\ SIGKILL \notin StopSignals /\ SIGCONT \notin StopSignals /\ SIGTTIN \in StopSignals
    /\ SIGCONT # SIGKILL /\ SIGKILL \in NotBlockable
    /\ SIGCHLD \notin NotBlockable
BY DEF Sig, StopSignals, NotBlockable, SIGKILL, SIGUSR1, SIGCHLD, SIGCONT, SIGSTOP, SIGTSTP, SIGTTIN

(* send_sig does not take back the signals that interrupt a call: what it  *)
(* removes it replaces by one that is blocked no more than they were.      *)
LEMMA StillDeliverable ==
    ASSUME Types, Actions, NEW sig \in Posted(setup), SendSig(sig),
           blocked \cap NotBlockable = {}, Balanced(setup, blocked), signal \ blocked # {}
    PROVE  signal' \ blocked # {}
<1>1. PICK x \in signal : x \notin blocked
  OBVIOUS
<1>2. x \in Posted(setup) /\ sigaction \in [Sig -> Action]
  BY <1>1 DEF Actions, Types
<1>3. CASE sig = SIGKILL
  <2>1. ActionOK(setup, SIGKILL, sigaction[SIGKILL])
    BY SigDef DEF Actions
  <2>2. sigaction[SIGKILL].sa_handler # "SIG_IGN"
    BY <2>1 DEF ActionOK
  <2>3. SIGKILL \in signal' /\ SIGKILL \notin blocked
    BY <1>3, <2>2, SigDef DEF SendSig
  <2>. QED BY <2>3
<1>4. CASE sig = SIGCONT
  <2>1. CASE x \in StopSignals
    <3>1. ActionOK(setup, SIGCONT, sigaction[SIGCONT])
      BY SigDef DEF Actions
    <3>2. x \in Stops(setup) /\ SIGCONT \in Posted(setup)
      BY <1>2, <1>4, <2>1 DEF Stops
    <3>3. sigaction[SIGCONT].sa_handler # "SIG_IGN"
      BY <3>1, <3>2 DEF ActionOK
    <3>4. SIGCONT \notin blocked
      BY <3>2, <1>1 DEF Balanced
    <3>5. SIGCONT \in signal'
      BY <1>4, <3>3, SigDef DEF SendSig
    <3>. QED BY <3>4, <3>5
  <2>2. CASE x \notin StopSignals
    <3>1. x \in signal'
      BY <1>1, <1>4, <2>2, SigDef DEF SendSig
    <3>. QED BY <3>1, <1>1
  <2>. QED BY <2>1, <2>2
<1>5. CASE sig \notin {SIGKILL, SIGCONT}
  <2>1. CASE x # SIGCONT \/ sig \notin StopSignals \/ sigaction[sig].sa_handler = "SIG_IGN"
    <3>1. x \in signal'
      BY <1>1, <1>5, <2>1, SigDef DEF SendSig
    <3>. QED BY <3>1, <1>1
  <2>2. CASE x = SIGCONT /\ sig \in StopSignals /\ sigaction[sig].sa_handler # "SIG_IGN"
    <3>1. sig \in Stops(setup) /\ SIGCONT \in Posted(setup)
      BY <1>2, <2>2 DEF Stops
    <3>2. sig \notin blocked
      BY <3>1, <1>1, <2>2 DEF Balanced
    <3>3. sig \in signal'
      BY <1>5, <2>2, SigDef DEF SendSig
    <3>. QED BY <3>2, <3>3
  <2>. QED BY <2>1, <2>2
<1>. QED BY <1>3, <1>4, <1>5

(* What send_sig does to the signals and the state. *)
LEMMA SendSigIs ==
    ASSUME Types, NEW sig \in Sig, SendSig(sig)
    PROVE  /\ signal' \subseteq signal \cup {sig} /\ signal' \in SUBSET Sig
           /\ state' \in {"TASK_RUNNING", "TASK_INTERRUPTIBLE", "TASK_STOPPED", "TASK_ZOMBIE"}
           /\ state # "TASK_STOPPED" => state' = state
           /\ state' = "TASK_INTERRUPTIBLE" => state = "TASK_INTERRUPTIBLE"
BY DEF SendSig, Types

(* The top of the stack of levels. *)
LEMMA Top ==
    ASSUME Types
    PROVE  /\ Len(view) \in 1..Len(view) /\ Len(frames) \in Nat /\ Len(view) \in Nat
           /\ Last(view) = view[Len(view)] /\ Last(view) \in Levels
           /\ frames # <<>> => Len(frames) > 0 /\ Last(frames) = frames[Len(frames)]
                               /\ Last(frames) \in Frames
           /\ frames = <<>> => Len(frames) = 0
BY DEF Types, Last

(* The mask of a waiting call is balanced. *)
LEMMA WaitingMask ==
    ASSUME Types, Masks, frames = <<>> \/ setup.nested # {}
    PROVE  /\ Last(view).during \cap NotBlockable = {} /\ Balanced(setup, Last(view).during)
           /\ Last(view).mask \cap NotBlockable = {} /\ Balanced(setup, Last(view).mask)
<1>1. MaskOK(Len(view), Last(view).mask) /\ MaskOK(Len(view), Last(view).during)
  BY Top DEF Masks
<1>2. Len(view) = 1 \/ setup.nested # {}
  BY Top DEF Types
<1>. QED BY <1>1, <1>2 DEF MaskOK

(* A step that leaves the stack and the actions alone. *)
LEMMA Quiet ==
    ASSUME Inv, UNCHANGED <<setup, sigaction, frames, view>>
    PROVE  Masks' /\ Stack' /\ (signal' \subseteq Posted(setup) => Actions')
<1>1. Masks'
  BY DEF Inv, Masks, MaskOK
<1>2. Stack'
  BY DEF Inv, Stack, FrameOK
<1>3. signal' \subseteq Posted(setup) => Actions'
  BY DEF Inv, Actions
<1>. QED BY <1>1, <1>2, <1>3

(* A signal is sent from outside. *)
LEMMA PostStep == ASSUME Inv, NEW sig \in Sig, Post(sig) PROVE Inv'
<1>1. sig \in Posted(setup) /\ UNCHANGED <<setup, blocked, sigaction, oldblocked, mode, orig_eax, regs, frames, view>>
  BY DEF Post, Posted
<1>2. SendSig(sig)
  BY DEF Post
<1>3. Types /\ States /\ Actions /\ Masks /\ Calls /\ SuspendOK /\ InForce /\ Interrupts
  BY DEF Inv
<1>4. Types' /\ signal' \subseteq Posted(setup)
  BY <1>1, <1>2, <1>3, SendSigIs DEF Types, Actions
<1>5. States'
  BY <1>1, <1>2, <1>3, SendSigIs DEF States
<1>6. Calls' /\ SuspendOK' /\ InForce'
  BY <1>1, <1>3 DEF Calls, SuspendOK, InForce, HasSuspended, InCall, Returning
<1>7. Interrupts'
  <2>1. SUFFICES ASSUME Raw(regs) \/ (mode = "asleep" /\ orig_eax = "sigsuspend" /\ state' = "TASK_RUNNING")
                 PROVE  signal' \ blocked # {}
    BY <1>1 DEF Interrupts, Deliverable
  <2>2. Raw(regs) \/ (mode = "asleep" /\ orig_eax = "sigsuspend" /\ state = "TASK_RUNNING")
    BY <2>1, <1>1, <1>2, <1>3, SendSigIs DEF States
  <2>3. frames = <<>> \/ setup.nested # {}
    BY <2>2, <1>3 DEF Calls, InCall
  <2>4. blocked = Last(view).during
    <3>1. Raw(regs) => mode = "ret"
      BY <1>3 DEF Calls
    <3>. QED BY <2>2, <3>1, <1>3 DEF InForce
  <2>5. signal \ blocked # {}
    BY <2>2, <1>3 DEF Interrupts, Deliverable
  <2>6. blocked \cap NotBlockable = {} /\ Balanced(setup, blocked)
    BY <1>3, <2>3, <2>4, WaitingMask
  <2>. QED BY <1>1, <1>2, <1>3, <2>5, <2>6, StillDeliverable
<1>. QED BY <1>1, <1>4, <1>5, <1>6, <1>7, Quiet DEF Inv

(* A child exits or stops. *)
LEMMA ChildStep == ASSUME Inv, ChildChanges PROVE Inv'
<1>1. signal' = signal \cup {SIGCHLD} /\ SIGCHLD \in Posted(setup)
      /\ UNCHANGED <<setup, blocked, sigaction, state, oldblocked, mode, orig_eax, regs, frames, view>>
  BY DEF ChildChanges, Posted
<1>2. Types /\ States /\ Actions /\ Calls /\ SuspendOK /\ InForce /\ Interrupts
  BY DEF Inv
<1>3. Types' /\ signal' \subseteq Posted(setup)
  BY <1>1, <1>2, SigDef DEF Types, Actions
<1>4. States' /\ Calls' /\ SuspendOK' /\ InForce'
  BY <1>1, <1>2 DEF States, Calls, SuspendOK, InForce, HasSuspended, InCall, Returning
<1>5. Interrupts'
  BY <1>1, <1>2 DEF Interrupts, Deliverable
<1>. QED BY <1>1, <1>3, <1>4, <1>5, Quiet DEF Inv

(* schedule() or a writer wakes the task. *)
LEMMA WakeStep == ASSUME Inv, ScheduleWakes \/ WakeReader PROVE Inv'
<1>1. state = "TASK_INTERRUPTIBLE" /\ state' = "TASK_RUNNING"
      /\ UNCHANGED <<setup, signal, blocked, sigaction, oldblocked, mode, orig_eax, regs, frames, view>>
  BY DEF ScheduleWakes, WakeReader
<1>2. Types /\ States /\ Actions /\ Calls /\ SuspendOK /\ InForce /\ Interrupts /\ Masks
  BY DEF Inv
<1>3. Types' /\ signal' \subseteq Posted(setup)
  BY <1>1, <1>2 DEF Types, Actions
<1>4. States' /\ Calls' /\ SuspendOK' /\ InForce' /\ mode = "asleep"
  BY <1>1, <1>2 DEF Types, States, Calls, SuspendOK, InForce, HasSuspended, InCall, Returning
<1>5. Interrupts'
  <2>1. ~Raw(regs)
    BY <1>4, <1>2 DEF Calls
  <2>2. SUFFICES ASSUME orig_eax = "sigsuspend" PROVE signal \ blocked # {}
    BY <1>1, <2>1 DEF Interrupts, Deliverable
  <2>3. frames = <<>> \/ setup.nested # {}
    BY <1>2, <1>4 DEF Calls, InCall
  <2>4. blocked = Last(view).during
    BY <1>2, <1>4, <2>2 DEF InForce
  <2>5. blocked \cap NotBlockable = {}
    BY <1>2, <2>3, <2>4, WaitingMask
  <2>6. ScheduleWakes
    BY <2>2 DEF WakeReader
  <2>. QED BY <2>5, <2>6 DEF ScheduleWakes
<1>. QED BY <1>1, <1>3, <1>4, <1>5, Quiet DEF Inv

(* A call other than sigsuspend returns. *)
LEMMA ReturnsStep ==
    ASSUME Inv, NEW value \in {"done", "EINTR", "EIO", "ERESTARTSYS"}, Returns(value),
           InCall, orig_eax # "sigsuspend", state' = "TASK_RUNNING",
           UNCHANGED <<setup, sigaction, orig_eax, frames, view>>,
           blocked' = Last(view).during, oldblocked' \in SUBSET Sig,
           signal' \in SUBSET Sig, signal' \subseteq Posted(setup),
           value = "EINTR" => orig_eax \notin {"read", "waitpid"},
           value = "ERESTARTSYS" => signal' \ blocked' # {}
    PROVE  Inv'
<1>1. mode' = "ret" /\ regs' = [regs EXCEPT !.eax = value]
  BY DEF Returns
<1>2. Types /\ States /\ Actions /\ Calls /\ SuspendOK /\ InForce /\ Interrupts
  BY DEF Inv
<1>3. /\ regs' \in Regs /\ regs'.eax = value /\ regs'.eip = regs.eip
      /\ regs'.ebx = regs.ebx /\ regs'.ecx = regs.ecx /\ regs'.edx = regs.edx
  BY <1>1, <1>2 DEF Types, Regs, Results
<1>4. Last(view) \in Levels /\ orig_eax = Last(view).call /\ orig_eax \in Waiting
      /\ ~Again(regs) /\ ~Returning /\ (frames = <<>> \/ setup.nested # {})
  BY <1>2, Top DEF Calls
<1>5. Types'
  <2>1. blocked' \in SUBSET Sig
    BY <1>4 DEF Levels
  <2>. QED BY <1>1, <1>2, <1>3, <2>1 DEF Types
<1>6. States'
  BY <1>1, <1>2 DEF States
<1>7. Calls'
  <2>1. Resumes(regs', Last(view))
    BY <1>3, <1>4 DEF Resumes, Again, Suspended
  <2>2. Raw(regs') => value = "ERESTARTSYS"
    BY <1>3 DEF Raw
  <2>3. ~Again(regs')
    BY <1>3, <1>4 DEF Again
  <2>4. regs'.eax # "ERESTARTNOINTR"
    BY <1>3
  <2>. QED BY <1>1, <1>2, <1>4, <2>1, <2>2, <2>3, <2>4 DEF Calls, InCall, Returning
<1>8. SuspendOK'
  <2>1. Last(view).during = Last(view).mask
    <3>1. regs.eax # "ERESTARTNOINTR" /\ ~Suspended(regs)
      BY <1>2, <1>4 DEF Calls, InCall, Raw, Suspended
    <3>. QED BY <1>2, <1>4, <3>1 DEF SuspendOK
  <2>. QED BY <1>1, <1>3, <2>1 DEF SuspendOK, HasSuspended
<1>9. InForce'
  BY <1>1 DEF InForce
<1>10. Interrupts'
  BY <1>1, <1>3 DEF Interrupts, Raw, Deliverable
<1>. QED BY <1>5, <1>6, <1>7, <1>8, <1>9, <1>10, Quiet DEF Inv

(* The mask in force in a call that is not sigsuspend. *)
LEMMA CallMask ==
    ASSUME Inv, InCall, orig_eax \notin {"sigsuspend", "waitpid"} \/ (mode = "call" /\ orig_eax # "sigsuspend")
    PROVE  blocked = Last(view).during
BY DEF Inv, InForce, InCall

(* read_pipe, tty_read and waitpid come to an end. *)
LEMMA DoneStep == ASSUME Inv, ReadData \/ TtyForeground \/ WaitFinds \/ PauseEnds PROVE Inv'
<1>1. /\ Returns("done") /\ InCall /\ state = "TASK_RUNNING"
      /\ orig_eax \notin {"sigsuspend", "waitpid"} \/ (mode = "call" /\ orig_eax # "sigsuspend")
      /\ UNCHANGED <<setup, task, oldblocked, orig_eax, frames, view>>
  BY DEF ReadData, TtyForeground, WaitFinds, PauseEnds, In, Woken, InCall, Inv, States
<1>2. blocked' = Last(view).during
  BY <1>1, CallMask DEF task
<1>3. /\ oldblocked' \in SUBSET Sig /\ signal' \in SUBSET Sig /\ signal' \subseteq Posted(setup)
      /\ state' = "TASK_RUNNING" /\ UNCHANGED sigaction
  BY <1>1 DEF Inv, Types, Actions, task
<1>. QED BY <1>1, <1>2, <1>3, ReturnsStep

(* tty_read of a task in the background. *)
LEMMA TtyStep == ASSUME Inv, TtySignal PROVE Inv'
<1> DEFINE value == CASE SIGTTIN \in blocked \/ sigaction[SIGTTIN].sa_handler = "SIG_IGN" -> "EIO"
                      [] sigaction[SIGTTIN].sa_handler = "catch" -> "EINTR"
                      [] OTHER -> "ERESTARTSYS"
<1>1. /\ mode = "call" /\ orig_eax = "tty" /\ SendSig(SIGTTIN) /\ Returns(value)
      /\ UNCHANGED <<setup, blocked, sigaction, oldblocked, orig_eax, frames, view>>
  BY DEF TtySignal, In
<1>2. Types /\ States /\ Actions /\ Calls
  BY DEF Inv
<1>3. SIGTTIN \in Posted(setup)
  <2>1. "tty" \in setup.calls \cup setup.nested
    <3>1. Last(view).call = "tty"
      BY <1>1, <1>2 DEF Calls, InCall
    <3>2. Last(view).call \in setup.calls \cup setup.nested \cup {"none"}
      BY <1>2, Top DEF Calls
    <3>. QED BY <3>1, <3>2
  <2>. QED BY <2>1 DEF Posted
<1>4. /\ blocked' = Last(view).during /\ oldblocked' \in SUBSET Sig /\ signal' \in SUBSET Sig
      /\ signal' \subseteq Posted(setup) /\ state' = "TASK_RUNNING"
  <2>1. signal' \subseteq signal \cup {SIGTTIN} /\ signal' \in SUBSET Sig
        /\ (state # "TASK_STOPPED" => state' = state)
    BY <1>1, <1>2, SendSigIs, SigDef
  <2>2. blocked' = Last(view).during
    BY <1>1, CallMask DEF InCall
  <2>. QED BY <1>1, <1>2, <1>3, <2>1, <2>2 DEF Types, States, Actions
<1>5. value \in {"done", "EINTR", "EIO", "ERESTARTSYS"}
  OBVIOUS
<1>6. value = "ERESTARTSYS" => signal' \ blocked' # {}
  <2>1. SUFFICES ASSUME value = "ERESTARTSYS" PROVE SIGTTIN \in signal' /\ SIGTTIN \notin blocked'
    OBVIOUS
  <2>2. SIGTTIN \notin blocked /\ sigaction[SIGTTIN].sa_handler # "SIG_IGN"
    BY <2>1
  <2>. QED BY <1>1, <2>2, SigDef DEF SendSig
<1>. HIDE DEF value
<1>. QED BY <1>1, <1>4, <1>5, <1>6, ReturnsStep DEF InCall

(* A call goes to sleep, and the mask it sleeps with. *)
LEMMA SleepStep ==
    ASSUME Inv, mode = "call", orig_eax # "sigsuspend", SleepsIn,
           UNCHANGED <<setup, signal, sigaction, orig_eax, regs, frames, view>>,
           blocked' \in SUBSET Sig, oldblocked' \in SUBSET Sig, InForce'
    PROVE  Inv'
<1>1. mode' = "asleep" /\ state' = "TASK_INTERRUPTIBLE"
  BY DEF SleepsIn
<1>2. Types /\ States /\ Actions /\ Calls /\ SuspendOK /\ Interrupts
  BY DEF Inv
<1>3. Types' /\ States' /\ signal' \subseteq Posted(setup)
  BY <1>1, <1>2 DEF Types, States, Actions
<1>4. ~Raw(regs)
  BY <1>2 DEF Calls
<1>5. Calls'
  BY <1>1, <1>2, <1>4 DEF Calls, InCall, Returning
<1>6. SuspendOK'
  BY <1>1, <1>2 DEF SuspendOK, HasSuspended, InCall, Returning
<1>7. Interrupts'
  BY <1>1, <1>4 DEF Interrupts
<1>. QED BY <1>3, <1>5, <1>6, <1>7, Quiet DEF Inv

(* A call looks again. *)
LEMMA LookStep ==
    ASSUME Inv, mode = "asleep", state = "TASK_RUNNING", orig_eax # "sigsuspend", mode' = "call",
           UNCHANGED <<setup, signal, sigaction, state, orig_eax, regs, frames, view>>,
           blocked' = Last(view).during, oldblocked' \in SUBSET Sig
    PROVE  Inv'
<1>2. Types /\ States /\ Actions /\ Calls /\ SuspendOK /\ Interrupts
  BY DEF Inv
<1>3. Types' /\ States' /\ signal' \subseteq Posted(setup)
  <2>1. blocked' \in SUBSET Sig
    BY <1>2, Top DEF Levels
  <2>. QED BY <1>2, <2>1 DEF Types, States, Actions
<1>4. ~Raw(regs)
  BY <1>2 DEF Calls
<1>5. Calls'
  BY <1>2, <1>4 DEF Calls, InCall, Returning
<1>6. SuspendOK'
  BY <1>2 DEF SuspendOK, HasSuspended, InCall, Returning
<1>7. Interrupts' /\ InForce'
  BY <1>4 DEF Interrupts, InForce
<1>. QED BY <1>3, <1>5, <1>6, <1>7, Quiet DEF Inv

(* read_pipe sleeps, is interrupted, or looks again. *)
LEMMA ReadStep == ASSUME Inv, ReadEmpty \/ ReadOn PROVE Inv'
<1>1. InCall /\ orig_eax = "read" /\ UNCHANGED <<setup, signal, blocked, sigaction, oldblocked, orig_eax, frames, view>>
  BY DEF ReadEmpty, ReadOn, In, Woken, InCall, task
<1>2. blocked = Last(view).during
  BY <1>1, CallMask
<1>3. Types /\ States /\ Actions
  BY DEF Inv
<1>4. /\ oldblocked' \in SUBSET Sig /\ signal' \in SUBSET Sig /\ signal' \subseteq Posted(setup)
      /\ blocked' = Last(view).during /\ blocked' \in SUBSET Sig
  BY <1>1, <1>2, <1>3 DEF Types, Actions
<1>5. CASE ReadEmpty /\ signal \ blocked # {}
  <2>1. Returns("ERESTARTSYS") /\ state' = "TASK_RUNNING"
    BY <1>5, <1>3 DEF ReadEmpty, In, States
  <2>. QED BY <1>1, <1>4, <1>5, <2>1, ReturnsStep
<1>6. CASE ReadEmpty /\ signal \ blocked = {}
  <2>1. mode = "call" /\ SleepsIn /\ UNCHANGED regs
    BY <1>6 DEF ReadEmpty, In
  <2>2. InForce'
    BY <1>1, <1>4 DEF InForce
  <2>. QED BY <1>1, <1>4, <2>1, <2>2, SleepStep
<1>7. CASE ReadOn
  <2>1. mode = "asleep" /\ state = "TASK_RUNNING" /\ mode' = "call" /\ UNCHANGED <<state, regs>>
    BY <1>7 DEF ReadOn, Woken, task
  <2>. QED BY <1>1, <1>4, <2>1, LookStep
<1>. QED BY <1>5, <1>6, <1>7

(* pause sleeps. *)
LEMMA PauseStep == ASSUME Inv, sys_pause PROVE Inv'
<1>1. /\ mode = "call" /\ orig_eax = "pause" /\ SleepsIn
      /\ UNCHANGED <<setup, signal, blocked, sigaction, oldblocked, orig_eax, regs, frames, view>>
  BY DEF sys_pause, In
<1>2. blocked = Last(view).during
  BY <1>1, CallMask DEF InCall
<1>3. InForce' /\ blocked' \in SUBSET Sig /\ oldblocked' \in SUBSET Sig
  BY <1>1, <1>2 DEF InForce, Inv, Types
<1>. QED BY <1>1, <1>3, SleepStep

(* waitpid sleeps without SIGCHLD in its mask, and puts the mask back. *)
LEMMA WaitStep == ASSUME Inv, WaitSleeps \/ WaitWakes PROVE Inv'
<1>1. Types /\ States /\ Actions
  BY DEF Inv
<1>2. CASE WaitSleeps
  <2>1. /\ mode = "call" /\ orig_eax = "waitpid" /\ SleepsIn /\ oldblocked' = blocked
        /\ blocked' = blocked \ {SIGCHLD}
        /\ UNCHANGED <<setup, signal, sigaction, orig_eax, regs, frames, view>>
    BY <1>2 DEF WaitSleeps, In
  <2>2. blocked = Last(view).during
    BY <2>1, CallMask DEF InCall
  <2>3. InForce'
    BY <2>1, <2>2 DEF InForce, SleepsIn
  <2>4. blocked' \in SUBSET Sig /\ oldblocked' \in SUBSET Sig
    BY <1>1, <2>1 DEF Types
  <2>. QED BY <2>1, <2>3, <2>4, SleepStep
<1>3. CASE WaitWakes
  <2>1. /\ mode = "asleep" /\ state = "TASK_RUNNING" /\ orig_eax = "waitpid"
        /\ blocked' = oldblocked /\ oldblocked' = {}
        /\ UNCHANGED <<setup, signal, sigaction, state, orig_eax, frames, view>>
    BY <1>3 DEF WaitWakes, Woken
  <2>2. oldblocked = Last(view).during
    BY <2>1 DEF Inv, InForce
  <2>3. /\ blocked' = Last(view).during /\ oldblocked' \in SUBSET Sig
        /\ signal' \in SUBSET Sig /\ signal' \subseteq Posted(setup)
    BY <1>1, <2>1, <2>2 DEF Types, Actions
  <2>4. CASE signal \ (oldblocked \cup {SIGCHLD}) # {} /\ Returns("ERESTARTSYS")
    <3>1. signal' \ blocked' # {}
      BY <2>1, <2>4
    <3>. QED BY <2>1, <2>3, <2>4, <3>1, ReturnsStep DEF InCall
  <2>5. CASE mode' = "call" /\ UNCHANGED regs
    BY <2>1, <2>3, <2>5, LookStep
  <2>. QED BY <1>3, <2>4, <2>5 DEF WaitWakes
<1>. QED BY <1>2, <1>3

(* sigsuspend sets its mask and sleeps. *)
LEMMA SuspendStep == ASSUME Inv, SuspendStarts PROVE Inv'
<1>1. /\ mode = "call" /\ orig_eax = "sigsuspend" /\ regs.ebx = 0
      /\ regs' = [regs EXCEPT !.ebx = 1, !.ecx = blocked] /\ blocked' = regs.edx
      /\ mode' = "asleep" /\ state' = "TASK_INTERRUPTIBLE"
      /\ UNCHANGED <<setup, signal, sigaction, oldblocked, orig_eax, frames, view>>
  BY DEF SuspendStarts, In, SleepsIn
<1>2. Types /\ States /\ Actions /\ Calls /\ SuspendOK /\ InForce
  BY DEF Inv
<1>3. /\ regs' \in Regs /\ regs'.eax = regs.eax /\ regs'.eip = regs.eip
      /\ regs'.ebx = 1 /\ regs'.ecx = blocked /\ regs'.edx = regs.edx /\ regs.edx \in SUBSET Sig
  BY <1>1, <1>2 DEF Types, Regs
<1>4. Types' /\ States' /\ signal' \subseteq Posted(setup)
  BY <1>1, <1>2, <1>3 DEF Types, States, Actions
<1>5. ~Raw(regs) /\ ~Again(regs) /\ ~Raw(regs') /\ ~Again(regs')
  BY <1>1, <1>2, <1>3 DEF Calls, InCall, Raw, Again
<1>6. Calls'
  <2>1. Resumes(regs', Last(view))
    BY <1>2, <1>3, <1>5 DEF Calls, Resumes, Suspended
  <2>. QED BY <1>1, <1>2, <1>5, <2>1 DEF Calls, InCall, Returning, Raw
<1>7. SuspendOK'
  <2>1. blocked = Last(view).mask
    BY <1>1, <1>2 DEF InForce
  <2>. QED BY <1>1, <1>3, <2>1 DEF SuspendOK, InCall
<1>8. InForce'
  <2>1. regs.edx = Last(view).during
    BY <1>1, <1>2 DEF SuspendOK
  <2>. QED BY <1>1, <2>1 DEF InForce
<1>9. Interrupts'
  BY <1>1, <1>5 DEF Interrupts
<1>. QED BY <1>1, <1>4, <1>6, <1>7, <1>8, <1>9, Quiet DEF Inv

(* It is woken, for do_signal to look at the signals. *)
LEMMA SuspendEndsStep == ASSUME Inv, SuspendEnds PROVE Inv'
<1>1. /\ mode = "asleep" /\ orig_eax = "sigsuspend" /\ state = "TASK_RUNNING"
      /\ regs' = [regs EXCEPT !.eax = "ERESTARTNOINTR"] /\ mode' = "ret"
      /\ UNCHANGED <<setup, signal, blocked, sigaction, state, oldblocked, orig_eax, frames, view>>
  BY DEF SuspendEnds, Woken, Returns, task
<1>2. Types /\ States /\ Actions /\ Calls /\ SuspendOK /\ InForce /\ Interrupts
  BY DEF Inv
<1>3. /\ regs' \in Regs /\ regs'.eax = "ERESTARTNOINTR" /\ regs'.eip = regs.eip
      /\ regs'.ebx = regs.ebx /\ regs'.ecx = regs.ecx /\ regs'.edx = regs.edx
  BY <1>1, <1>2 DEF Types, Regs, Results
<1>4. Types' /\ States' /\ signal' \subseteq Posted(setup)
  BY <1>1, <1>2, <1>3 DEF Types, States, Actions
<1>5. Raw(regs') /\ ~Again(regs')
  BY <1>1, <1>2, <1>3 DEF Calls, InCall, Raw, Again
<1>6. Calls'
  <2>1. Resumes(regs', Last(view))
    BY <1>3, <1>5 DEF Resumes, Suspended
  <2>. QED BY <1>1, <1>2, <1>5, <2>1 DEF Calls, InCall, Returning
<1>7. SuspendOK'
  BY <1>1, <1>2, <1>3 DEF SuspendOK, HasSuspended
<1>8. InForce' /\ Interrupts'
  BY <1>1, <1>2 DEF InForce, Interrupts, Deliverable
<1>. QED BY <1>1, <1>4, <1>6, <1>7, <1>8, Quiet DEF Inv

(* Back to the program, which sees no number meant for do_signal. *)
LEMMA UserStep == ASSUME Inv, ReturnToUser PROVE Inv'
<1>1. /\ mode = "ret" /\ state = "TASK_RUNNING" /\ Deliverable = {} /\ mode' = "user"
      /\ UNCHANGED <<setup, signal, blocked, sigaction, state, oldblocked, orig_eax, regs, frames, view>>
  BY DEF ReturnToUser, task
<1>2. Types /\ States /\ Actions /\ Calls /\ SuspendOK /\ InForce /\ Interrupts
  BY DEF Inv
<1>3. ~Raw(regs)
  BY <1>1, <1>2 DEF Interrupts
<1>4. Types' /\ States' /\ signal' \subseteq Posted(setup)
  BY <1>1, <1>2 DEF Types, States, Actions
<1>5. Calls' /\ SuspendOK'
  BY <1>1, <1>2, <1>3 DEF Calls, SuspendOK, HasSuspended, InCall, Returning
<1>6. InForce' /\ Interrupts'
  BY <1>1, <1>2, <1>3 DEF InForce, Interrupts
<1>. QED BY <1>1, <1>4, <1>5, <1>6, Quiet DEF Inv

(* An interrupt, or the call again. *)
LEMMA EnterStep == ASSUME Inv, Interrupt \/ CallAgain PROVE Inv'
<1>1. /\ mode = "user"
      /\ UNCHANGED <<setup, signal, blocked, sigaction, state, oldblocked, frames, view>>
  BY DEF Interrupt, CallAgain, task
<1>2. Types /\ States /\ Actions /\ Calls /\ SuspendOK /\ InForce
  BY DEF Inv
<1>3. ~Raw(regs)
  BY <1>1, <1>2 DEF Calls
<1>4. CASE Interrupt
  <2>1. mode' = "ret" /\ orig_eax' = "none" /\ UNCHANGED regs
    BY <1>4 DEF Interrupt
  <2>2. Types' /\ States' /\ signal' \subseteq Posted(setup)
    BY <1>1, <1>2, <2>1 DEF Types, States, Actions
  <2>3. Calls'
    BY <1>1, <1>2, <1>3, <2>1 DEF Calls, InCall, Returning, Raw
  <2>4. SuspendOK'
    BY <1>1, <1>2, <1>3, <2>1 DEF SuspendOK, HasSuspended, InCall, Returning
  <2>5. InForce' /\ Interrupts'
    BY <1>1, <1>2, <1>3, <2>1 DEF InForce, Interrupts
  <2>. QED BY <1>1, <2>2, <2>3, <2>4, <2>5, Quiet DEF Inv
<1>5. CASE CallAgain
  <2>1. /\ mode' = "call" /\ orig_eax' = regs.eax /\ regs' = [regs EXCEPT !.eip = "next"]
        /\ Again(regs) /\ ~Returning
    BY <1>5 DEF CallAgain, Again
  <2>2. /\ regs' \in Regs /\ regs'.eax = regs.eax /\ regs'.eip = "next"
        /\ regs'.ebx = regs.ebx /\ regs'.ecx = regs.ecx /\ regs'.edx = regs.edx
    BY <1>2, <2>1 DEF Types, Regs
  <2>3. regs.eax = Last(view).call /\ regs.eax \in Waiting /\ (frames = <<>> \/ setup.nested # {})
    BY <1>2, <2>1 DEF Calls, Resumes
  <2>4. Types' /\ States' /\ signal' \subseteq Posted(setup)
    BY <1>1, <1>2, <2>1, <2>2, <2>3 DEF Types, States, Actions
  <2>5. ~Raw(regs') /\ ~Again(regs')
    BY <1>3, <2>2 DEF Raw, Again
  <2>6. Calls'
    <3>1. Resumes(regs', Last(view))
      BY <1>2, <2>2, <2>5 DEF Calls, Resumes, Suspended
    <3>. QED BY <1>1, <1>2, <2>1, <2>3, <2>5, <3>1 DEF Calls, InCall, Returning, Raw
  <2>7. SuspendOK' /\ InForce'
    <3>1. orig_eax' = "sigsuspend" => regs.ebx = 1 /\ regs.ecx = Last(view).mask
      BY <1>2, <2>1 DEF Calls, Resumes, Suspended
    <3>2. Last(view).during # Last(view).mask => orig_eax' = "sigsuspend"
      BY <1>1, <1>2, <1>3, <2>1 DEF SuspendOK, InCall, Suspended, Raw
    <3>3. blocked = Last(view).during
      BY <1>1, <1>2 DEF InForce
    <3>4. SuspendOK'
      BY <1>1, <2>1, <2>2, <2>5, <3>1, <3>2 DEF SuspendOK, HasSuspended, InCall, Raw
    <3>5. InForce'
      BY <1>1, <2>1, <2>2, <3>1, <3>3 DEF InForce
    <3>. QED BY <3>4, <3>5
  <2>8. Interrupts'
    BY <2>1, <2>5 DEF Interrupts
  <2>. QED BY <1>1, <2>4, <2>6, <2>7, <2>8, Quiet DEF Inv
<1>. QED BY <1>4, <1>5

-----------------------------------------------------------------------------
(* The top level changes, the frames stay. *)
LEMMA NewTop ==
    ASSUME Types, NEW e \in Levels, view' = [view EXCEPT ![Len(view)] = e]
    PROVE  /\ view' \in Seq(Levels) /\ Len(view') = Len(view)
           /\ \A k \in 1..Len(view) : k # Len(view) => view'[k] = view[k]
           /\ Last(view') = e /\ view'[Len(view)] = e
<1>1. Len(view) \in 1..Len(view) /\ view \in Seq(Levels)
  BY Top DEF Types
<1>2. view' \in Seq(Levels) /\ Len(view') = Len(view)
  BY <1>1
<1>3. view'[Len(view)] = e /\ \A k \in 1..Len(view) : k # Len(view) => view'[k] = view[k]
  BY <1>1
<1>. QED BY <1>2, <1>3 DEF Last

(* What such a step has to keep for the masks and the frames. *)
LEMMA TopStep ==
    ASSUME Inv, NEW e \in Levels, view' = [view EXCEPT ![Len(view)] = e], UNCHANGED <<setup, frames>>,
           MaskOK(Len(view), e.mask), MaskOK(Len(view), e.during),
           e.call \in setup.calls \cup setup.nested \cup {"none"},
           InNomask => e.mask = Last(view).mask, Returning => e.during = Last(view).during
    PROVE  /\ Masks' /\ Stack'
           /\ \A k \in 1..Len(view') : view'[k].call \in setup.calls \cup setup.nested \cup {"none"}
<1>1. Types /\ Masks /\ Stack /\ Calls
  BY DEF Inv
<1>2. /\ view' \in Seq(Levels) /\ Len(view') = Len(view)
      /\ \A k \in 1..Len(view) : k # Len(view) => view'[k] = view[k]
      /\ Last(view') = e /\ view'[Len(view)] = e
  BY <1>1, NewTop
<1>3. Masks'
  <2>1. SUFFICES ASSUME NEW k \in 1..Len(view)
                 PROVE  MaskOK(k, view'[k].mask) /\ MaskOK(k, view'[k].during)
    BY <1>2 DEF Masks, MaskOK
  <2>2. CASE k = Len(view)
    BY <1>2, <2>2
  <2>3. CASE k # Len(view)
    BY <1>1, <1>2, <2>3 DEF Masks
  <2>. QED BY <2>2, <2>3
<1>4. Stack'
  <2>1. SUFFICES ASSUME NEW k \in 1..Len(frames) PROVE FrameOK(k)'
    BY DEF Stack
  <2>2. Len(view) = Len(frames) + 1 /\ Len(frames) \in Nat /\ k \in 1..Len(view) /\ k # Len(view)
        /\ k + 1 \in 1..Len(view)
    BY <1>1, Top DEF Types
  <2>3. FrameOK(k) /\ view'[k] = view[k]
    BY <1>1, <1>2, <2>2 DEF Stack
  <2>4. CASE k # Len(frames)
    <3>1. view'[k + 1] = view[k + 1]
      BY <1>2, <2>2, <2>4
    <3>. QED BY <2>3, <3>1 DEF FrameOK
  <2>5. CASE k = Len(frames)
    <3>1. k + 1 = Len(view) /\ view'[k + 1] = e /\ view[k + 1] = Last(view) /\ frames # <<>>
          /\ Last(frames) = frames[k]
      BY <1>1, <1>2, <2>2, <2>5, Top
    <3>2. frames[k].nomask => e.mask = view[k + 1].mask
      BY <3>1 DEF InNomask
    <3>3. frames[k].unmasked => e.during = view[k + 1].during
      BY <3>1 DEF Returning
    <3>. QED BY <2>3, <3>1, <3>2, <3>3 DEF FrameOK
  <2>. QED BY <2>4, <2>5
<1>5. \A k \in 1..Len(view') : view'[k].call \in setup.calls \cup setup.nested \cup {"none"}
  BY <1>1, <1>2 DEF Calls
<1>. QED BY <1>3, <1>4, <1>5

(* In the program the mask is the one it set. *)
LEMMA ProgramMask ==
    ASSUME Inv, InProgram
    PROVE  /\ Last(view).during = Last(view).mask /\ blocked = Last(view).mask
           /\ ~Raw(regs) /\ ~Again(regs) /\ ~Returning /\ mode = "user" /\ state = "TASK_RUNNING"
           /\ MaskOK(Len(view), Last(view).mask)
<1>1. mode = "user" /\ state = "TASK_RUNNING" /\ ~Again(regs) /\ ~Returning
  BY DEF InProgram, Again
<1>2. ~Raw(regs)
  BY <1>1 DEF Inv, Calls
<1>3. Last(view).during = Last(view).mask
  BY <1>1, <1>2 DEF Inv, SuspendOK, InCall, Suspended, Raw
<1>4. blocked = Last(view).mask
  BY <1>1, <1>3 DEF Inv, InForce
<1>5. MaskOK(Len(view), Last(view).mask)
  BY Top DEF Inv, Masks
<1>. QED BY <1>1, <1>2, <1>3, <1>4, <1>5

(* The program makes a call. *)
LEMMA CallStep == ASSUME Inv, Careful(setup), NEW name \in Waiting, Call(name) PROVE Inv'
<1>1. PICK set \in (IF name = "sigsuspend" THEN setup.waits ELSE {{}}) :
          /\ regs' = [eax |-> name, ebx |-> 0, ecx |-> {}, edx |-> set, eip |-> "next"]
          /\ view' = [view EXCEPT ![Len(view)] =
                        [mask |-> view[Len(view)].mask, call |-> name, taken |-> {},
                         during |-> IF name = "sigsuspend" THEN set ELSE view[Len(view)].mask]]
  BY DEF Call
<1>2. /\ InProgram /\ name \in (IF frames = <<>> THEN setup.calls ELSE setup.nested)
      /\ mode' = "call" /\ orig_eax' = name
      /\ UNCHANGED <<setup, signal, blocked, sigaction, state, oldblocked, frames>>
  BY DEF Call, task
<1>3. Types /\ States /\ Actions /\ Calls /\ SuspendOK /\ InForce /\ Masks
  BY DEF Inv
<1>4. /\ Last(view).during = Last(view).mask /\ blocked = Last(view).mask
      /\ ~Raw(regs) /\ ~Again(regs) /\ ~Returning /\ mode = "user" /\ state = "TASK_RUNNING"
      /\ MaskOK(Len(view), Last(view).mask)
  BY <1>2, ProgramMask
<1>5. set \in SUBSET Sig /\ MaskOK(Len(view), set)
  <2>1. CASE name = "sigsuspend"
    <3>1. set \in setup.waits /\ setup.waits \in SUBSET SUBSET Sig
      BY <1>1, <1>3, <2>1, SignalsAssumption DEF Types, Setup
    <3>2. set \cap NotBlockable = {} /\ Balanced(setup, set)
      BY <3>1 DEF Careful
    <3>. QED BY <3>1, <3>2 DEF MaskOK
  <2>2. CASE name # "sigsuspend"
    <3>1. set = {}
      BY <1>1, <2>2
    <3>. QED BY <3>1 DEF MaskOK, Balanced
  <2>. QED BY <2>1, <2>2
<1> DEFINE d == IF name = "sigsuspend" THEN set ELSE Last(view).mask
           e == [mask |-> Last(view).mask, call |-> name, taken |-> {}, during |-> d]
<1>6. /\ e \in Levels /\ e.mask = Last(view).mask /\ e.during = d /\ e.call = name /\ e.taken = {}
      /\ view' = [view EXCEPT ![Len(view)] = e] /\ MaskOK(Len(view), d)
  BY <1>1, <1>3, <1>4, <1>5, Top DEF Levels
<1>7. name \in setup.calls \cup setup.nested /\ (frames = <<>> \/ setup.nested # {})
  BY <1>2
<1>8. name # "sigsuspend" => d = Last(view).mask
  OBVIOUS
<1>9. name = "sigsuspend" => d = set
  OBVIOUS
<1>. HIDE DEF e, d
<1>10. /\ Masks' /\ Stack'
       /\ \A k \in 1..Len(view') : view'[k].call \in setup.calls \cup setup.nested \cup {"none"}
  BY <1>2, <1>4, <1>6, <1>7, TopStep
<1>11. view' \in Seq(Levels) /\ Len(view') = Len(view) /\ Last(view') = e
  BY <1>3, <1>6, NewTop
<1>12. /\ regs' \in Regs /\ regs'.eax = name /\ regs'.ebx = 0 /\ regs'.edx = set /\ regs'.eip = "next"
       /\ ~Raw(regs') /\ ~Again(regs')
  BY <1>1, <1>5 DEF Regs, Raw, Again, Waiting
<1>13. Types' /\ States' /\ Actions'
  BY <1>2, <1>3, <1>4, <1>11, <1>12 DEF Types, States, Actions
<1>14. Calls'
  <2>1. Resumes(regs', e)
    BY <1>6, <1>12 DEF Resumes, Suspended, Waiting
  <2>2. frames' = frames /\ setup' = setup
    BY <1>2
  <2>3. Resumes(regs, Last(view))'
    BY <2>1, <1>11
  <2>4. regs'.eax # "ERESTARTNOINTR"
    BY <1>12 DEF Raw
  <2>5. ~Returning'
    BY <2>2, <1>4 DEF Returning
  <2>. QED BY <1>2, <1>6, <1>7, <1>10, <1>11, <1>12, <2>2, <2>3, <2>4, <2>5 DEF Calls, InCall
<1>15. SuspendOK'
  <2>1. ~HasSuspended'
    BY <1>2, <1>12 DEF HasSuspended, Raw
  <2>. QED BY <1>2, <1>6, <1>8, <1>9, <1>11, <1>12, <2>1 DEF SuspendOK, InCall
<1>16. InForce'
  <2>1. CASE name = "sigsuspend"
    BY <1>2, <1>4, <1>6, <1>11, <1>12, <2>1 DEF InForce
  <2>2. CASE name # "sigsuspend"
    BY <1>2, <1>4, <1>6, <1>8, <1>11, <1>12, <2>2 DEF InForce
  <2>. QED BY <2>1, <2>2
<1>17. Interrupts'
  BY <1>2, <1>12 DEF Interrupts
<1>. QED BY <1>10, <1>13, <1>14, <1>15, <1>16, <1>17 DEF Inv

(* A call that does not sleep and changes the top level of the program. *)
LEMMA ImmediateStep ==
    ASSUME Inv, InProgram, NEW name \in {"ssetmask", "sigaction"}, Immediate(name), NEW e \in Levels,
           view' = [view EXCEPT ![Len(view)] = e], e.call = "none", e.during = e.mask,
           MaskOK(Len(view), e.mask), blocked' = e.mask, InNomask => e.mask = Last(view).mask,
           sigaction' \in [Sig -> Action], \A sig \in Sig : ActionOK(setup, sig, sigaction'[sig])
    PROVE  Inv'
<1>1. /\ mode' = "ret" /\ orig_eax' = name /\ regs' = [regs EXCEPT !.eax = "done"]
      /\ UNCHANGED <<setup, signal, state, oldblocked, frames>>
  BY DEF Immediate
<1>2. Types /\ States /\ Actions /\ Calls
  BY DEF Inv
<1>3. /\ Last(view).during = Last(view).mask /\ blocked = Last(view).mask
      /\ ~Raw(regs) /\ ~Again(regs) /\ ~Returning /\ mode = "user" /\ state = "TASK_RUNNING"
      /\ MaskOK(Len(view), Last(view).mask)
  BY ProgramMask
<1>4. /\ Masks' /\ Stack'
      /\ \A k \in 1..Len(view') : view'[k].call \in setup.calls \cup setup.nested \cup {"none"}
  BY <1>1, <1>3, TopStep
<1>5. view' \in Seq(Levels) /\ Len(view') = Len(view) /\ Last(view') = e
  BY <1>2, NewTop
<1>6. /\ regs' \in Regs /\ regs'.eax = "done" /\ regs'.eip = regs.eip
      /\ ~Raw(regs') /\ ~Again(regs')
  BY <1>1, <1>2, <1>3 DEF Types, Regs, Results, Raw, Again
<1>7. Types'
  <2>1. blocked' \in SUBSET Sig
    BY DEF Levels
  <2>. QED BY <1>1, <1>2, <1>5, <1>6, <2>1 DEF Types
<1>8. States' /\ Actions'
  BY <1>1, <1>2, <1>3 DEF States, Actions
<1>9. Calls'
  <2>1. Resumes(regs, Last(view))'
    BY <1>5, <1>6 DEF Resumes, Suspended
  <2>2. regs'.eax # "ERESTARTNOINTR"
    BY <1>6
  <2>. QED BY <1>1, <1>4, <1>6, <2>1, <2>2 DEF Calls, InCall
<1>10. SuspendOK' /\ InForce' /\ Interrupts'
  BY <1>1, <1>5, <1>6 DEF SuspendOK, InForce, Interrupts, HasSuspended
<1>. QED BY <1>4, <1>7, <1>8, <1>9, <1>10 DEF Inv

(* ssetmask *)
LEMMA SsetmaskStep ==
    ASSUME Inv, Careful(setup), NEW m \in setup.masks, ~InNomask, sys_ssetmask(m)
    PROVE  Inv'
<1> DEFINE e == Level(m \ NotBlockable)
<1>1. /\ InProgram /\ Immediate("ssetmask") /\ blocked' = m \ NotBlockable /\ UNCHANGED sigaction
      /\ view' = [view EXCEPT ![Len(view)] = e]
  BY DEF sys_ssetmask
<1>2. m \in SUBSET Sig
  BY SignalsAssumption DEF Inv, Types, Setup
<1>3. /\ e \in Levels /\ e.call = "none" /\ e.during = e.mask /\ e.mask = m \ NotBlockable
  BY <1>2 DEF Level, Levels
<1>4. MaskOK(Len(view), m \ NotBlockable)
  BY DEF MaskOK, Careful
<1>5. sigaction' \in [Sig -> Action] /\ \A sig \in Sig : ActionOK(setup, sig, sigaction'[sig])
  BY <1>1 DEF Inv, Types, Actions
<1>. HIDE DEF e
<1>. QED BY <1>1, <1>3, <1>4, <1>5, ImmediateStep

(* sigaction and signal *)
LEMMA SigactionStep ==
    ASSUME Inv, Careful(setup), NEW c \in setup.changes, sys_sigaction(c[1], c[2])
    PROVE  Inv'
<1>1. /\ InProgram /\ c[1] \notin NotBlockable /\ Immediate("sigaction") /\ UNCHANGED blocked
      /\ sigaction' = [sigaction EXCEPT ![c[1]] = Changed(c[1], c[2])]
      /\ view' = [view EXCEPT ![Len(view)]["call"] = "none"]
  BY DEF sys_sigaction, Changed, AtTop
<1>2. Types /\ Actions
  BY DEF Inv
<1>3. /\ Last(view).during = Last(view).mask /\ blocked = Last(view).mask
      /\ MaskOK(Len(view), Last(view).mask)
  BY <1>1, ProgramMask
<1> DEFINE e == [Last(view) EXCEPT !.call = "none"]
<1>4. /\ e \in Levels /\ e.call = "none" /\ e.during = Last(view).during /\ e.mask = Last(view).mask
  BY <1>2, Top DEF Levels
<1>5. view' = [view EXCEPT ![Len(view)] = e]
  BY <1>1, <1>2, Top
<1>6. c[1] \in Sig /\ c[2] \in Action
  BY SignalsAssumption, <1>2 DEF Types, Setup
<1>7. Changed(c[1], c[2]) \in Action
  BY <1>6 DEF Changed, Action
<1>8. ActionOK(setup, c[1], Changed(c[1], c[2]))
  BY <1>1 DEF Careful
<1>9. sigaction' \in [Sig -> Action] /\ \A sig \in Sig : ActionOK(setup, sig, sigaction'[sig])
  BY <1>1, <1>2, <1>6, <1>7, <1>8 DEF Types, Actions
<1>. HIDE DEF e
<1>. QED BY <1>1, <1>3, <1>4, <1>5, <1>9, ImmediateStep

(* sigsuspend, called again, gives the old mask back. *)
LEMMA RestartsStep == ASSUME Inv, SuspendRestarts PROVE Inv'
<1>1. /\ mode = "call" /\ orig_eax = "sigsuspend" /\ regs.ebx = 1 /\ blocked' = regs.ecx
      /\ view' = [view EXCEPT ![Len(view)]["during"] = Last(view).mask]
      /\ mode' = "ret" /\ regs' = [regs EXCEPT !.eax = "EINTR"]
      /\ UNCHANGED <<setup, signal, sigaction, state, oldblocked, orig_eax, frames>>
  BY DEF SuspendRestarts, In, AtTop, Returns
<1>2. Types /\ States /\ Actions /\ Calls /\ SuspendOK /\ Masks
  BY DEF Inv
<1>3. /\ orig_eax = Last(view).call /\ ~Again(regs) /\ ~Returning
      /\ Last(view).call \in setup.calls \cup setup.nested \cup {"none"}
      /\ MaskOK(Len(view), Last(view).mask)
  BY <1>1, <1>2, Top DEF Calls, InCall, Masks
<1>4. regs.ecx = Last(view).mask
  BY <1>1, <1>2 DEF SuspendOK, HasSuspended
<1> DEFINE e == [Last(view) EXCEPT !.during = Last(view).mask]
<1>5. /\ e \in Levels /\ e.call = "sigsuspend" /\ e.during = Last(view).mask /\ e.mask = Last(view).mask
  BY <1>1, <1>2, <1>3, Top DEF Levels
<1>6. view' = [view EXCEPT ![Len(view)] = e]
  BY <1>1, <1>2, Top
<1>. HIDE DEF e
<1>7. /\ Masks' /\ Stack'
      /\ \A k \in 1..Len(view') : view'[k].call \in setup.calls \cup setup.nested \cup {"none"}
  BY <1>1, <1>3, <1>5, <1>6, TopStep
<1>8. view' \in Seq(Levels) /\ Len(view') = Len(view) /\ Last(view') = e
  BY <1>2, <1>5, <1>6, NewTop
<1>9. /\ regs' \in Regs /\ regs'.eax = "EINTR" /\ regs'.eip = regs.eip
      /\ ~Raw(regs') /\ ~Again(regs')
  BY <1>1, <1>2, <1>3 DEF Types, Regs, Results, Raw, Again
<1>10. Types'
  <2>1. blocked' \in SUBSET Sig
    BY <1>1, <1>4, <1>2, Top DEF Levels
  <2>. QED BY <1>1, <1>2, <1>8, <1>9, <2>1 DEF Types
<1>11. States' /\ Actions'
  BY <1>1, <1>2 DEF States, Actions
<1>12. Calls'
  <2>1. Resumes(regs, Last(view))'
    BY <1>5, <1>8, <1>9 DEF Resumes, Suspended
  <2>2. regs'.eax # "ERESTARTNOINTR"
    BY <1>9
  <2>. QED BY <1>1, <1>7, <1>9, <2>1, <2>2 DEF Calls, InCall
<1>13. SuspendOK' /\ InForce' /\ Interrupts'
  BY <1>1, <1>4, <1>5, <1>8, <1>9 DEF SuspendOK, InForce, Interrupts, HasSuspended
<1>. QED BY <1>7, <1>10, <1>11, <1>12, <1>13 DEF Inv

(* What a signal leaves of an interrupted call. *)
LEMMA RestartedIs ==
    ASSUME Inv, mode = "ret", NEW signr \in Sig
    PROVE  LET r == Restarted(signr) IN
           /\ r \in Regs /\ ~Raw(r)
           /\ r.ebx = regs.ebx /\ r.ecx = regs.ecx /\ r.edx = regs.edx
           /\ Again(r) => frames = <<>> \/ setup.nested # {}
           /\ Again(r) => r.eax = Last(view).call /\ Last(view).call \in Waiting
           /\ Suspended(r) => r.ebx = 1 /\ r.ecx = Last(view).mask
           /\ r.eax = "EINTR" /\ Last(view).call \in {"read", "waitpid"} =>
                 Last(view).taken # {} \/ signr < SIGCONT \/ "SA_INTERRUPT" \in sigaction[signr].sa_flags
           /\ Last(view).during # Last(view).mask => Suspended(r) \/ Returning
<1>1. Types /\ Calls /\ SuspendOK
  BY DEF Inv
<1>2. CASE orig_eax = "none" \/ ~Raw(regs)
  <2>1. Restarted(signr) = regs /\ ~Raw(regs)
    BY <1>1, <1>2 DEF Restarted, Raw, Calls, Waiting
  <2>2. Last(view).during # Last(view).mask => Suspended(regs) \/ Returning
    BY <1>1, <2>1 DEF SuspendOK, InCall, Raw
  <2>3. Resumes(regs, Last(view)) /\ (Again(regs) => frames = <<>> \/ setup.nested # {})
    BY <1>1 DEF Calls
  <2>. QED BY <1>1, <2>1, <2>2, <2>3 DEF Types, Resumes
<1>3. CASE orig_eax # "none" /\ Raw(regs)
  <2>1. /\ orig_eax = Last(view).call /\ orig_eax \in Waiting /\ ~Again(regs)
        /\ (frames = <<>> \/ setup.nested # {})
    BY <1>1, <1>3 DEF Calls
  <2>2. CASE regs.eax = "ERESTARTSYS" /\ ("SA_INTERRUPT" \in sigaction[signr].sa_flags \/ signr < SIGCONT)
    <3>1. Restarted(signr) = [regs EXCEPT !.eax = "EINTR"]
      BY <1>3, <2>2 DEF Restarted, Raw
    <3>2. /\ Restarted(signr) \in Regs /\ Restarted(signr).eax = "EINTR" /\ Restarted(signr).eip = regs.eip
          /\ Restarted(signr).ebx = regs.ebx /\ Restarted(signr).ecx = regs.ecx
          /\ Restarted(signr).edx = regs.edx
      BY <1>1, <3>1 DEF Types, Regs, Results
    <3>3. ~Raw(Restarted(signr)) /\ ~Again(Restarted(signr)) /\ ~Suspended(Restarted(signr))
      BY <2>1, <3>2 DEF Raw, Again, Suspended
    <3>4. Last(view).during # Last(view).mask => Returning
      BY <1>1, <2>1, <2>2 DEF SuspendOK, InCall, Suspended
    <3>. QED BY <2>2, <3>2, <3>3, <3>4
  <2>3. CASE ~(regs.eax = "ERESTARTSYS" /\ ("SA_INTERRUPT" \in sigaction[signr].sa_flags \/ signr < SIGCONT))
    <3>1. Restarted(signr) = [regs EXCEPT !.eax = orig_eax, !.eip = "int80"]
      BY <1>3, <2>3 DEF Restarted, Raw
    <3>2. /\ Restarted(signr) \in Regs /\ Restarted(signr).eax = orig_eax /\ Restarted(signr).eip = "int80"
          /\ Restarted(signr).ebx = regs.ebx /\ Restarted(signr).ecx = regs.ecx
          /\ Restarted(signr).edx = regs.edx
      BY <1>1, <2>1, <3>1 DEF Types, Regs
    <3>3. ~Raw(Restarted(signr)) /\ Again(Restarted(signr))
      BY <2>1, <3>2 DEF Raw, Again, Waiting
    <3>4. Last(view).during # Last(view).mask => Suspended(Restarted(signr)) \/ Returning
      BY <1>1, <1>3, <2>1, <3>2, <3>3 DEF SuspendOK, InCall, Suspended, Calls
    <3>5. orig_eax = "sigsuspend" => regs.ebx = 1 /\ regs.ecx = Last(view).mask
      <4>1. orig_eax = "sigsuspend" => regs.eax = "ERESTARTNOINTR"
        BY <1>1, <1>3 DEF Calls, Raw
      <4>. QED BY <1>1, <4>1 DEF SuspendOK, HasSuspended
    <3>6. Restarted(signr).eax # "EINTR"
      BY <2>1, <3>2 DEF Waiting
    <3>. QED BY <2>1, <3>2, <3>3, <3>4, <3>5, <3>6 DEF Suspended
  <2>. QED BY <2>2, <2>3
<1>. QED BY <1>2, <1>3

(* What the history remembers of a signal. *)
LEMMA SeenIs ==
    ASSUME Types, NEW signr \in Sig
    PROVE  \E e \in Levels :
              /\ SeenAtTop(signr) = [view EXCEPT ![Len(view)] = e]
              /\ e.mask = Last(view).mask /\ e.during = Last(view).during /\ e.call = Last(view).call
              /\ Last(view).taken # {} \/ signr < SIGCONT \/ "SA_INTERRUPT" \in sigaction[signr].sa_flags
                    => e.taken # {}
<1>1. view \in Seq(Levels) /\ Len(view) \in 1..Len(view) /\ Last(view) = view[Len(view)] /\ Last(view) \in Levels
  BY Top DEF Types
<1>2. CASE signr < SIGCONT \/ "SA_INTERRUPT" \in sigaction[signr].sa_flags
  <2> DEFINE e == [Last(view) EXCEPT !.taken = @ \cup {signr}]
  <2>1. e \in Levels /\ e.mask = Last(view).mask /\ e.during = Last(view).during /\ e.call = Last(view).call
        /\ e.taken # {}
    BY <1>1 DEF Levels
  <2>2. SeenAtTop(signr) = [view EXCEPT ![Len(view)] = e]
    BY <1>1, <1>2 DEF SeenAtTop
  <2>. HIDE DEF e
  <2>. QED BY <2>1, <2>2
<1>3. CASE ~(signr < SIGCONT \/ "SA_INTERRUPT" \in sigaction[signr].sa_flags)
  <2>1. SeenAtTop(signr) = view /\ view = [view EXCEPT ![Len(view)] = Last(view)]
    BY <1>1, <1>3 DEF SeenAtTop
  <2>. QED BY <1>1, <1>3, <2>1
<1>. QED BY <1>2, <1>3

(* do_signal takes a signal. *)
LEMMA TakenIs ==
    ASSUME Inv, NEW signr \in Sig, LooksForSignals(signr)
    PROVE  /\ mode = "ret" /\ state = "TASK_RUNNING" /\ blocked = Last(view).during
           /\ signal' \in SUBSET Sig /\ signal' \subseteq Posted(setup)
           /\ setup' = setup /\ oldblocked' = oldblocked /\ orig_eax' = orig_eax
<1>1. mode = "ret" /\ state = "TASK_RUNNING" /\ signal' = signal \ {signr}
      /\ UNCHANGED <<setup, oldblocked, orig_eax>>
  BY DEF LooksForSignals
<1>2. blocked = Last(view).during
  BY <1>1 DEF Inv, InForce
<1>. QED BY <1>1, <1>2 DEF Inv, Types, Actions

(* The signal is ignored, stops or ends the task. *)
LEMMA WithoutHandlerStep == ASSUME Inv, NEW signr \in Sig, WithoutHandler(signr) PROVE Inv'
<1>1. /\ mode = "ret" /\ state = "TASK_RUNNING" /\ blocked = Last(view).during
      /\ signal' \in SUBSET Sig /\ signal' \subseteq Posted(setup)
      /\ setup' = setup /\ oldblocked' = oldblocked /\ orig_eax' = orig_eax
  BY TakenIs DEF WithoutHandler
<1>2. /\ regs' = Restarted(signr) /\ view' = SeenAtTop(signr)
      /\ UNCHANGED <<blocked, sigaction, mode, frames>>
  BY DEF WithoutHandler
<1>3. state' \in {"TASK_RUNNING", "TASK_STOPPED", "TASK_ZOMBIE"}
  <2>1. state' = "TASK_RUNNING" \/ state' = "TASK_STOPPED" \/ state' = "TASK_ZOMBIE"
    BY DEF WithoutHandler
  <2>. QED BY <2>1
<1>4. Types /\ Actions /\ Masks /\ Calls
  BY DEF Inv
<1>5. PICK e \in Levels :
              /\ view' = [view EXCEPT ![Len(view)] = e]
              /\ e.mask = Last(view).mask /\ e.during = Last(view).during /\ e.call = Last(view).call
              /\ Last(view).taken # {} \/ signr < SIGCONT \/ "SA_INTERRUPT" \in sigaction[signr].sa_flags
                    => e.taken # {}
  BY <1>2, <1>4, SeenIs
<1>6. /\ regs' \in Regs /\ ~Raw(regs')
      /\ Again(regs') => frames = <<>> \/ setup.nested # {}
      /\ Again(regs') => regs'.eax = Last(view).call /\ Last(view).call \in Waiting
      /\ Suspended(regs') => regs'.ebx = 1 /\ regs'.ecx = Last(view).mask
      /\ regs'.eax = "EINTR" /\ Last(view).call \in {"read", "waitpid"} =>
            Last(view).taken # {} \/ signr < SIGCONT \/ "SA_INTERRUPT" \in sigaction[signr].sa_flags
      /\ Last(view).during # Last(view).mask => Suspended(regs') \/ Returning
  BY <1>1, <1>2, RestartedIs
<1>7. /\ MaskOK(Len(view), e.mask) /\ MaskOK(Len(view), e.during)
      /\ e.call \in setup.calls \cup setup.nested \cup {"none"}
  BY <1>4, <1>5, Top DEF Masks, Calls
<1>8. /\ Masks' /\ Stack'
      /\ \A k \in 1..Len(view') : view'[k].call \in setup.calls \cup setup.nested \cup {"none"}
  BY <1>1, <1>2, <1>5, <1>7, TopStep
<1>9. view' \in Seq(Levels) /\ Len(view') = Len(view) /\ Last(view') = e
  BY <1>4, <1>5, NewTop
<1>10. Types' /\ Actions'
  BY <1>1, <1>2, <1>3, <1>4, <1>6, <1>9 DEF Types, Actions
<1>11. States'
  BY <1>1, <1>2, <1>3 DEF States
<1>12. Calls'
  <2>1. Resumes(regs, Last(view))'
    BY <1>5, <1>6, <1>9 DEF Resumes
  <2>. QED BY <1>1, <1>2, <1>6, <1>8, <2>1 DEF Calls, InCall
<1>13. SuspendOK'
  BY <1>1, <1>2, <1>5, <1>6, <1>9 DEF SuspendOK, HasSuspended, Returning, Raw
<1>14. InForce' /\ Interrupts'
  BY <1>1, <1>2, <1>5, <1>6, <1>9 DEF InForce, Interrupts
<1>. QED BY <1>8, <1>10, <1>11, <1>12, <1>13, <1>14 DEF Inv

(* The handler is called: there is one more frame, and one more level. *)
LEMMA WithHandlerStep == ASSUME Inv, NEW signr \in Sig, WithHandler(signr) PROVE Inv'
<1> DEFINE sa == sigaction[signr]
           L == Level(Last(view).during \cup sa.sa_mask)
           saved == Restarted(signr)
           f == [blocked |-> blocked, nomask |-> "SA_NOMASK" \in sa.sa_flags,
                 regs |-> saved, unmasked |-> FALSE]
           n == Len(view)
<1>1. /\ mode = "ret" /\ state = "TASK_RUNNING" /\ blocked = Last(view).during
      /\ signal' \in SUBSET Sig /\ signal' \subseteq Posted(setup)
      /\ setup' = setup /\ oldblocked' = oldblocked /\ orig_eax' = orig_eax
  BY TakenIs DEF WithHandler
<1>2. /\ frames' = Append(frames, f) /\ blocked' = blocked \cup sa.sa_mask
      /\ regs' = [saved EXCEPT !.eip = "next"] /\ view' = Append(SeenAtTop(signr), L)
      /\ mode' = "user" /\ state' = state
      /\ sigaction' = [sigaction EXCEPT ![signr].sa_handler = IF "SA_ONESHOT" \in sa.sa_flags THEN "SIG_DFL" ELSE @]
  BY DEF WithHandler
<1>3. Types /\ Actions /\ Masks /\ Calls /\ Stack
  BY DEF Inv
<1>4. PICK e \in Levels :
              /\ SeenAtTop(signr) = [view EXCEPT ![Len(view)] = e]
              /\ e.mask = Last(view).mask /\ e.during = Last(view).during /\ e.call = Last(view).call
              /\ Last(view).taken # {} \/ signr < SIGCONT \/ "SA_INTERRUPT" \in sigaction[signr].sa_flags
                    => e.taken # {}
  BY <1>3, SeenIs
<1>5. /\ saved \in Regs /\ ~Raw(saved)
      /\ Again(saved) => frames = <<>> \/ setup.nested # {}
      /\ Again(saved) => saved.eax = Last(view).call /\ Last(view).call \in Waiting
      /\ Suspended(saved) => saved.ebx = 1 /\ saved.ecx = Last(view).mask
      /\ saved.eax = "EINTR" /\ Last(view).call \in {"read", "waitpid"} =>
            Last(view).taken # {} \/ signr < SIGCONT \/ "SA_INTERRUPT" \in sigaction[signr].sa_flags
      /\ Last(view).during # Last(view).mask => Suspended(saved) \/ Returning
  BY <1>1, RestartedIs
<1>6. /\ sa \in Action /\ sa.sa_mask \in SUBSET Sig /\ ActionOK(setup, signr, sa)
  BY <1>3 DEF Types, Actions, Action
<1>7. sigaction' \in [Sig -> Action] /\ \A sig \in Sig : ActionOK(setup, sig, sigaction'[sig])
  <2> DEFINE h == IF "SA_ONESHOT" \in sa.sa_flags THEN "SIG_DFL" ELSE sa.sa_handler
             a == [sa EXCEPT !.sa_handler = h]
  <2>1. sigaction' = [sigaction EXCEPT ![signr] = a]
    BY <1>2, <1>3 DEF Types
  <2>2. /\ a \in Action /\ a.sa_mask = sa.sa_mask /\ a.sa_flags = sa.sa_flags /\ a.sa_handler = h
        /\ (sa.sa_handler # "SIG_IGN" => h # "SIG_IGN")
    BY <1>6 DEF Action
  <2>3. ActionOK(setup, signr, a)
    <3>. HIDE DEF a, h, sa
    <3>. QED BY <2>2, <1>6 DEF ActionOK
  <2>. HIDE DEF a
  <2>. QED BY <1>3, <2>1, <2>2, <2>3 DEF Types, Actions
<1>8. /\ L \in Levels /\ L.mask = Last(view).during \cup sa.sa_mask /\ L.during = L.mask /\ L.call = "none"
  BY <1>3, <1>6, Top DEF Level, Levels
<1>9. /\ f \in Frames /\ f.blocked = blocked /\ f.nomask = ("SA_NOMASK" \in sa.sa_flags) /\ f.regs = saved
      /\ f.unmasked = FALSE
  BY <1>3, <1>5 DEF Frames, Types
<1>10. /\ regs' \in Regs /\ regs'.eax = saved.eax /\ regs'.eip = "next" /\ ~Raw(regs') /\ ~Again(regs')
  <2>. HIDE DEF saved
  <2>. QED BY <1>2, <1>5 DEF Regs, Raw, Again
<1>. HIDE DEF f, L, saved
<1>11. /\ view \in Seq(Levels) /\ n \in 1..n /\ n \in Nat /\ Len(frames) + 1 = n /\ Len(frames) \in Nat
       /\ frames \in Seq(Frames)
  BY <1>3, Top DEF Types
<1>12. /\ view' \in Seq(Levels) /\ Len(view') = n + 1 /\ view'[n + 1] = L /\ view'[n] = e
       /\ \A k \in 1..(n - 1) : view'[k] = view[k]
  <2>1. [view EXCEPT ![n] = e] \in Seq(Levels) /\ Len([view EXCEPT ![n] = e]) = n
    BY <1>11
  <2>. QED BY <1>2, <1>4, <1>8, <1>11, <2>1
<1>13. /\ frames' \in Seq(Frames) /\ Len(frames') = n /\ frames'[n] = f
       /\ \A k \in 1..(n - 1) : frames'[k] = frames[k]
  BY <1>2, <1>9, <1>11
<1>14. Last(view') = L /\ Last(frames') = f
  BY <1>11, <1>12, <1>13 DEF Last
<1>15. Types'
  BY <1>1, <1>2, <1>3, <1>6, <1>7, <1>10, <1>11, <1>12, <1>13 DEF Types
<1>16. States' /\ Actions'
  BY <1>1, <1>2, <1>7 DEF States, Actions
<1>17. Masks'
  <2>1. MaskOK(n + 1, L.mask)
    <3>1. MaskOK(n, Last(view).during)
      BY <1>3, <1>11, Top DEF Masks
    <3>2. L.mask \cap NotBlockable = {}
      BY <1>6, <1>8, <3>1 DEF MaskOK, ActionOK
    <3>3. setup.nested # {} => Balanced(setup, L.mask)
      BY <1>6, <1>8, <3>1 DEF MaskOK, ActionOK, Balanced
    <3>. QED BY <1>11, <3>2, <3>3 DEF MaskOK
  <2>2. ASSUME NEW k \in 1..(n + 1) PROVE MaskOK(k, view'[k].mask) /\ MaskOK(k, view'[k].during)
    <3>1. CASE k = n + 1
      BY <1>8, <1>12, <2>1, <3>1
    <3>2. CASE k = n
      BY <1>3, <1>4, <1>11, <1>12, <3>2, Top DEF Masks
    <3>3. CASE k \in 1..(n - 1)
      BY <1>3, <1>11, <1>12, <3>3 DEF Masks
    <3>. QED BY <1>11, <3>1, <3>2, <3>3
  <2>. QED BY <1>1, <1>12, <2>2 DEF Masks, MaskOK
<1>18. Stack'
  <2>1. SUFFICES ASSUME NEW k \in 1..n PROVE FrameOK(k)'
    BY <1>13 DEF Stack
  <2>2. CASE k \in 1..(n - 1)
    <3>1. FrameOK(k)
      BY <1>3, <1>11, <2>2 DEF Stack
    <3>2. view'[k] = view[k] /\ frames'[k] = frames[k] /\ (k > 1 => frames'[k - 1] = frames[k - 1])
      <4>1. k > 1 => k - 1 \in 1..(n - 1)
        BY <1>11, <2>2
      <4>. HIDE DEF n
      <4>. QED BY <1>12, <1>13, <2>2, <4>1
    <3>3. view'[k + 1].mask = view[k + 1].mask /\ view'[k + 1].during = view[k + 1].during
      <4>1. CASE k = n - 1
        BY <1>3, <1>4, <1>11, <1>12, <4>1, Top
      <4>2. CASE k # n - 1
        BY <1>11, <1>12, <2>2, <4>2
      <4>. QED BY <4>1, <4>2
    <3>. QED BY <1>1, <3>1, <3>2, <3>3 DEF FrameOK
  <2>3. CASE k = n
    <3>1. Resumes(saved, e)
      BY <1>4, <1>5 DEF Resumes
    <3>2. Again(saved) => n = 1 \/ setup.nested # {}
      BY <1>3, <1>5, <1>11, Top
    <3>3. e.during # e.mask => Suspended(saved) \/ (n > 1 /\ frames'[n - 1].unmasked)
      <4>1. Returning => n > 1 /\ frames'[n - 1].unmasked
        BY <1>3, <1>11, <1>13, Top DEF Returning
      <4>. QED BY <1>4, <1>5, <4>1
    <3>4. f.nomask => L.mask = e.during
      BY <1>4, <1>6, <1>8, <1>9 DEF ActionOK
    <3>5. f.blocked = e.during
      BY <1>1, <1>4, <1>9
    <3>. QED BY <1>1, <1>5, <1>9, <1>12, <1>13, <2>3, <3>1, <3>2, <3>3, <3>4, <3>5 DEF FrameOK
  <2>. QED BY <1>11, <2>2, <2>3
<1>19. Calls'
  <2>1. Resumes(regs, Last(view))'
    BY <1>8, <1>10, <1>14 DEF Resumes, Suspended
  <2>2. ASSUME NEW k \in 1..(n + 1)
        PROVE  view'[k].call \in setup.calls \cup setup.nested \cup {"none"}
    <3>1. CASE k = n + 1
      BY <1>8, <1>12, <3>1
    <3>2. CASE k = n
      BY <1>3, <1>4, <1>11, <1>12, <3>2, Top DEF Calls
    <3>3. CASE k \in 1..(n - 1)
      BY <1>3, <1>11, <1>12, <3>3 DEF Calls
    <3>. QED BY <1>11, <3>1, <3>2, <3>3
  <2>. QED BY <1>1, <1>2, <1>10, <1>12, <2>1, <2>2 DEF Calls, InCall
<1>20. SuspendOK'
  BY <1>2, <1>8, <1>10, <1>14 DEF SuspendOK, HasSuspended, Raw
<1>21. InForce' /\ Interrupts'
  BY <1>1, <1>2, <1>8, <1>10, <1>14 DEF InForce, Interrupts
<1>. QED BY <1>15, <1>16, <1>17, <1>18, <1>19, <1>20, <1>21 DEF Inv

(* The frame above one that is not the last. *)
LEMMA Above ==
    ASSUME NEW a \in Nat, NEW b \in 1..a, b # a
    PROVE  b + 1 \in 1..(a + 1) /\ b + 1 # a + 1
<1>1. b \in Int /\ 1 <= b /\ b <= a
  OBVIOUS
<1>2. b + 1 # a + 1
  BY <1>1
<1>. QED BY <1>1, <1>2

(* The sequence without its last element. *)
LEMMA BelowIs ==
    ASSUME NEW S, NEW s \in Seq(S), s # <<>>
    PROVE  /\ Below(s) \in Seq(S) /\ Len(Below(s)) = Len(s) - 1
           /\ \A k \in 1..(Len(s) - 1) : Below(s)[k] = s[k]
<1>1. Len(s) \in Nat /\ Len(s) > 0
  OBVIOUS
<1>2. 1 \in Int /\ Len(s) - 1 \in Int /\ \A i \in 1..(Len(s) - 1) : s[i] \in S
  BY <1>1
<1>3. /\ Below(s) \in Seq(S) /\ Len(Below(s)) = IF 1 <= Len(s) - 1 THEN (Len(s) - 1) - 1 + 1 ELSE 0
      /\ \A k \in 1..((Len(s) - 1) - 1 + 1) : Below(s)[k] = s[1 + k - 1]
  BY <1>2, SubSeqProperties DEF Below
<1>4. (Len(s) - 1) - 1 + 1 = Len(s) - 1 /\ \A k \in 1..(Len(s) - 1) : 1 + k - 1 = k
  BY <1>1
<1>5. Len(Below(s)) = Len(s) - 1
  <2>1. CASE 1 <= Len(s) - 1
    BY <1>3, <1>4, <2>1
  <2>2. CASE ~(1 <= Len(s) - 1)
    <3>1. ASSUME NEW c \in Nat, c > 0, ~(1 <= c - 1) PROVE c - 1 = 0
      BY <3>1
    <3>2. Len(s) - 1 = 0
      BY <1>1, <2>2, <3>1
    <3>. QED BY <1>3, <2>2, <3>2
  <2>. QED BY <2>1, <2>2
<1>. QED BY <1>3, <1>4, <1>5

(* The restorer gives the mask back. *)
LEMMA RestoreStep == ASSUME Inv, RestoreMask PROVE Inv'
<1> DEFINE n == Len(view)
           m == Len(frames)
<1>1. /\ InProgram /\ frames # <<>> /\ ~Last(frames).nomask
      /\ blocked' = Last(frames).blocked \ NotBlockable
      /\ frames' = [frames EXCEPT ![m].unmasked = TRUE]
      /\ view' = [view EXCEPT ![n]["during"] = view[n - 1].during]
      /\ mode' = "ret" /\ orig_eax' = "ssetmask"
      /\ UNCHANGED <<setup, signal, sigaction, state, oldblocked, regs>>
  BY DEF RestoreMask, AtTop
<1>2. Types /\ States /\ Actions /\ Masks /\ Stack /\ Calls
  BY DEF Inv
<1>3. /\ ~Raw(regs) /\ ~Again(regs) /\ ~Returning /\ mode = "user" /\ state = "TASK_RUNNING"
  BY <1>1, ProgramMask
<1>4. /\ view \in Seq(Levels) /\ frames \in Seq(Frames) /\ n = m + 1 /\ m \in Nat /\ m > 0
      /\ Last(frames) = frames[m] /\ Last(view) = view[n] /\ n \in 1..n /\ m \in 1..n /\ m \in 1..m
      /\ n - 1 = m
  BY <1>1, <1>2, Top DEF Types
<1> DEFINE e == [Last(view) EXCEPT !.during = view[m].during]
           f == [frames[m] EXCEPT !.unmasked = TRUE]
<1>5. /\ e \in Levels /\ e.during = view[m].during /\ e.mask = Last(view).mask
      /\ e.call = Last(view).call /\ e.taken = Last(view).taken
  <2>1. view[m] \in Levels /\ Last(view) \in Levels
    BY <1>4
  <2>. QED BY <2>1 DEF Levels
<1>6. /\ f \in Frames /\ f.unmasked = TRUE /\ f.nomask = frames[m].nomask /\ f.blocked = frames[m].blocked
      /\ f.regs = frames[m].regs
  <2>1. frames[m] \in Frames
    BY <1>4
  <2>. QED BY <2>1 DEF Frames
<1>7. view' = [view EXCEPT ![n] = e] /\ frames' = [frames EXCEPT ![m] = f]
  BY <1>1, <1>4
<1>. HIDE DEF e, f
<1>8. /\ view' \in Seq(Levels) /\ Len(view') = n /\ view'[n] = e /\ Last(view') = e
      /\ \A k \in 1..n : k # n => view'[k] = view[k]
  BY <1>2, <1>5, <1>7, NewTop
<1>9. /\ frames' \in Seq(Frames) /\ Len(frames') = m /\ frames'[m] = f
      /\ \A k \in 1..m : k # m => frames'[k] = frames[k]
  BY <1>4, <1>6, <1>7
<1>10. FrameOK(m) /\ Last(frames).blocked = view[m].during
  BY <1>1, <1>2, <1>4 DEF Stack, FrameOK
<1>11. MaskOK(m, view[m].during) /\ MaskOK(n, e.during)
  <2>1. MaskOK(m, view[m].during)
    BY <1>2, <1>4 DEF Masks
  <2>. QED BY <1>4, <1>5, <2>1 DEF MaskOK
<1>12. blocked' = e.during
  BY <1>1, <1>5, <1>10, <1>11 DEF MaskOK
<1>13. Types'
  <2>1. blocked' \in SUBSET Sig
    BY <1>5, <1>12 DEF Levels
  <2>. QED BY <1>1, <1>2, <1>4, <1>8, <1>9, <2>1 DEF Types
<1>14. States' /\ Actions'
  BY <1>1, <1>2, <1>3 DEF States, Actions
<1>15. Masks'
  <2>1. ASSUME NEW k \in 1..n PROVE MaskOK(k, view'[k].mask) /\ MaskOK(k, view'[k].during)
    BY <1>2, <1>4, <1>5, <1>8, <1>11 DEF Masks
  <2>. QED BY <1>1, <1>8, <2>1 DEF Masks, MaskOK
<1>16. Stack'
  <2>1. SUFFICES ASSUME NEW k \in 1..m PROVE FrameOK(k)'
    BY <1>9 DEF Stack
  <2>2. FrameOK(k) /\ k \in 1..n /\ k # n /\ view'[k] = view[k]
    BY <1>2, <1>4, <1>8 DEF Stack
  <2>3. k > 1 => frames'[k - 1] = frames[k - 1]
    <3>1. k > 1 => k - 1 \in 1..m /\ k - 1 # m
      BY <1>4
    <3>. HIDE DEF m
    <3>. QED BY <1>9, <3>1
  <2>4. CASE k = m
    <3>1. view'[k + 1] = e
      BY <1>4, <1>8, <2>4
    <3>. QED BY <1>1, <1>4, <1>5, <1>6, <1>9, <2>2, <2>3, <2>4, <3>1 DEF FrameOK
  <2>5. CASE k # m
    <3>1. view'[k + 1] = view[k + 1]
      <4>2. m \in Nat /\ n = m + 1
        BY <1>4
      <4>3. k + 1 \in 1..n /\ k + 1 # n
        <5>. HIDE DEF n, m
        <5>. QED BY <2>5, <4>2, Above
      <4>. HIDE DEF n
      <4>. QED BY <1>8, <4>3
    <3>. QED BY <1>1, <1>9, <2>2, <2>3, <2>5, <3>1 DEF FrameOK
  <2>. QED BY <2>4, <2>5
<1>17. Calls'
  <2>1. Resumes(regs, Last(view))'
    BY <1>1, <1>2, <1>3, <1>5, <1>8 DEF Resumes, Suspended, Calls
  <2>2. \A k \in 1..n : view'[k].call \in setup.calls \cup setup.nested \cup {"none"}
    BY <1>2, <1>4, <1>5, <1>8 DEF Calls
  <2>. QED BY <1>1, <1>3, <1>8, <2>1, <2>2 DEF Calls, InCall
<1>18. SuspendOK'
  <2>1. Returning'
    <3>1. frames' # <<>> /\ Last(frames') = f
      <4>1. Len(frames') > 0
        BY <1>4, <1>9
      <4>2. frames' # <<>>
        BY <4>1
      <4>. QED BY <1>9, <4>2 DEF Last
    <3>. QED BY <1>6, <3>1 DEF Returning
  <2>. QED BY <1>1, <1>3, <2>1 DEF SuspendOK, HasSuspended, Raw
<1>19. InForce' /\ Interrupts'
  BY <1>1, <1>3, <1>8, <1>12 DEF InForce, Interrupts
<1>. QED BY <1>13, <1>14, <1>15, <1>16, <1>17, <1>18, <1>19 DEF Inv

(* The frame is popped: what was interrupted goes on. *)
LEMMA PopStep == ASSUME Inv, PopFrame PROVE Inv'
<1> DEFINE n == Len(view)
           m == Len(frames)
<1>1. /\ mode = "user" /\ frames # <<>> /\ (Returning \/ (InProgram /\ Last(frames).nomask))
      /\ regs' = Last(frames).regs /\ frames' = Below(frames) /\ view' = Below(view)
      /\ UNCHANGED <<setup, signal, blocked, sigaction, state, oldblocked, mode, orig_eax>>
  BY DEF PopFrame, task
<1>2. Types /\ States /\ Actions /\ Masks /\ Stack /\ Calls /\ InForce
  BY DEF Inv
<1>3. /\ view \in Seq(Levels) /\ frames \in Seq(Frames) /\ n = m + 1 /\ m \in Nat /\ m > 0
      /\ Last(frames) = frames[m] /\ Last(view) = view[n] /\ m \in 1..m /\ m \in 1..n
  BY <1>1, <1>2, Top DEF Types
<1>4. /\ view' \in Seq(Levels) /\ Len(view') = m /\ \A k \in 1..m : view'[k] = view[k]
  <2>1. view # <<>> /\ n - 1 = m
    BY <1>3
  <2>2. /\ Below(view) \in Seq(Levels) /\ Len(Below(view)) = n - 1
        /\ \A k \in 1..(n - 1) : Below(view)[k] = view[k]
    BY <1>3, <2>1, BelowIs
  <2>. QED BY <1>1, <2>1, <2>2
<1>5. /\ frames' \in Seq(Frames) /\ Len(frames') = m - 1 /\ \A k \in 1..(m - 1) : frames'[k] = frames[k]
  BY <1>1, <1>3, BelowIs
<1>6. Last(view') = view[m]
  BY <1>3, <1>4 DEF Last
<1>7. FrameOK(m)
  BY <1>2, <1>3 DEF Stack
<1>8. blocked = view[m].during
  <2>1. blocked = Last(view).during
    BY <1>1, <1>2 DEF InForce
  <2>2. CASE Returning
    <3>1. Last(frames).unmasked
      BY <2>2 DEF Returning
    <3>. QED BY <1>3, <1>7, <2>1, <3>1 DEF FrameOK
  <2>3. CASE InProgram /\ Last(frames).nomask
    <3>1. Last(view).during = Last(view).mask
      BY <2>3, ProgramMask
    <3>. QED BY <1>3, <1>7, <2>1, <2>3, <3>1 DEF FrameOK
  <2>. QED BY <1>1, <2>2, <2>3
<1>9. /\ regs' = frames[m].regs /\ regs' \in Regs /\ ~Raw(regs') /\ Resumes(regs', view[m])
      /\ Again(regs') => m = 1 \/ setup.nested # {}
      /\ view[m].during # view[m].mask => Suspended(regs') \/ (m > 1 /\ frames[m - 1].unmasked)
  <2>1. frames[m] \in Frames
    BY <1>3
  <2>. QED BY <1>1, <1>3, <1>7, <2>1 DEF FrameOK, Frames
<1>10. Types' /\ States' /\ Actions'
  <2>1. Len(view') = Len(frames') + 1
    BY <1>3, <1>4, <1>5
  <2>. QED BY <1>1, <1>2, <1>4, <1>5, <1>9, <2>1 DEF Types, States, Actions
<1>11. Masks'
  <2>1. ASSUME NEW k \in 1..m PROVE MaskOK(k, view'[k].mask) /\ MaskOK(k, view'[k].during)
    BY <1>2, <1>3, <1>4 DEF Masks
  <2>. QED BY <1>1, <1>4, <2>1 DEF Masks, MaskOK
<1>12. Stack'
  <2>1. SUFFICES ASSUME NEW k \in 1..(m - 1) PROVE FrameOK(k)'
    BY <1>5 DEF Stack
  <2>2. FrameOK(k) /\ view'[k] = view[k] /\ view'[k + 1] = view[k + 1] /\ frames'[k] = frames[k]
    <3>1. k \in 1..m /\ k + 1 \in 1..m
      BY <1>3
    <3>2. FrameOK(k)
      BY <1>2, <3>1 DEF Stack
    <3>. HIDE DEF m
    <3>. QED BY <1>4, <1>5, <3>1, <3>2
  <2>3. k > 1 => frames'[k - 1] = frames[k - 1]
    <3>1. k > 1 => k - 1 \in 1..(m - 1)
      BY <1>3
    <3>. HIDE DEF m
    <3>. QED BY <1>5, <3>1
  <2>. QED BY <1>1, <2>2, <2>3 DEF FrameOK
<1>13. m = 1 => frames' = <<>>
  BY <1>5
<1>14. Calls'
  <2>1. Resumes(regs, Last(view))'
    BY <1>6, <1>9
  <2>2. \A k \in 1..m : view'[k].call \in setup.calls \cup setup.nested \cup {"none"}
    BY <1>2, <1>3, <1>4 DEF Calls
  <2>. QED BY <1>1, <1>4, <1>9, <1>13, <2>1, <2>2 DEF Calls, InCall
<1>15. SuspendOK'
  <2>1. m > 1 /\ frames[m - 1].unmasked => Returning'
    <3>1. m > 1 => frames' # <<>> /\ Last(frames') = frames[m - 1]
      BY <1>3, <1>5 DEF Last
    <3>. QED BY <3>1 DEF Returning
  <2>2. ~HasSuspended'
    BY <1>1, <1>9 DEF HasSuspended, Raw
  <2>. QED BY <1>1, <1>6, <1>9, <2>1, <2>2 DEF SuspendOK
<1>16. InForce' /\ Interrupts'
  BY <1>1, <1>6, <1>8, <1>9 DEF InForce, Interrupts
<1>. QED BY <1>10, <1>11, <1>12, <1>14, <1>15, <1>16 DEF Inv

-----------------------------------------------------------------------------
(* A program starts with nothing blocked and nothing on its stack. *)
LEMMA InvInit == ASSUME \A s \in Setups : Careful(s), Init PROVE Inv
<1>1. /\ setup \in Setups /\ Careful(setup) /\ setup \in Setup /\ signal = {} /\ blocked = {} /\ oldblocked = {}
      /\ sigaction = setup.actions /\ state = "TASK_RUNNING" /\ mode = "user" /\ orig_eax = "none"
      /\ regs = [eax |-> "done", ebx |-> 0, ecx |-> {}, edx |-> {}, eip |-> "next"]
      /\ frames = <<>> /\ view = <<Level({})>>
  BY SignalsAssumption DEF Init
<1>2. /\ regs \in Regs /\ ~Raw(regs) /\ ~Again(regs) /\ regs.eax = "done"
  BY <1>1 DEF Regs, Results, Raw, Again
<1>3. /\ Level({}) \in Levels /\ Level({}).mask = {} /\ Level({}).during = {} /\ Level({}).call = "none"
  BY DEF Level, Levels
<1>4. /\ view \in Seq(Levels) /\ Len(view) = 1 /\ view[1] = Level({}) /\ Last(view) = Level({})
      /\ Len(frames) = 0 /\ frames \in Seq(Frames)
  BY <1>1, <1>3 DEF Last
<1>5. Types
  BY <1>1, <1>2, <1>4 DEF Types, Setup
<1>6. States /\ Actions
  BY <1>1 DEF States, Actions, Careful
<1>7. Masks
  BY <1>3, <1>4 DEF Masks, MaskOK, Balanced
<1>8. Stack
  BY <1>4 DEF Stack
<1>9. Calls
  <2>1. Resumes(regs, Last(view))
    BY <1>2 DEF Resumes, Suspended
  <2>. QED BY <1>1, <1>2, <1>3, <1>4, <2>1 DEF Calls, InCall
<1>10. SuspendOK /\ InForce /\ Interrupts
  BY <1>1, <1>2, <1>3, <1>4 DEF SuspendOK, InForce, Interrupts, HasSuspended
<1>. QED BY <1>5, <1>6, <1>7, <1>8, <1>9, <1>10 DEF Inv

(* One step of the task, of its handlers or of the others. *)
LEMMA InvStep == ASSUME Inv, \A s \in Setups : Careful(s), [Next]_vars PROVE Inv'
<1>1. Careful(setup)
  BY DEF Inv, Types
<1>2. CASE KernelStep
  BY <1>2, ReadStep, TtyStep, WaitStep, PauseStep, DoneStep, SuspendStep, SuspendEndsStep,
     RestartsStep, WithoutHandlerStep, WithHandlerStep, UserStep DEF KernelStep
<1>3. CASE ProgramStep
  BY <1>1, <1>3, CallStep, SsetmaskStep, SigactionStep, EnterStep, RestoreStep, PopStep DEF ProgramStep
<1>4. CASE ReadData \/ TtyForeground \/ WaitFinds
  BY <1>4, DoneStep
<1>5. CASE Interrupt \/ ScheduleWakes \/ WakeReader
  BY <1>5, EnterStep, WakeStep
<1>6. CASE \E sig \in Sig : Post(sig)
  BY <1>6, PostStep
<1>7. CASE ChildChanges
  BY <1>7, ChildStep
<1>8. CASE UNCHANGED vars
  <2>1. UNCHANGED <<setup, signal, blocked, sigaction, state, oldblocked, mode, orig_eax, regs, frames, view>>
    BY <1>8 DEF vars, task
  <2>2. Types' /\ States' /\ signal' \subseteq Posted(setup)
    BY <2>1 DEF Inv, Types, States, Actions
  <2>3. Calls' /\ SuspendOK' /\ InForce' /\ Interrupts'
    BY <2>1 DEF Inv, Calls, SuspendOK, InForce, Interrupts, HasSuspended, InCall, Returning, Deliverable
  <2>. QED BY <2>1, <2>2, <2>3, Quiet DEF Inv
<1>. QED BY <1>2, <1>3, <1>4, <1>5, <1>6, <1>7, <1>8 DEF Next

(* The invariant has the two properties. *)
LEMMA InvImplies == Inv => MaskKept /\ CallsGoOn
<1>1. SUFFICES ASSUME Inv PROVE MaskKept /\ CallsGoOn
  OBVIOUS
<1>2. Types /\ Calls /\ InForce
  BY <1>1 DEF Inv
<1>3. TypeOK
  BY <1>2 DEF Types, TypeOK
<1>4. mode = "user" => blocked = Last(view).during
  BY <1>2 DEF InForce
<1>5. NoRawRestart
  BY <1>2 DEF Calls, NoRawRestart, Raw
<1>6. regs.eax = "EINTR" /\ Last(view).call \in {"read", "waitpid"} => Last(view).taken # {}
  BY <1>2 DEF Calls, Resumes
<1>. QED BY <1>3, <1>4, <1>5, <1>6 DEF MaskKept, CallsGoOn

(* For all programs that keep to the rules, handlers that nest to any      *)
(* depth and signals that come at any time: the program and its handlers   *)
(* run with the masks they have to expect.                                 *)
THEOREM MasksAreKept == ASSUME \A s \in Setups : Careful(s) PROVE Spec => []MaskKept
<1>1. Init => Inv
  BY InvInit
<1>2. Inv /\ [Next]_vars => Inv'
  BY InvStep
<1>. QED BY <1>1, <1>2, InvImplies, PTL DEF Spec

(* For the same programs: no call comes back with a number that is meant   *)
(* for do_signal, and a read or waitpid fails with EINTR only for a signal *)
(* that may interrupt it.                                                  *)
THEOREM CallsAreResumed == ASSUME \A s \in Setups : Careful(s) PROVE Spec => []CallsGoOn
<1>1. Init => Inv
  BY InvInit
<1>2. Inv /\ [Next]_vars => Inv'
  BY InvStep
<1>. QED BY <1>1, <1>2, InvImplies, PTL DEF Spec
=============================================================================
