------------------------------- MODULE Floppy -------------------------------
(***************************************************************************)
(* The floppy driver (kernel/blk_drv/floppy.c, with its part of sched.c:   *)
(* the motors and do_floppy_timer; floppy_interrupt of sys_call.s).  One   *)
(* request after the other: start the motor, select the drive, seek,       *)
(* transfer; recalibrate or reset the controller when something is wrong.  *)
(* Tasks in floppy_change want drives of their own meanwhile.              *)
(*                                                                         *)
(* A task calls do_fd_request with interrupts on, and floppy_interrupt is  *)
(* entered through a trap gate: outer is the function such a call has come *)
(* to.  call is what runs on top of it, a timer function or a second       *)
(* interrupt, which is not interrupted itself.  "" is none.                *)
(*                                                                         *)
(* The controller is external: what it does, it does with the drive        *)
(* current_DOR selects, and it finds only the track its head is on.  A     *)
(* command takes less time than a motor runs on after floppy_off (3        *)
(* seconds).  It does not interrupt astray while the bytes of a command    *)
(* are sent to it, or an answer of its waits to be read.                   *)
(***************************************************************************)
EXTENDS Naturals, Sequences

CONSTANTS Drives,
          LastTrack,   \* of every diskette; requests beyond it are refused
          MAX_ERRORS,
          Changers,    \* tasks that call floppy_change
          SpinTicks,   \* HZ/2, until a motor is up to speed
          Setups       \* what a behaviour is about: records of
                       \*   queue:   requests in the queue
                       \*   used:    the drives the requests are for
                       \*   faults:  failures of the controller that no request counts
                       \*   watched: the drives floppy_change is called for
                       \*   late:    may requests come while the driver works for none?

VARIABLES setup,
          queue,          \* CURRENT and the requests that follow it
          do_floppy,      \* the handler of the next interrupt, "none" for NULL
          recalibrate, reset, seek,
          current_drive, current_track,
          selected,
          current_DOR,    \* the drive it selects, and the motors that are on
          mon_timer,      \* ticks until a motor is up to speed
          moff_timer,     \* how long it still runs: "long" (100 s), "short" (3 s)
          timer,          \* the timer of the driver, "none" or a function and its ticks
          clock,          \* has do_timer still to call do_floppy_timer?
          outer, call,
          fdc,            \* the controller: what it does, or how that ended
          heads,          \* the track the head of each drive is on
          faults,         \* counts up to setup.faults
          task            \* where a task is in floppy_change, and its drive

vars == <<setup, queue, do_floppy, recalibrate, reset, seek, current_drive, current_track, selected,
          current_DOR, mon_timer, moff_timer, timer, clock, outer, call, fdc, heads, faults, task>>
flags == <<recalibrate, reset, seek, current_drive, current_track>>
motors == <<current_DOR, mon_timer, moff_timer>>
hardware == <<fdc, heads, faults>>
running == <<outer, call>>

Unknown == LastTrack + 1   \* current_track = 255
NoTimer == [run |-> "none", ticks |-> 0]
Idle == [op |-> "none", track |-> 0, irq |-> FALSE, result |-> "good"]

Current == Head(queue)
Running(function) == IF call # "" \/ clock THEN call = function ELSE outer = function
GoOn(function) == IF call # "" THEN call' = function /\ UNCHANGED outer
                               ELSE outer' = function /\ UNCHANGED call

(* floppy_on_interrupt called by add_timer, which has done cli().          *)
Interruptible == call = "" /\ outer \notin {"floppy_on_interrupt", "transfer"}
InTask == call = "" /\ outer = "" /\ ~clock

Init ==
    /\ setup \in Setups
    /\ queue = <<>>
    /\ do_floppy = "none"
    /\ recalibrate = FALSE /\ reset = FALSE /\ seek = FALSE
    /\ current_drive = 0
    /\ current_track = Unknown
    /\ selected = FALSE
    /\ current_DOR = [drive |-> 0, on |-> {}]
    /\ mon_timer = [d \in Drives |-> 0]
    /\ moff_timer = [d \in Drives |-> "short"]
    /\ timer = NoTimer
    /\ clock = FALSE
    /\ outer = "" /\ call = ""
    /\ fdc = Idle
    /\ heads = [d \in Drives |-> LastTrack]
    /\ faults = 0
    /\ task = [t \in Changers |-> [at |-> "out", nr |-> 0]]

-----------------------------------------------------------------------------
(* ticks_to_floppy_on(nr); a drive is selected only if none is in use.     *)
TicksToFloppyOn(nr) ==
    LET mask == [drive |-> IF selected THEN current_DOR.drive ELSE nr,
                 on    |-> current_DOR.on \cup {nr}]
    IN
    /\ current_DOR' = mask
    /\ moff_timer' = [moff_timer EXCEPT ![nr] = "long"]
    /\ mon_timer' = [mon_timer EXCEPT ![nr] =
           IF mask.on # current_DOR.on THEN SpinTicks
           ELSE IF mask # current_DOR /\ @ < 2 THEN 2 ELSE @]

FloppyOff(nr) == moff_timer' = [moff_timer EXCEPT ![nr] = "short"]

WakeUp(place, back) ==
    task' = [t \in Changers |->
                 IF task[t].at = place THEN [task[t] EXCEPT !.at = back] ELSE task[t]]

(* floppy_deselect, and end_request for q, the queue as it is by then.     *)
DeselectAndEnd(q) ==
    /\ selected' = FALSE
    /\ WakeUp("sleeps for the drive", "checks")
    /\ FloppyOff(Head(q).drive)
    /\ queue' = Tail(q)

(* output_byte, for all bytes of a command: the controller takes them, or  *)
(* it does not and is to be reset; until then nothing is sent any more.    *)
Sends(ok) ==
    /\ ok => ~reset
    /\ reset' = ~ok
    /\ IF ok \/ reset THEN UNCHANGED faults
                      ELSE faults < setup.faults /\ faults' = faults + 1

Command(ok, op, track, handler) ==
    /\ Sends(ok)
    /\ fdc' = IF ok THEN [op |-> op, track |-> track, irq |-> FALSE, result |-> "good"] ELSE fdc
    /\ do_floppy' = handler
    /\ GoOn(IF ok THEN "" ELSE "do_fd_request")

(* result(): "silent" when there is no answer, or none is asked for.       *)
Result == IF reset THEN "silent" ELSE fdc.result

(* do_fd_request: the flags first.                                         *)
ResetFloppy ==
    /\ Running("do_fd_request")
    /\ reset
    /\ reset' = FALSE /\ recalibrate' = TRUE /\ seek' = FALSE
    /\ do_floppy' = "reset_interrupt"
    /\ fdc' = [Idle EXCEPT !.op = "reset"]
    /\ GoOn("")
    /\ UNCHANGED <<setup, queue, current_drive, current_track, selected, motors, timer, clock,
                   heads, faults, task>>

RecalibrateFloppy(ok) ==
    /\ Running("do_fd_request")
    /\ ~reset /\ recalibrate
    /\ recalibrate' = FALSE /\ seek' = FALSE
    /\ current_track' = 0
    /\ Command(ok, "seek", 0, "recal_interrupt")
    /\ UNCHANGED <<setup, queue, current_drive, selected, motors, timer, clock, heads, task>>

(* "repeat" is where it goes on after a request that was refused: the      *)
(* flags are not looked at again, and seek keeps its value.                *)
AtRequest == \/ Running("repeat")
             \/ Running("do_fd_request") /\ ~reset /\ ~recalibrate
SeekSoFar == IF Running("repeat") THEN seek ELSE FALSE

NoRequest ==
    /\ AtRequest
    /\ queue = <<>>
    /\ seek' = SeekSoFar
    /\ do_floppy' = "none"
    /\ GoOn("")
    /\ UNCHANGED <<setup, queue, recalibrate, reset, current_drive, current_track, selected, motors,
                   timer, clock, hardware, task>>

RefuseRequest ==
    /\ AtRequest
    /\ queue # <<>>
    /\ Current.track > LastTrack
    /\ seek' = (SeekSoFar \/ current_drive # Current.drive)
    /\ current_drive' = Current.drive
    /\ FloppyOff(Current.drive)
    /\ queue' = Tail(queue)
    /\ GoOn("repeat")
    /\ UNCHANGED <<setup, do_floppy, recalibrate, reset, current_track, selected, current_DOR,
                   mon_timer, timer, clock, hardware, task>>

StartRequest ==
    /\ AtRequest
    /\ queue # <<>>
    /\ Current.track <= LastTrack
    /\ seek' = (SeekSoFar \/ current_drive # Current.drive \/ current_track # Current.track)
    /\ current_drive' = Current.drive
    /\ TicksToFloppyOn(Current.drive)
    /\ IF mon_timer'[Current.drive] = 0
       THEN GoOn("floppy_on_interrupt") /\ UNCHANGED timer
       ELSE /\ timer' = [run |-> "floppy_on_interrupt", ticks |-> mon_timer'[Current.drive]]
            /\ GoOn("")
    /\ UNCHANGED <<setup, queue, do_floppy, recalibrate, reset, current_track, selected, clock,
                   hardware, task>>

-----------------------------------------------------------------------------
(* The functions of the timer.                                             *)
FloppyOnInterrupt ==
    /\ Running("floppy_on_interrupt")
    /\ selected' = TRUE
    /\ current_DOR' = [current_DOR EXCEPT !.drive = current_drive]
    /\ IF current_drive # current_DOR.drive
       THEN timer' = [run |-> "transfer", ticks |-> 2] /\ GoOn("")
       ELSE GoOn("transfer") /\ UNCHANGED timer
    /\ UNCHANGED <<setup, queue, do_floppy, flags, mon_timer, moff_timer, clock, hardware, task>>

(* Mutant: transfer just returns when the controller is to be reset.       *)
MutTransferAfterReset ==
    /\ Running("transfer")
    /\ reset
    /\ GoOn("")
    /\ UNCHANGED <<setup, queue, do_floppy, flags, selected, motors, timer, clock, hardware, task>>

(* Before it seeks or transfers, transfer may have a SPECIFY to send.      *)
TransferAfterReset ==
    /\ Running("transfer")
    /\ Sends(FALSE)
    /\ GoOn("do_fd_request")
    /\ UNCHANGED <<setup, queue, do_floppy, recalibrate, seek, current_drive, current_track,
                   selected, motors, timer, clock, fdc, heads, task>>

TransferInPlace ==
    /\ Running("transfer")
    /\ ~reset /\ ~seek
    /\ GoOn("setup_rw_floppy")
    /\ UNCHANGED <<setup, queue, do_floppy, flags, selected, motors, timer, clock, hardware, task>>

TransferWithSeek(ok) ==
    /\ Running("transfer")
    /\ ~reset /\ seek
    /\ Command(ok, "seek", Current.track, "seek_interrupt")
    /\ UNCHANGED <<setup, queue, recalibrate, seek, current_drive, current_track, selected, motors,
                   timer, clock, heads, task>>

SetupRw(ok) ==
    /\ Running("setup_rw_floppy")
    /\ Command(ok, "transfer", Current.track, "rw_interrupt")
    /\ UNCHANGED <<setup, queue, recalibrate, seek, current_drive, current_track, selected, motors,
                   timer, clock, heads, task>>

-----------------------------------------------------------------------------
(* floppy_interrupt takes the handler out of do_floppy.                    *)
Interrupt ==
    LET handler == IF do_floppy = "none" THEN "unexpected_floppy_interrupt" ELSE do_floppy IN
    /\ Interruptible
    /\ fdc.irq
    /\ fdc' = [fdc EXCEPT !.irq = FALSE]
    /\ do_floppy' = "none"
    /\ IF InTask THEN outer' = handler /\ UNCHANGED call
                 ELSE call' = handler /\ UNCHANGED outer
    /\ UNCHANGED <<setup, queue, flags, selected, motors, timer, clock, heads, faults, task>>

(* bad_flp_intr.  CURRENT->errors read through NULL is an entry of the     *)
(* page directory, larger than any number of errors.                       *)
BadFlpIntr ==
    LET q == [queue EXCEPT ![1].errors = @ + 1]
        gone == Head(q).errors > MAX_ERRORS
        next == IF gone THEN Tail(q) ELSE q
        bad == next = <<>> \/ Head(next).errors > MAX_ERRORS \div 2
    IN
    /\ IF gone THEN DeselectAndEnd(q)
               ELSE queue' = q /\ UNCHANGED <<selected, moff_timer, task>>
    /\ reset' = (reset \/ Result = "silent" \/ bad)
    /\ recalibrate' = (recalibrate \/ ~bad)

SeekInterrupt ==
    /\ Running("seek_interrupt")
    /\ Result = "good"
    /\ current_track' = Current.track
    /\ GoOn("setup_rw_floppy")
    /\ UNCHANGED <<setup, queue, do_floppy, recalibrate, reset, seek, current_drive, selected,
                   motors, timer, clock, hardware, task>>

RwInterrupt ==
    /\ Running("rw_interrupt")
    /\ Result \in {"good", "protected"}
    /\ DeselectAndEnd(queue)
    /\ GoOn("do_fd_request")
    /\ UNCHANGED <<setup, do_floppy, flags, current_DOR, mon_timer, timer, clock, hardware>>

BadResult ==
    /\ \/ Running("seek_interrupt") /\ Result # "good"
       \/ Running("rw_interrupt") /\ Result \in {"bad", "silent"}
    /\ BadFlpIntr
    /\ GoOn("do_fd_request")
    /\ UNCHANGED <<setup, do_floppy, seek, current_drive, current_track, current_DOR, mon_timer,
                   timer, clock, hardware>>

(* SENSEI, its answer and SPECIFY.                                         *)
ResetInterrupt(ok) ==
    /\ Running("reset_interrupt")
    /\ Sends(ok)
    /\ GoOn("do_fd_request")
    /\ UNCHANGED <<setup, queue, do_floppy, recalibrate, seek, current_drive, current_track,
                   selected, motors, timer, clock, fdc, heads, task>>

RecalInterrupt ==
    /\ Running("recal_interrupt")
    /\ IF Result = "good" THEN recalibrate' = FALSE /\ UNCHANGED reset
                          ELSE reset' = TRUE /\ UNCHANGED recalibrate
    /\ GoOn("do_fd_request")
    /\ UNCHANGED <<setup, queue, do_floppy, seek, current_drive, current_track, selected, motors,
                   timer, clock, hardware, task>>

UnexpectedInterrupt ==
    /\ Running("unexpected_floppy_interrupt")
    /\ IF Result = "good" THEN recalibrate' = TRUE /\ UNCHANGED reset
                          ELSE reset' = TRUE /\ UNCHANGED recalibrate
    /\ GoOn("")
    /\ UNCHANGED <<setup, queue, do_floppy, seek, current_drive, current_track, selected, motors,
                   timer, clock, hardware, task>>

(* The controller ends what it does.                                       *)
FdcAnswers(result) ==
    LET fault == result # "good" /\ do_floppy = "recal_interrupt" IN
    /\ fdc.op # "none"
    /\ fdc.op = "reset" => result = "good"
    /\ result = "protected" => fdc.op = "transfer"
    /\ fdc.op = "transfer" /\ result = "good" => heads[current_DOR.drive] = fdc.track
    /\ fault => faults < setup.faults
    /\ faults' = IF fault THEN faults + 1 ELSE faults
    /\ fdc' = [fdc EXCEPT !.op = "none", !.irq = TRUE, !.result = result]
    /\ heads' = IF fdc.op = "seek" /\ result = "good"
                THEN [heads EXCEPT ![current_DOR.drive] = fdc.track] ELSE heads
    /\ UNCHANGED <<setup, queue, do_floppy, flags, selected, motors, timer, clock, running, task>>

(* It interrupts although it was not told to do anything.                  *)
ReadAnswer == {"reset_interrupt", "recal_interrupt", "seek_interrupt", "rw_interrupt",
               "unexpected_floppy_interrupt"}
StrayInterrupt(result) ==
    /\ fdc.op = "none" /\ ~fdc.irq
    /\ {outer, call} \cap ReadAnswer = {}
    /\ faults < setup.faults
    /\ faults' = faults + 1
    /\ fdc' = [fdc EXCEPT !.irq = TRUE, !.result = result]
    /\ UNCHANGED <<setup, queue, do_floppy, flags, selected, motors, timer, clock, running, heads,
                   task>>

-----------------------------------------------------------------------------
(* do_timer: the timer of the driver first, then do_floppy_timer.          *)
Tick ==
    LET due == timer.run # "none" /\ timer.ticks = 1 IN
    /\ Interruptible /\ ~clock
    /\ current_DOR.on # {}
    /\ clock' = TRUE
    /\ call' = IF due THEN timer.run ELSE ""
    /\ timer' = IF due \/ timer.run = "none" THEN NoTimer ELSE [timer EXCEPT !.ticks = @ - 1]
    /\ UNCHANGED <<setup, queue, do_floppy, flags, selected, motors, outer, hardware, task>>

InUse(d) ==
    /\ d = current_drive
    /\ timer.run # "none" \/ do_floppy \in {"seek_interrupt", "rw_interrupt"}

DoFloppyTimer(off) ==
    LET starting == {d \in current_DOR.on : mon_timer[d] > 0}
        up == {d \in starting : mon_timer[d] = 1}
    IN
    /\ call = "" /\ clock
    /\ off \subseteq {d \in current_DOR.on \ starting : moff_timer[d] = "short" /\ ~InUse(d)}
    /\ clock' = FALSE
    /\ mon_timer' = [d \in Drives |-> IF d \in starting THEN mon_timer[d] - 1 ELSE mon_timer[d]]
    /\ current_DOR' = [current_DOR EXCEPT !.on = @ \ off]
    /\ task' = [t \in Changers |->
                   IF task[t].at = "sleeps for the motor" /\ task[t].nr \in up
                   THEN [task[t] EXCEPT !.at = "floppy_on"] ELSE task[t]]
    /\ UNCHANGED <<setup, queue, do_floppy, flags, selected, moff_timer, timer, running, hardware>>

-----------------------------------------------------------------------------
(* A task in floppy_change(nr).                                            *)
Goes(t, place) == task' = [task EXCEPT ![t].at = place]

Enter(t, nr) ==
    /\ InTask
    /\ task[t].at = "out"
    /\ task' = [task EXCEPT ![t] = [at |-> "floppy_on", nr |-> nr]]
    /\ UNCHANGED <<setup, queue, do_floppy, flags, selected, motors, timer, clock, running, hardware>>

(* ticks_to_floppy_on ends in sti(): the motor can be up before the task   *)
(* sleeps for it.                                                          *)
FloppyOn(t) ==
    /\ InTask
    /\ task[t].at = "floppy_on"
    /\ TicksToFloppyOn(task[t].nr)
    /\ Goes(t, IF mon_timer'[task[t].nr] = 0 THEN "checks" ELSE "waits for the motor")
    /\ UNCHANGED <<setup, queue, do_floppy, flags, selected, timer, clock, running, hardware>>

(* The same between the test of selected and the sleep.                    *)
FallAsleep(t) ==
    /\ InTask
    /\ \/ task[t].at = "waits for the motor" /\ Goes(t, "sleeps for the motor")
       \/ task[t].at = "waits for the drive" /\ Goes(t, "sleeps for the drive")
    /\ UNCHANGED <<setup, queue, do_floppy, flags, selected, motors, timer, clock, running, hardware>>

Check(t) ==
    LET mine == current_DOR.drive = task[t].nr IN
    /\ InTask
    /\ task[t].at = "checks"
    /\ Goes(t, IF mine THEN "reads" ELSE IF selected THEN "waits for the drive" ELSE "floppy_on")
    /\ UNCHANGED <<setup, queue, do_floppy, flags, selected, motors, timer, clock, running, hardware>>

ReadDir(t) ==
    /\ InTask
    /\ task[t].at = "reads"
    /\ FloppyOff(task[t].nr)
    /\ Goes(t, "out")
    /\ UNCHANGED <<setup, queue, do_floppy, flags, selected, current_DOR, mon_timer, timer, clock,
                   running, hardware>>

(* add_request: the task that finds the queue empty starts the driver,     *)
(* even if it still recalibrates or resets after the last request.         *)
AddRequest(drive, track) ==
    /\ InTask
    /\ Len(queue) < setup.queue
    /\ queue # <<>> \/ do_floppy = "none" \/ setup.late
    /\ queue' = Append(queue, [drive |-> drive, track |-> track, errors |-> 0])
    /\ outer' = IF queue = <<>> THEN "do_fd_request" ELSE ""
    /\ UNCHANGED <<setup, call, do_floppy, flags, selected, motors, timer, clock, hardware, task>>

-----------------------------------------------------------------------------
Driver ==
    \/ ResetFloppy \/ NoRequest \/ RefuseRequest \/ StartRequest
    \/ FloppyOnInterrupt \/ TransferAfterReset \/ TransferInPlace
    \/ \E ok \in BOOLEAN : RecalibrateFloppy(ok) \/ TransferWithSeek(ok) \/ SetupRw(ok)
                         \/ ResetInterrupt(ok)
    \/ SeekInterrupt \/ RwInterrupt \/ BadResult
    \/ RecalInterrupt \/ UnexpectedInterrupt

Answers == \E result \in {"good", "bad", "protected", "silent"} : FdcAnswers(result)
Clock == Tick \/ \E off \in SUBSET Drives : DoFloppyTimer(off)

Next ==
    \/ \E d \in setup.used, track \in 0 .. LastTrack + 1 : AddRequest(d, track)
    \/ Driver
    \/ Interrupt
    \/ Answers
    \/ \E result \in {"good", "bad"} : StrayInterrupt(result)
    \/ Clock
    \/ \E t \in Changers, nr \in setup.watched : Enter(t, nr)
    \/ \E t \in Changers : FloppyOn(t) \/ FallAsleep(t) \/ Check(t) \/ ReadDir(t)

Spec == Init /\ [][Next]_vars

-----------------------------------------------------------------------------
(* A seek or a transfer for a request happens on the drive of the request: *)
(* it is selected in current_DOR and stays so, with its motor at speed,    *)
(* whatever tasks in floppy_change want meanwhile.                         *)
RightDrive ==
    fdc.op # "none" /\ do_floppy \in {"seek_interrupt", "rw_interrupt"} =>
        /\ current_drive = Current.drive
        /\ current_DOR.drive = current_drive
        /\ current_drive \in current_DOR.on
        /\ mon_timer[current_drive] <= 2

(* The functions that work for CURRENT run only while there is one.        *)
UsesCurrent ==
    {outer, call} \cap {"transfer", "setup_rw_floppy", "seek_interrupt", "rw_interrupt"} # {} =>
        queue # <<>>

(* A request in the queue always has someone to go on with it: a timer     *)
(* that runs, or a handler and a controller that is going to interrupt.    *)
(* Only errors are retried, and they are counted.                          *)
SomeoneGoesOn ==
    queue # <<>> /\ outer = "" /\ call = "" =>
        \/ timer.run # "none" /\ current_DOR.on # {}
        \/ do_floppy # "none" /\ (fdc.op # "none" \/ fdc.irq)
=============================================================================
