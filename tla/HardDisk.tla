------------------------------ MODULE HardDisk ------------------------------
(***************************************************************************)
(* The hard disk driver (kernel/blk_drv/hd.c; end_request and INIT_REQUEST *)
(* of blk.h, hd_interrupt of sys_call.s, hd_timeout in do_timer): one      *)
(* request after the other, retries, the recalibration and the reset of    *)
(* the controller, time-outs.                                              *)
(*                                                                         *)
(* Interrupt handlers run with interrupts off until they print something;  *)
(* then the controller has no command that could interrupt.  Two others    *)
(* run with interrupts on: do_hd_request when the task that makes the      *)
(* first request calls it, and hd_times_out, whose message turns them on.  *)
(* Between any two of their steps the answer to an earlier command may     *)
(* come in, and a handler runs.  outer is the place they have reached, and *)
(* func the function that runs as a handler of the controller's interrupt, *)
(* "" for none.  A handler takes less time than the controller takes for   *)
(* a command: when one has given a new command, the function it has        *)
(* interrupted goes on, and gets to where it has to wait for the           *)
(* controller, before that answers.                                        *)
(*                                                                         *)
(* The controller is external: it works on a command, ends it well or with *)
(* an error and interrupts, or says nothing at all.  Reading its status,   *)
(* as each handler and hd_out do, takes an interrupt back that was not     *)
(* delivered yet.                                                          *)
(***************************************************************************)
EXTENDS Naturals, Integers, Sequences

CONSTANTS NR_HD,       \* drives
          MAX_ERRORS,
          NrSects,     \* hd[dev].nr_sects, the sectors of the partition
          FirstSector, \* the first sectors requests are made for
          Fails,       \* the commands the controller may answer with an error
          Setups       \* what a behaviour is about: records of
                       \*   requests: requests in the queue
                       \*   busy:     may a request come to an empty queue while the
                       \*             driver still resets or recalibrates?

ASSUME HardDiskAssumption ==
    /\ NR_HD \in {1, 2}
    /\ MAX_ERRORS \in Nat \ {0}
    /\ NrSects \in Nat
    /\ FirstSector \subseteq Nat
    /\ Setups \subseteq [requests : Nat, busy : BOOLEAN]

WIN_READ == "read"
WIN_WRITE == "write"

VARIABLES setup,
          requests,       \* CURRENT and the requests that follow it
          do_hd,       \* the handler of the next interrupt, "none" for NULL
          hd_timeout,  \* is the time-out of 200 ticks running?
          reset, recalibrate,
          drives_set,  \* i of reset_hd: the drives that were told their parameters
          outer,       \* where do_hd_request of a task, or hd_times_out, is
          func,        \* the function that runs as a handler
          disk,        \* the controller: its command, the sector it is at, its status;
                       \* is the command older than what outer is about?
          irq,         \* its interrupt is pending
          ended        \* of the request that ended last: what was moved if it ended
                       \* well, and the errors if it failed (history)

hd_vars == <<setup, requests, do_hd, hd_timeout, reset, recalibrate, drives_set, outer, func, disk, irq, ended>>
flags == <<reset, recalibrate, drives_set>>
interrupts == <<do_hd, hd_timeout, irq>>

(* A request for a block: two sectors, to or from a buffer; buffer is what *)
(* has been transferred, and bad counts all errors on the way, up to       *)
(* MAX_ERRORS (history).                                                   *)
Request(cmd, s) ==
    [cmd |-> cmd, first |-> s, sector |-> s, nr_sectors |-> 2, errors |-> 0,
     buffer |-> <<>>, bad |-> 0]

Current == Head(requests)
Nothing == [first |-> 0, buffer |-> <<0, 1>>, bad |-> 0, uptodate |-> TRUE]

Idle == [cmd |-> "none", sector |-> 0, status |-> "ready", late |-> FALSE]

HdInit ==
    /\ setup \in Setups
    /\ requests = <<>>
    /\ do_hd = "none"
    /\ hd_timeout = FALSE
    /\ reset = FALSE
    /\ recalibrate = FALSE
    /\ drives_set = 0
    /\ outer = "" /\ func = ""
    /\ disk = Idle
    /\ irq = FALSE
    /\ ended = Nothing

-----------------------------------------------------------------------------
(* The innermost function that runs, and how it goes on.                  *)
Running(function) == IF func # "" THEN func = function ELSE outer = function
GoOn(function) ==
    IF func # "" THEN func' = function /\ UNCHANGED outer
                 ELSE outer' = function /\ UNCHANGED func

(* The first request is started by the task that makes it, after sti().    *)
HdAddRequest(cmd, s) ==
    /\ func = "" /\ outer = ""
    /\ Len(requests) < setup.requests
    /\ requests = <<>> /\ do_hd # "none" => setup.busy
    /\ requests' = Append(requests, Request(cmd, s))
    /\ IF requests = <<>>
       THEN /\ outer' = "do_hd_request"
            /\ disk' = [disk EXCEPT !.late = (disk.status = "busy")]
       ELSE UNCHANGED <<outer, disk>>
    /\ UNCHANGED <<setup, flags, interrupts, func, ended>>

(* end_request; q is the queue with CURRENT as it is by then.              *)
HdEndRequest(q, uptodate) ==
    /\ ended' = [first |-> Head(q).first, uptodate |-> uptodate,
                 buffer |-> IF uptodate THEN Head(q).buffer ELSE <<>>,
                 bad |-> IF uptodate THEN 0 ELSE Head(q).bad]
    /\ requests' = Tail(q)

SetCurrent(fields) == [requests EXCEPT ![1] = fields]

(* Mutant: errors are not counted.                                         *)
MutBadRwIntr ==
    /\ reset' = TRUE
    /\ UNCHANGED <<requests, ended>>

(* One error more: the request is given up, or tried again.               *)
CountError(q) ==
    IF Head(q).errors >= MAX_ERRORS THEN HdEndRequest(q, FALSE) ELSE requests' = q /\ UNCHANGED ended

OneMore == [Current EXCEPT !.errors = @ + 1, !.bad = IF @ < MAX_ERRORS THEN @ + 1 ELSE @]

(* bad_rw_intr.  With the last request gone, CURRENT->errors is read       *)
(* through NULL: the entry of the page directory there is larger than any  *)
(* number of errors.                                                       *)
BadRwIntr ==
    /\ requests # <<>>
    /\ CountError(SetCurrent(OneMore))
    /\ reset' = (reset \/ requests' = <<>> \/ Head(requests').errors > MAX_ERRORS \div 2)

(* win_result: reading the status withdraws a pending interrupt.           *)
WinResult == disk.status = "ready"

(* hd_out waits until the controller is ready, and gives it a command; or  *)
(* it has waited for too long, and panics.                                 *)
HdOut(cmd, s, handler) ==
    \/ /\ disk.status # "busy"
       /\ disk' = [cmd |-> cmd, sector |-> s, status |-> "busy", late |-> FALSE]
       /\ do_hd' = handler
       /\ hd_timeout' = TRUE
       /\ irq' = FALSE
       /\ GoOn("")
    \/ /\ func' = "panic"
       /\ UNCHANGED <<outer, interrupts, disk>>

(* do_hd_request, by the first of its cases that applies.                  *)
NoRequest ==
    /\ Running("do_hd_request")
    /\ requests = <<>>
    /\ do_hd' = "none"
    /\ hd_timeout' = FALSE
    /\ GoOn("")
    /\ UNCHANGED <<setup, requests, flags, disk, irq, ended>>

BeyondEnd == requests # <<>> /\ Current.sector + 2 > NrSects

RefuseRequest ==
    /\ Running("do_hd_request")
    /\ BeyondEnd
    /\ HdEndRequest(requests, FALSE)
    /\ UNCHANGED <<setup, flags, interrupts, outer, func, disk>>

StartReset ==
    /\ Running("do_hd_request")
    /\ requests # <<>> /\ ~BeyondEnd
    /\ reset
    /\ recalibrate' = TRUE
    /\ GoOn("reset_hd")
    /\ UNCHANGED <<setup, requests, reset, drives_set, interrupts, disk, ended>>

StartRecalibrate ==
    /\ Running("do_hd_request")
    /\ requests # <<>> /\ ~BeyondEnd
    /\ ~reset /\ recalibrate
    /\ recalibrate' = FALSE
    /\ GoOn("restore")
    /\ UNCHANGED <<setup, requests, reset, drives_set, interrupts, disk, ended>>

Restore ==
    /\ Running("restore")
    /\ HdOut("restore", 0, "recal_intr")
    /\ UNCHANGED <<setup, requests, flags, ended>>

StartRead ==
    /\ Running("do_hd_request")
    /\ requests # <<>> /\ ~BeyondEnd
    /\ ~reset /\ ~recalibrate
    /\ Current.cmd = WIN_READ
    /\ HdOut(WIN_READ, Current.sector, "read_intr")
    /\ UNCHANGED <<setup, requests, flags, ended>>

(* The controller asks for the first sector, and gets it;                  *)
StartWrite ==
    /\ Running("do_hd_request")
    /\ requests # <<>> /\ ~BeyondEnd
    /\ ~reset /\ ~recalibrate
    /\ Current.cmd = WIN_WRITE
    /\ HdOut(WIN_WRITE, Current.sector, "write_intr")
    /\ UNCHANGED <<setup, requests, flags, ended>>

(* or it does not, which counts as an error; do_hd stays set.  (Only for a *)
(* handler: what a task does whose command is refused meets the handler of *)
(* that error, and is not described.)                                      *)
WriteRefused ==
    /\ func = "do_hd_request"
    /\ requests # <<>> /\ ~BeyondEnd
    /\ ~reset /\ ~recalibrate
    /\ Current.cmd = WIN_WRITE
    /\ WIN_WRITE \in Fails
    /\ BadRwIntr
    /\ disk' = [cmd |-> WIN_WRITE, sector |-> Current.sector, status |-> "error", late |-> FALSE]
    /\ do_hd' = "write_intr"
    /\ hd_timeout' = TRUE
    /\ irq' = FALSE
    /\ UNCHANGED <<setup, recalibrate, drives_set, outer, func>>

(* reset_hd, called or as the handler of its own interrupts.  After the    *)
(* last drive it calls do_hd_request.                                      *)
AfterDrives(n) == GoOn(IF n < NR_HD THEN "specify" ELSE "do_hd_request")

ResetController ==
    /\ Running("reset_hd")
    /\ reset
    /\ reset' = FALSE
    /\ drives_set' = 0
    /\ disk' = Idle
    /\ irq' = FALSE
    /\ AfterDrives(0)
    /\ UNCHANGED <<setup, requests, recalibrate, do_hd, hd_timeout, ended>>

NextDrive ==
    /\ Running("reset_hd")
    /\ ~reset
    /\ WinResult
    /\ drives_set' = drives_set + 1
    /\ irq' = FALSE
    /\ AfterDrives(drives_set + 1)
    /\ UNCHANGED <<setup, requests, reset, recalibrate, do_hd, hd_timeout, disk, ended>>

SpecifyFailed ==
    /\ Running("reset_hd")
    /\ ~reset
    /\ ~WinResult
    /\ BadRwIntr
    /\ \/ reset' /\ GoOn("reset_hd") /\ UNCHANGED drives_set
       \/ ~reset' /\ drives_set' = drives_set + 1 /\ AfterDrives(drives_set + 1)
    /\ irq' = FALSE
    /\ UNCHANGED <<setup, recalibrate, do_hd, hd_timeout, disk>>

Specify ==
    /\ Running("specify")
    /\ HdOut("specify", 0, "reset_hd")
    /\ UNCHANGED <<setup, requests, flags, ended>>

-----------------------------------------------------------------------------
(* hd_interrupt takes the handler out of do_hd.                            *)
Interrupt ==
    /\ func = ""
    /\ irq
    /\ irq' = FALSE
    /\ hd_timeout' = FALSE
    /\ do_hd' = "none"
    /\ func' = IF do_hd = "none" THEN "unexpected_hd_interrupt" ELSE do_hd
    /\ UNCHANGED <<setup, requests, flags, outer, disk, ended>>

(* read_intr, write_intr and recal_intr when the controller is not well.   *)
BadResult ==
    /\ func \in {"read_intr", "write_intr", "recal_intr"}
    /\ ~WinResult
    /\ BadRwIntr
    /\ func' = "do_hd_request"
    /\ irq' = FALSE
    /\ UNCHANGED <<setup, recalibrate, drives_set, do_hd, hd_timeout, outer, disk>>

NextSector == [disk EXCEPT !.sector = @ + 1, !.status = "busy", !.late = FALSE]

(* Mutant: the sector is not counted, so that a retry starts with the      *)
(* first one again.                                                        *)
MutReadIntr ==
    LET r == [Current EXCEPT !.buffer = Append(@, disk.sector), !.errors = 0,
                             !.nr_sectors = @ - 1]
    IN
    /\ func = "read_intr"
    /\ requests # <<>>
    /\ WinResult
    /\ \/ /\ r.nr_sectors > 0
          /\ requests' = SetCurrent(r)
          /\ do_hd' = "read_intr"
          /\ hd_timeout' = TRUE
          /\ disk' = NextSector
          /\ func' = ""
          /\ UNCHANGED ended
       \/ /\ r.nr_sectors = 0
          /\ HdEndRequest(SetCurrent(r), TRUE)
          /\ func' = "do_hd_request"
          /\ UNCHANGED <<do_hd, hd_timeout, disk>>
    /\ irq' = FALSE
    /\ UNCHANGED <<setup, flags, outer>>

ReadIntr ==
    LET r == [Current EXCEPT !.buffer = Append(@, disk.sector), !.errors = 0,
                             !.sector = @ + 1, !.nr_sectors = @ - 1]
    IN
    /\ func = "read_intr"
    /\ requests # <<>>
    /\ WinResult
    /\ \/ /\ r.nr_sectors > 0
          /\ requests' = SetCurrent(r)
          /\ do_hd' = "read_intr"
          /\ hd_timeout' = TRUE
          /\ disk' = NextSector
          /\ func' = ""
          /\ UNCHANGED ended
       \/ /\ r.nr_sectors = 0
          /\ HdEndRequest(SetCurrent(r), TRUE)
          /\ func' = "do_hd_request"
          /\ UNCHANGED <<do_hd, hd_timeout, disk>>
    /\ irq' = FALSE
    /\ UNCHANGED <<setup, flags, outer>>

WriteIntr ==
    LET r == [Current EXCEPT !.buffer = Append(@, disk.sector), !.nr_sectors = @ - 1] IN
    /\ func = "write_intr"
    /\ requests # <<>>
    /\ WinResult
    /\ \/ /\ r.nr_sectors > 0
          /\ requests' = SetCurrent([r EXCEPT !.sector = @ + 1])
          /\ do_hd' = "write_intr"
          /\ hd_timeout' = TRUE
          /\ disk' = NextSector
          /\ func' = ""
          /\ UNCHANGED ended
       \/ /\ r.nr_sectors = 0
          /\ HdEndRequest(SetCurrent(r), TRUE)
          /\ func' = "do_hd_request"
          /\ UNCHANGED <<do_hd, hd_timeout, disk>>
    /\ irq' = FALSE
    /\ UNCHANGED <<setup, flags, outer>>

(* Mutant: nothing is started after the recalibration.                     *)
MutRecalIntr ==
    /\ func = "recal_intr"
    /\ WinResult
    /\ func' = ""
    /\ irq' = FALSE
    /\ UNCHANGED <<setup, requests, flags, do_hd, hd_timeout, outer, disk, ended>>

RecalIntr ==
    /\ func = "recal_intr"
    /\ WinResult
    /\ func' = "do_hd_request"
    /\ irq' = FALSE
    /\ UNCHANGED <<setup, requests, flags, do_hd, hd_timeout, outer, disk, ended>>

UnexpectedInterrupt ==
    /\ func = "unexpected_hd_interrupt"
    /\ reset' = TRUE
    /\ func' = "do_hd_request"
    /\ UNCHANGED <<setup, requests, recalibrate, drives_set, interrupts, outer, disk, ended>>

(* do_timer: the controller has not answered in time, or not yet.  With a  *)
(* request, hd_times_out prints its message, which turns interrupts on.    *)
TimesOut ==
    /\ func = "" /\ outer = ""
    /\ hd_timeout
    /\ hd_timeout' = FALSE
    /\ IF requests = <<>>
       THEN UNCHANGED <<outer, disk>>
       ELSE /\ outer' = "hd_times_out"
            /\ disk' = [disk EXCEPT !.late = (disk.status = "busy")]
    /\ UNCHANGED <<setup, requests, flags, do_hd, irq, func, ended>>

(* The request it counts the error of is the one that is first by now. *)
GivesUp ==
    /\ Running("hd_times_out")
    /\ requests # <<>>
    /\ CountError(SetCurrent(OneMore))
    /\ do_hd' = "none"
    /\ hd_timeout' = TRUE
    /\ reset' = TRUE
    /\ GoOn("do_hd_request")
    /\ UNCHANGED <<setup, recalibrate, drives_set, disk, irq>>

(* No request is left, and CURRENT->errors is counted through NULL: the    *)
(* page directory is written to.                                           *)
Crashes ==
    /\ requests = <<>>
    /\ \/ Running("hd_times_out")
       \/ Running("reset_hd") /\ ~reset /\ ~WinResult
       \/ func \in {"read_intr", "write_intr", "recal_intr"} /\ ~WinResult
    /\ func' = "crash"
    /\ UNCHANGED <<setup, requests, flags, interrupts, outer, disk, ended>>

(* The controller ends its command, or a sector of it: at any time when    *)
(* only it is waited for, or when it is late.                              *)
DiskAnswers(status) ==
    /\ func = ""
    /\ disk.status = "busy"
    /\ outer \in {"", "specify", "restore"} \/ disk.late
    /\ status = "ready" \/ disk.cmd \in Fails
    /\ disk' = [disk EXCEPT !.status = status]
    /\ irq' = TRUE
    /\ UNCHANGED <<setup, requests, flags, do_hd, hd_timeout, outer, func, ended>>

DoRequest ==
    NoRequest \/ RefuseRequest \/ StartReset \/ StartRecalibrate \/ Restore \/ StartRead
    \/ StartWrite \/ WriteRefused

Handler ==
    ResetController \/ NextDrive \/ SpecifyFailed \/ Specify
    \/ BadResult \/ ReadIntr \/ WriteIntr \/ RecalIntr \/ UnexpectedInterrupt
    \/ GivesUp \/ Crashes

HdNext ==
    \/ \E cmd \in {WIN_READ, WIN_WRITE}, s \in FirstSector : HdAddRequest(cmd, s)
    \/ DoRequest
    \/ Handler
    \/ Interrupt
    \/ TimesOut
    \/ \E status \in {"ready", "error"} : DiskAnswers(status)

(* Interrupts are taken and handlers run to their end; and the clock ticks *)
(* on, so that a command that gets no answer times out.                    *)
HdFairness ==
    /\ WF_hd_vars(DoRequest)
    /\ WF_hd_vars(Handler)
    /\ WF_hd_vars(Interrupt)
    /\ WF_hd_vars(TimesOut)

HdSpec == HdInit /\ [][HdNext]_hd_vars /\ HdFairness

-----------------------------------------------------------------------------
(* A request in the queue always has someone to go on with it: an          *)
(* interrupt that is expected, and a time-out for when it does not come;   *)
(* also when an answer has come in before a task has started its request,  *)
(* or while a time-out was dealt with.                                     *)
SomeoneGoesOn ==
    requests # <<>> /\ func = "" /\ outer = "" => do_hd # "none" /\ hd_timeout

(* A request that ended well has moved its sectors, each once, and each    *)
(* to or from its place in the buffer, whatever was retried on the way.    *)
EachSectorOnce ==
    ended.uptodate => ended.buffer = <<ended.first, ended.first + 1>>

(* A request for a block of the partition fails only after MAX_ERRORS      *)
(* errors and time-outs, unless it is the last block: do_hd_request finds  *)
(* a retry that starts with the second sector of that beyond the end.      *)
FailsOnlyAfterRetries ==
    ~ended.uptodate /\ ended.first + 2 < NrSects => ended.bad >= MAX_ERRORS

(* What happens to a request that has ended. *)
EndsRightly == EachSectorOnce /\ FailsOnlyAfterRetries

(* "if (!CURRENT) return;" at the head of hd_times_out: it has a request   *)
(* to count the error of.                                                  *)
TimesOutHasRequest == Running("hd_times_out") => requests # <<>>

(* Every request ends, whatever the controller does or does not answer,    *)
(* unless hd_out panics because the controller does not become ready: the  *)
(* queue is empty again and again, or the first request ends.              *)
EveryRequestEnds ==
    \/ []<>(requests = <<>>)
    \/ []<><<Len(requests') < Len(requests)>>_hd_vars
    \/ <>(func = "panic")
=============================================================================
