----------------------------- MODULE MCDrivers -----------------------------
(***************************************************************************)
(* Model checking the kernel timers, the request queue and the hard disk   *)
(* driver in one run.  They share no state here (the driver has its own    *)
(* model of the queue, in order of arrival): a behaviour is one of a       *)
(* single part, chosen at the start, while the others stay as they are     *)
(* initialised, where their invariants hold.                               *)
(***************************************************************************)
EXTENDS RequestQueue, HardDisk, Timer, TLC

CONSTANTS t1, t2,       \* tasks
          Parts         \* the parts to check

VARIABLE part

drv_vars == <<part, tm_vars, vars, hd_vars>>

(* A device that is also swapped to: two entries for writes, one more.     *)
(* Both tasks use the first block.                                         *)
MCUses == t1 :> {1, 2, 3} @@ t2 :> {1}

(* The disk has a partition of two blocks. *)
MCSetups == {[requests |-> 2, busy |-> FALSE]}

-----------------------------------------------------------------------------
DrvInit ==
    /\ part \in Parts
    /\ TmInit /\ Init /\ HdInit

DrvNext ==
    \/ part = "timer" /\ TmNext /\ UNCHANGED <<part, vars, hd_vars>>
    \/ part = "queue" /\ Next /\ UNCHANGED <<part, tm_vars, hd_vars>>
    \/ part = "hd" /\ HdNext /\ UNCHANGED <<part, tm_vars, vars>>

(* The clock is fair to the timers only where they are checked. *)
DrvFairness ==
    /\ WF_tm_vars(part = "timer" /\ Tick) /\ WF_tm_vars(part = "timer" /\ DoTimer)
    /\ Fairness /\ HdFairness

DrvSpec == DrvInit /\ [][DrvNext]_drv_vars /\ DrvFairness

-----------------------------------------------------------------------------
(* The properties of the parts, see there.                                 *)
RequestsServed == EveryRequestServed /\ RequestWaitEnds
=============================================================================
