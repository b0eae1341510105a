------------------------------ MODULE WakeLock ------------------------------
(***************************************************************************)
(* What the users of a kernel wait queue rely on: the abstract             *)
(* specification of "while (locked) sleep_on(&wait); locked = 1" together  *)
(* with "locked = 0; wake_up(&wait)".                                      *)
(*                                                                         *)
(* The queue is only a set here: nothing is promised about the order in    *)
(* which the waiters get through.  What is promised is mutual exclusion,   *)
(* and that a free lock does not leave every waiter asleep.                *)
(***************************************************************************)
CONSTANTS Task

VARIABLES owner,    \* the set of tasks that hold the lock
          waiting   \* the set of tasks inside the wait loop

avars == <<owner, waiting>>

ATypeOK == owner \subseteq Task /\ waiting \subseteq Task

AInit == owner = {} /\ waiting = {}

(* The lock is free: a task takes it without waiting. *)
ATake(t) ==
    /\ t \notin owner \cup waiting
    /\ owner = {}
    /\ owner' = {t}
    /\ UNCHANGED waiting

(* The lock is taken: the task starts to wait. *)
AWait(t) ==
    /\ t \notin owner \cup waiting
    /\ owner # {}
    /\ waiting' = waiting \cup {t}
    /\ UNCHANGED owner

(* A waiter finds the lock free and leaves the loop, with the lock or, if  *)
(* it only waited for the lock to be released, without it.                 *)
APass(t) ==
    /\ t \in waiting
    /\ owner = {}
    /\ waiting' = waiting \ {t}
    /\ owner' \in {{}, {t}}

(* A waiter gives up because of a signal. *)
AGiveUp(t) ==
    /\ t \in waiting
    /\ waiting' = waiting \ {t}
    /\ UNCHANGED owner

ARelease(t) ==
    /\ t \in owner
    /\ owner' = owner \ {t}
    /\ UNCHANGED waiting

ANext == \E t \in Task : ATake(t) \/ AWait(t) \/ APass(t) \/ AGiveUp(t) \/ ARelease(t)

(* A lock that stays free while tasks wait for it is passed to one of them. *)
AFairness ==
    /\ WF_avars(\E t \in Task : APass(t))
    /\ \A t \in Task : WF_avars(ARelease(t))

ASafety == AInit /\ [][ANext]_avars

ASpec == ASafety /\ AFairness
=============================================================================
