-------------------------------- MODULE Timer --------------------------------
(***************************************************************************)
(* The kernel timers (kernel/sched.c: add_timer and the timer part of      *)
(* do_timer).  timer_list is kept as a list of differences: the head's     *)
(* jiffies are counted down, and the others are meant to count from the    *)
(* moment the one before them fires.                                       *)
(*                                                                         *)
(* The clock enters do_timer with interrupts off, but it may get to the    *)
(* timers with interrupts on: hd_times_out calls printk, and set_cursor at *)
(* the end of that does sti().  Timer functions turn interrupts on as      *)
(* well, with add_timer or without.  From there a second do_timer may run  *)
(* inside the first, and a device interrupt may add a timer, between any   *)
(* two of its steps: it reads next_timer, counts that entry down, tests it *)
(* and takes it off.                                                       *)
(*                                                                         *)
(* Of the array of TIME_REQUESTS entries the model keeps those in use      *)
(* (fn # NULL), in list order.  The time a timer still has to wait by what *)
(* was asked for is history, counted in the ticks do_timer has counted; it *)
(* is zero when the timer is due and stays at -MaxLate once it is that     *)
(* late.  So is alone: no other timer was pending before it, or was put in *)
(* front of it.                                                            *)
(***************************************************************************)
EXTENDS Integers, Sequences

CONSTANTS TIME_REQUESTS, \* the number of entries of timer_list
          Delay,         \* the jiffies arguments of add_timer
          MaxNested,     \* bound on the do_timer calls inside each other
          MaxLate        \* bound on the lateness told apart

ASSUME TimerAssumption ==
    /\ TIME_REQUESTS \in Nat \ {0}
    /\ Delay \subseteq Int
    /\ MaxNested \in Nat \ {0}
    /\ MaxLate \in Nat
    /\ MaxNested <= MaxLate

VARIABLES list,    \* the timers next_timer, next_timer->next, ...: [jiffies, due, alone]
          entries, \* the entries of timer_list they are in
          nested,  \* the do_timer calls under way, each interrupting the one before
          at,      \* where each of them is
          held,    \* the entry it has read as next_timer, 0 for none
          sti,     \* has the innermost of them interrupts on?
          astray   \* has one of them used an entry that is not next_timer any more?

tm_vars == <<list, entries, nested, at, held, sti, astray>>

TmInit ==
    /\ list = <<>> /\ entries = <<>>
    /\ nested = 0
    /\ at = [n \in 1..MaxNested |-> "count"]
    /\ held = [n \in 1..MaxNested |-> 0]
    /\ sti = FALSE
    /\ astray = FALSE

(* When the first n timers of the list will have fired, by their jiffies. *)
Elapsed(n) ==
    LET sum[m \in 0..n] == IF m = 0 THEN 0 ELSE sum[m - 1] + list[m].jiffies
    IN  sum[n]

(* add_timer's while loop: the new timer moves down the list as long as    *)
(* the one it meets has fewer jiffies than it has left.  The timer it      *)
(* stops in front of keeps its jiffies.                                    *)
Insert(l, j) ==
    LET left(n) == LET sum[m \in 0..n] == IF m = 0 THEN j ELSE sum[m - 1] - l[m].jiffies
                   IN  sum[n]
        stops == {n \in 0..Len(l) : n = Len(l) \/ l[n + 1].jiffies >= left(n)}
        place == CHOOSE n \in stops : \A m \in stops : n <= m
    IN  SubSeq(l, 1, place)
        \o <<[jiffies |-> left(place), due |-> j, alone |-> l = <<>>]>>
        \o [n \in 1..(Len(l) - place) |-> [l[place + n] EXCEPT !.alone = FALSE]]

(* The entry add_timer takes: the first that is free.                      *)
FreeEntry ==
    CHOOSE e \in 1..TIME_REQUESTS :
        /\ \A n \in 1..Len(entries) : entries[n] # e
        /\ \A d \in 1..(e - 1) : \E n \in 1..Len(entries) : entries[n] = d

(* A task, a device interrupt or a timer function calls add_timer, which   *)
(* keeps interrupts off while it works and leaves with interrupts on.  The *)
(* entry becomes the head of the list, and the timers move along it.  One  *)
(* more timer than there are entries is a panic, after which nothing       *)
(* happens any more.                                                       *)
AddTimer(j) ==
    /\ ~astray
    /\ nested > 0 => sti \/ at[nested] = "call"
    /\ \/ j <= 0 /\ UNCHANGED <<list, entries>>
       \/ /\ j > 0
          /\ Len(list) < TIME_REQUESTS
          /\ list' = Insert(list, j)
          /\ entries' = <<FreeEntry>> \o entries
    /\ sti' = (nested > 0)
    /\ UNCHANGED <<nested, at, held, astray>>

(* The clock ticks and do_timer begins; interrupts are on when it gets to  *)
(* the timers if hd_times_out has printed its message on the way.          *)
Tick ==
    /\ ~astray
    /\ nested > 0 => sti
    /\ nested < MaxNested
    /\ nested' = nested + 1
    /\ sti' \in BOOLEAN
    /\ UNCHANGED <<list, entries, at, held, astray>>

Runs(where) == ~astray /\ nested > 0 /\ at[nested] \in where
Goes(where, entry) == at' = [at EXCEPT ![nested] = where] /\ held' = [held EXCEPT ![nested] = entry]

MutExpired == list # <<>> /\ list[1].jiffies < 0
Expired == list # <<>> /\ list[1].jiffies <= 0

(* What the innermost do_timer holds: the head of the list, an entry in    *)
(* use, or one that is free by now.                                        *)
HoldsHead == list # <<>> /\ held[nested] = entries[1]
HoldsWaiting == \E n \in 1..Len(list) : entries[n] = held[nested] /\ list[n].jiffies > 0
HoldsFree == \A n \in 1..Len(list) : entries[n] # held[nested]

(* do_timer reads next_timer, to count it down or to test it.              *)
ReadHead ==
    /\ Runs({"count", "test"})
    /\ held[nested] = 0
    /\ list # <<>>
    /\ Goes(at[nested], entries[1])
    /\ UNCHANGED <<list, entries, nested, sti, astray>>

MutCountDownStops(l) ==
    [n \in 1..Len(l) |-> l[n].jiffies - (IF n = 1 /\ l[n].jiffies > 1 THEN 1 ELSE 0)]

(* do_timer counts down the head only. *)
CountDown(l) == [n \in 1..Len(l) |-> l[n].jiffies - (IF n = 1 THEN 1 ELSE 0)]

(* The entry is the head, if nobody came in between.  If somebody did, the *)
(* outcome depends on which reads of next_timer the compiler has merged:   *)
(* here and below, do_timer goes on with the head as it is now, or with    *)
(* the entry it holds (GoesAstray; an entry that is free by now is counted *)
(* down to no effect).                                                     *)
Count ==
    /\ Runs({"count"})
    /\ held[nested] # 0
    /\ \/ /\ list # <<>>
          /\ list' = [n \in 1..Len(list) |->
                        [jiffies |-> CountDown(list)[n],
                         due |-> IF list[n].due > -MaxLate THEN list[n].due - 1 ELSE -MaxLate,
                         alone |-> list[n].alone]]
       \/ HoldsFree /\ list' = list
    /\ Goes("test", 0)
    /\ UNCHANGED <<entries, nested, sti, astray>>

(* The condition of the loop holds. *)
Test ==
    /\ Runs({"test"})
    /\ held[nested] # 0
    /\ Expired
    /\ Goes("take", held[nested])
    /\ UNCHANGED <<list, entries, nested, sti, astray>>

(* The head is taken off the list, and its function is called.             *)
Take ==
    /\ Runs({"take"})
    /\ Expired
    /\ list' = Tail(list) /\ entries' = Tail(entries)
    /\ Goes("call", 0)
    /\ UNCHANGED <<nested, sti, astray>>

(* The function turns interrupts on, as setup_DMA does, or returns. *)
TurnsOn ==
    /\ Runs({"call"})
    /\ sti' = TRUE
    /\ UNCHANGED <<list, entries, nested, at, held, astray>>

Returns ==
    /\ Runs({"call"})
    /\ Goes("test", 0)
    /\ UNCHANGED <<list, entries, nested, sti, astray>>

(* There is no timer, or none that has expired: do_timer returns, to where *)
(* interrupts were on.                                                     *)
LoopEnds ==
    /\ \/ Runs({"count", "test"}) /\ held[nested] = 0 /\ list = <<>>
       \/ Runs({"test"}) /\ held[nested] # 0 /\ ~Expired
    /\ Goes("count", 0)
    /\ nested' = nested - 1
    /\ sti' = (nested > 1)
    /\ UNCHANGED <<list, entries, astray>>

(* do_timer goes on with an entry that is not next_timer any more, and     *)
(* does harm: the tick is taken off a timer behind the head; an expired    *)
(* head is passed over; or, the entry being free or another timer's, it    *)
(* calls through fn = NULL, or a function before its time.  What comes     *)
(* after that is not described.                                            *)
GoesAstray ==
    /\ Runs({"count", "test", "take"})
    /\ held[nested] # 0
    /\ \/ at[nested] = "count" /\ ~HoldsHead /\ ~HoldsFree
       \/ at[nested] = "test" /\ ~HoldsHead /\ ~(HoldsWaiting /\ ~Expired)
       \/ at[nested] = "take" /\ ~(HoldsHead /\ Expired)
    /\ astray' = TRUE
    /\ UNCHANGED <<list, entries, nested, at, held, sti>>

DoTimer == ReadHead \/ Count \/ Test \/ Take \/ TurnsOn \/ Returns \/ LoopEnds \/ GoesAstray

TmNext == (\E j \in Delay : AddTimer(j)) \/ Tick \/ DoTimer

(* The clock does not stop, and an interrupt handler runs to its end. *)
TmFairness == WF_tm_vars(Tick) /\ WF_tm_vars(DoTimer)

TmSpec == TmInit /\ [][TmNext]_tm_vars /\ TmFairness

-----------------------------------------------------------------------------
TmTypeOK ==
    /\ Len(list) <= TIME_REQUESTS
    /\ \A n \in 1..Len(list) : list[n] \in [jiffies : Int, due : Int, alone : BOOLEAN]
    /\ nested \in 0..MaxNested
    /\ sti \in BOOLEAN /\ astray \in BOOLEAN

(* A difference is negative only for a timer that is about to be fired:    *)
(* only the head, and only while do_timer is under way.                    *)
OnlyHeadExpires ==
    \A n \in 1..Len(list) : list[n].jiffies < 0 => n = 1 /\ nested > 0

ListOK == TmTypeOK /\ OnlyHeadExpires

(* As long as no do_timer has gone astray, no timer fires before the time  *)
(* asked for, in whatever order timers are added, by timer functions and   *)
(* device interrupts inside do_timer as well, and when do_timer interrupts *)
(* itself: the differences never add up to less than what is left.         *)
NeverEarly == ~astray => \A n \in 1..Len(list) : Elapsed(n) >= list[n].due

(* As long as no do_timer has gone astray, a timer that is the only one    *)
(* pending fires at the tick it was asked for, which is what the floppy    *)
(* driver, its only user, depends on: when no do_timer is under way, such  *)
(* a timer is due in the future.  (One that another is put in front of is  *)
(* late: add_timer does not take the new jiffies off the next timer's.)    *)
OnTime ==
    ~astray /\ nested = 0 => \A n \in 1..Len(list) : list[n].alone => list[n].due > 0

(* The timers as a whole.                                                  *)
TimersOnTime == ListOK /\ NeverEarly /\ OnTime

(* The comments on struct timer_list, "next_timer is the head timer", and  *)
(* in add_timer, that p->next fires p->next->jiffies ticks after p: when   *)
(* do_timer takes a timer off the list and calls its function, the head of *)
(* the list has expired.                                                   *)
TakesTheHead == astray /\ at[nested] = "take" => Expired

(* When timers are no longer added, all that are pending fire.  (While     *)
(* they are added, new heads can put off a later timer for ever.)          *)
AllTimersFire ==
    []<><<Len(list') > Len(list)>>_tm_vars \/ <>[](list = <<>> \/ astray)
=============================================================================
