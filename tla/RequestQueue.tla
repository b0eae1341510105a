---------------------------- MODULE RequestQueue ----------------------------
(***************************************************************************)
(* The queue of a block device (kernel/blk_drv/ll_rw_blk.c: make_request,  *)
(* ll_rw_page, add_request with the elevator; end_request in blk.h).       *)
(*                                                                         *)
(* A block request holds the lock of its buffer until end_request; a       *)
(* paging request has no buffer, and its task sleeps until it is done.     *)
(* Whether a read or write of a block is needed at all is a choice here    *)
(* (module BufferCache has the rest of the buffer).                        *)
(*                                                                         *)
(* Between finding no free request and going to sleep for one a task runs  *)
(* with interrupts on, and a disk interrupt may come in between: "none".   *)
(***************************************************************************)
EXTENDS Naturals, Sequences, FiniteSets

CONSTANTS Task,
          NoTask,     \* the NULL pointer
          Block,      \* the blocks, numbered in the order of (device, sector)
          Uses,       \* the blocks each task reads and writes
          Paging,     \* is the device also used for swapping?
          NR_REQUEST

ASSUME QueueAssumption ==
    /\ NR_REQUEST \in Nat \ {0}
    /\ NoTask \notin Task
    /\ Block \subseteq Nat
    /\ Uses \in [Task -> SUBSET Block]
    /\ Paging \in BOOLEAN

Slot == 0..(NR_REQUEST - 1)
READ == 0
WRITE == 1

VARIABLES queue,   \* current_request and what follows it
          used,    \* the entries of request[] with dev >= 0
          b_lock,  \* the blocks whose buffer is locked
          pc,      \* "idle", "find", "none", "asleep" or "page"
          call     \* call[t]: the request a task wants to make

vars == <<queue, used, b_lock, pc, call>>

Goto(t, l) == pc' = [pc EXCEPT ![t] = l]

(* A request: its bh is the block's buffer, or NULL for paging. *)
Calls == [cmd : {READ, WRITE}, sector : Block, bh : BOOLEAN, ahead : BOOLEAN]
IdleCall == [cmd |-> READ, sector |-> 0, bh |-> FALSE, ahead |-> FALSE]

Init ==
    /\ queue = <<>>
    /\ used = {}
    /\ b_lock = {}
    /\ pc = [t \in Task |-> "idle"]
    /\ call = [t \in Task |-> IdleCall]

(* ll_rw_page, or ll_rw_block of a block: lock_buffer waits for the buffer *)
(* (the guard) and locks it.  A call that finds nothing to do, or a READA  *)
(* or WRITEA of a locked buffer, returns and changes nothing.              *)
Start(t, c) ==
    /\ pc[t] = "idle"
    /\ c.sector \in Uses[t]
    /\ c.bh \/ (Paging /\ ~c.ahead)
    /\ c.bh => c.sector \notin b_lock
    /\ b_lock' = IF c.bh THEN b_lock \cup {c.sector} ELSE b_lock
    /\ call' = [call EXCEPT ![t] = c]
    /\ Goto(t, "find")
    /\ UNCHANGED <<queue, used>>

(* The call is over. *)
Return(t) ==
    /\ Goto(t, "idle")
    /\ call' = [call EXCEPT ![t] = IdleCall]

-----------------------------------------------------------------------------
(* Block writes may use only the lower two thirds of the entries. *)
Limit(c) == IF c.cmd = READ \/ ~c.bh THEN NR_REQUEST ELSE (NR_REQUEST * 2) \div 3

Free(c) == {s \in Slot : s < Limit(c) /\ s \notin used}

IN_ORDER(r, s) == r.cmd < s.cmd \/ (r.cmd = s.cmd /\ r.sector < s.sector)

(* add_request stops before the entry tmp->next: a paging request before   *)
(* the first block request, a block request where it fits the sweep.       *)
Stop(tmp, req, next) ==
    IF ~req.bh THEN next.bh
    ELSE (IN_ORDER(tmp, req) \/ ~IN_ORDER(tmp, next)) /\ IN_ORDER(req, next)

(* Mutant: req->next = tmp->next is forgotten. *)
MutAddRequest(q, req) ==
    LET stops == {n \in 1..Len(q) : n = Len(q) \/ Stop(q[n], req, q[n + 1])}
        at == CHOOSE n \in stops : \A m \in stops : n <= m
    IN  IF q = <<>> THEN <<req>> ELSE Append(SubSeq(q, 1, at), req)

(* add_request: never in front of the request that is being served. *)
AddRequest(q, req) ==
    LET stops == {n \in 1..Len(q) : n = Len(q) \/ Stop(q[n], req, q[n + 1])}
        at == CHOOSE n \in stops : \A m \in stops : n <= m
    IN  IF q = <<>> THEN <<req>>
        ELSE SubSeq(q, 1, at) \o <<req>> \o SubSeq(q, at + 1, Len(q))

(* The search for a free entry, from the top, succeeds. *)
FindRequest(t) ==
    LET c == call[t]
        slot == CHOOSE s \in Free(c) : \A r \in Free(c) : r <= s
        req == [slot |-> slot, cmd |-> c.cmd, sector |-> c.sector, bh |-> c.bh,
                waiting |-> IF c.bh THEN NoTask ELSE t] IN
    /\ pc[t] = "find"
    /\ Free(c) # {}
    /\ used' = used \cup {slot}
    /\ queue' = AddRequest(queue, req)
    /\ \/ c.bh /\ Return(t)
       \/ ~c.bh /\ Goto(t, "page") /\ UNCHANGED call
    /\ UNCHANGED b_lock

(* It fails: a read-ahead is given up, the buffer unlocked. *)
FindNone(t) ==
    LET c == call[t] IN
    /\ pc[t] = "find"
    /\ Free(c) = {}
    /\ \/ c.ahead /\ Return(t) /\ b_lock' = b_lock \ {c.sector}
       \/ ~c.ahead /\ Goto(t, "none") /\ UNCHANGED <<call, b_lock>>
    /\ UNCHANGED <<queue, used>>

(* sleep_on(&wait_for_request) *)
SleepOn(t) ==
    /\ pc[t] = "none"
    /\ Goto(t, "asleep")
    /\ UNCHANGED <<queue, used, b_lock, call>>

(* Mutant: wake_up(&wait_for_request) is forgotten. *)
MutEndRequest ==
    LET req == Head(queue) IN
    /\ queue # <<>>
    /\ queue' = Tail(queue)
    /\ used' = used \ {req.slot}
    /\ b_lock' = IF req.bh THEN b_lock \ {req.sector} ELSE b_lock
    /\ pc' = [u \in Task |-> IF u = req.waiting THEN "idle" ELSE pc[u]]
    /\ call' = [u \in Task |-> IF u = req.waiting THEN IdleCall ELSE call[u]]

(* The disk interrupt: end_request unlocks the buffer, wakes the task that *)
(* waits for a page and the tasks that wait for a free entry, and the next *)
(* request is served.                                                      *)
EndRequest ==
    LET req == Head(queue) IN
    /\ queue # <<>>
    /\ queue' = Tail(queue)
    /\ used' = used \ {req.slot}
    /\ b_lock' = IF req.bh THEN b_lock \ {req.sector} ELSE b_lock
    /\ pc' = [u \in Task |-> CASE pc[u] = "asleep" -> "find"
                               [] u = req.waiting -> "idle"
                               [] OTHER -> pc[u]]
    /\ call' = [u \in Task |-> IF u = req.waiting THEN IdleCall ELSE call[u]]

Step(t) == FindRequest(t) \/ FindNone(t) \/ SleepOn(t)

Next ==
    \/ EndRequest
    \/ \E t \in Task : Step(t) \/ \E c \in Calls : Start(t, c)

(* Tasks in the kernel go on when they can; the disk serves its queue. *)
Fairness == WF_vars(EndRequest) /\ \A t \in Task : WF_vars(Step(t))

Spec == Init /\ [][Next]_vars /\ Fairness

-----------------------------------------------------------------------------
Requests == [slot : Slot, cmd : {READ, WRITE}, sector : Block, bh : BOOLEAN,
             waiting : Task \cup {NoTask}]

TypeOK ==
    /\ Len(queue) <= NR_REQUEST /\ \A n \in 1..Len(queue) : queue[n] \in Requests
    /\ used \subseteq Slot
    /\ b_lock \subseteq Block
    /\ pc \in [Task -> {"idle", "find", "none", "asleep", "page"}]
    /\ call \in [Task -> Calls \cup {IdleCall}]

(* Every entry in use is in the queue exactly once: end_request frees the  *)
(* entry it took off the queue, and nothing is lost or queued twice.       *)
EntriesAreQueued ==
    /\ used = {queue[n].slot : n \in 1..Len(queue)}
    /\ \A m, n \in 1..Len(queue) : queue[m].slot = queue[n].slot => m = n

(* The driver never panics with "block not locked": a buffer is locked as  *)
(* long as a request for it is queued, and there is one request at most.   *)
QueuedIsLocked ==
    \A n \in 1..Len(queue) : queue[n].bh =>
        /\ queue[n].sector \in b_lock
        /\ \A m \in 1..Len(queue) : queue[m].bh /\ queue[m].sector = queue[n].sector => m = n

QueueOK == TypeOK /\ EntriesAreQueued /\ QueuedIsLocked

(* "The last third of the requests are only for reads": block writes never *)
(* fill up the queue, so a read finds an entry however many writes wait.   *)
RoomForReads ==
    Cardinality({n \in 1..Len(queue) : queue[n].bh /\ queue[n].cmd = WRITE})
        <= (NR_REQUEST * 2) \div 3

Swapping == \E n \in 1..Len(queue) : ~queue[n].bh

(* The elevator: a queue of block requests only turns around at most once, *)
(* so it is at most two sweeps in ascending order.                         *)
OneTurn ==
    ~Swapping =>
        Cardinality({n \in 1..(Len(queue) - 1) : ~IN_ORDER(queue[n], queue[n + 1])}) <= 1

(* What the queue promises: it is consistent with the entries and the      *)
(* locks of the buffers, it leaves room for reads, and it turns once.      *)
Elevator == QueueOK /\ RoomForReads /\ OneTurn

(* A queued request is served: no stream of later block requests that go   *)
(* before it holds it up for ever (paging requests in between can).        *)
EveryRequestServed ==
    \A s \in Slot : (s \in used) ~> (s \notin used \/ queue[1].slot = s \/ Swapping)

(* A task that waits for a free entry gets to look for one again, if at    *)
(* least one request was still under way when it went to sleep.            *)
RequestWaitEnds ==
    \A t \in Task : (pc[t] = "asleep" /\ queue # <<>>) ~> (pc[t] # "asleep")

(* "used to wait on when there are no free requests" (wait_for_request):   *)
(* nobody sleeps there when all requests are free.                         *)
NoSleepWhenFree == \A t \in Task : pc[t] = "asleep" => used # {}
=============================================================================
