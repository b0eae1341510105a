---------------------------- MODULE BufferCache ----------------------------
(***************************************************************************)
(* The buffer cache (fs/buffer.c) and the way a block gets to and from the *)
(* disk through it (kernel/blk_drv/ll_rw_blk.c and end_request in blk.h),  *)
(* used by tasks that read, write and sync concurrently.                   *)
(*                                                                         *)
(* The kernel is not preemptive, so an action is what a task does from one *)
(* place where it may sleep to the next: wait_on_buffer, lock_buffer, the  *)
(* wait for a free request, sleep_on(&buffer_wait).  A sleep on a buffer   *)
(* is a guard ~b_lock (module SleepOn shows that a free lock is passed     *)
(* on); buffer_wait, which only brelse wakes, is a set of its own.  Disk   *)
(* interrupts come in between.  Letting other tasks run at a wait that     *)
(* would not have slept adds behaviours and removes none.                  *)
(*                                                                         *)
(* Of the contents of a block the model keeps whether they are the last    *)
(* ones written to that block: fresh for a buffer, dfresh for the disk.    *)
(***************************************************************************)
EXTENDS Naturals, FiniteSets, Sequences

CONSTANTS Task,    \* the tasks using the cache
          NBuf,    \* NR_BUFFERS
          Block,   \* the (device, block) pairs in use
          NoBlock, \* the block of a buffer that has none yet (b_dev = 0)
          Setups   \* what a behaviour is about: records of
                   \*   ops:    the operations the tasks perform
                   \*   faults: may copying from user space fault, and so sleep?
                   \*   errors: may the disk report errors?

Buf == 1..NBuf
NoBuf == 0
OpNames == {"read", "breada", "file_write", "block_write", "sync", "invalidate"}

(* A task needs two buffers at a time at most (breada). *)
ASSUME TaskAssumption == IsFiniteSet(Task)
ASSUME NBufAssumption == NBuf \in Nat \ {0}
ASSUME BlockAssumption == NoBlock \notin Block
ASSUME SetupsAssumption ==
    Setups \subseteq [ops : SUBSET OpNames, faults : BOOLEAN, errors : BOOLEAN]

VARIABLES setup,      \* a member of Setups, chosen at the start
          b_blocknr,  \* b_dev and b_blocknr
          b_count, b_dirt, b_uptodate, b_lock,
          fresh,      \* does b_data hold the last contents written to the block?
          free_list,  \* the buffers, least recently claimed first
          queued,     \* the requests under way: pairs <<buffer, command>>
          dfresh,     \* does the disk hold the last contents written to the block?
          pc, op,     \* where a task is, and in which operation
          want,       \* the block it asks getblk for
          ahead,      \* breada: the block still to be read ahead
          bh,         \* the buffer it holds
          tmp,        \* the buffer getblk is looking at
          i           \* the loop counter of sync_dev and its relatives

cache == <<b_blocknr, b_count, b_dirt, b_uptodate, b_lock, fresh, free_list>>
disk == <<queued, dfresh>>
local == <<op, want, ahead, bh, tmp, i>>
vars == <<setup, b_blocknr, b_count, b_dirt, b_uptodate, b_lock, fresh, free_list,
          queued, dfresh, pc, op, want, ahead, bh, tmp, i>>

Goto(t, l) == pc' = [pc EXCEPT ![t] = l]

Init ==
    /\ setup \in Setups
    /\ b_blocknr = [b \in Buf |-> NoBlock]
    /\ b_count = [b \in Buf |-> 0]
    /\ b_dirt = [b \in Buf |-> FALSE]
    /\ b_uptodate = [b \in Buf |-> FALSE]
    /\ b_lock = [b \in Buf |-> FALSE]
    /\ fresh = [b \in Buf |-> FALSE]
    /\ free_list = [n \in Buf |-> n]
    /\ queued = {}
    /\ dfresh = [k \in Block |-> TRUE]
    /\ pc = [t \in Task |-> "idle"]
    /\ op = [t \in Task |-> "read"]
    /\ want = [t \in Task |-> NoBlock]
    /\ ahead = [t \in Task |-> NoBlock]
    /\ bh = [t \in Task |-> NoBuf]
    /\ tmp = [t \in Task |-> NoBuf]
    /\ i = [t \in Task |-> 0]

(* An operation on block k begins; breada also names a block to read ahead. *)
Start(t, o, k, a) ==
    /\ pc[t] = "idle"
    /\ o \in setup.ops
    /\ a # k
    /\ o = "breada" <=> a # NoBlock
    /\ op' = [op EXCEPT ![t] = o]
    /\ want' = [want EXCEPT ![t] = IF o \in {"sync", "invalidate"} THEN NoBlock ELSE k]
    /\ ahead' = [ahead EXCEPT ![t] = a]
    /\ i' = [i EXCEPT ![t] = IF o \in {"sync", "invalidate"} THEN 1 ELSE 0]
    /\ Goto(t, CASE o = "sync" -> "sync" [] o = "invalidate" -> "invalidate" [] OTHER -> "getblk")
    /\ UNCHANGED <<setup, cache, disk, bh, tmp>>

-----------------------------------------------------------------------------
(* getblk *)

Holding(k) == {b \in Buf : b_blocknr[b] = k}

Badness(b) == (IF b_dirt[b] THEN 2 ELSE 0) + (IF b_lock[b] THEN 1 ELSE 0)

(* The first unused buffer of least badness, in free list order. *)
Unused == {n \in Buf : b_count[free_list[n]] = 0}
Victim == LET best == {n \in Unused : \A m \in Unused :
                          Badness(free_list[n]) <= Badness(free_list[m])}
          IN  free_list[CHOOSE n \in best : \A m \in best : n <= m]

MutClaimUsed(b, k) == ~b_dirt[b] /\ Holding(k) = {}

MutClaimDirty(b, k) == b_count[b] = 0 /\ Holding(k) = {}

MutClaimTwice(b, k) == b_count[b] = 0 /\ ~b_dirt[b]

(* A buffer picked is still unused and clean, and the block has not come   *)
(* into the cache by another task's hands.                                 *)
Claimable(b, k) == b_count[b] = 0 /\ ~b_dirt[b] /\ Holding(k) = {}

(* find_buffer, and get_hash_table's reference to what it found. *)
GetHashTable(t) ==
    /\ pc[t] = "getblk"
    /\ \E b \in Holding(want[t]) :
          /\ b_count' = [b_count EXCEPT ![b] = @ + 1]
          /\ tmp' = [tmp EXCEPT ![t] = b]
    /\ Goto(t, "found")
    /\ UNCHANGED <<setup, b_blocknr, b_dirt, b_uptodate, b_lock, fresh, free_list, disk,
                   op, want, ahead, bh, i>>

(* The wait in get_hash_table is over: is it still the same block? *)
Found(t) ==
    LET b == tmp[t] IN
    /\ pc[t] = "found"
    /\ ~b_lock[b]
    /\ \/ /\ b_blocknr[b] = want[t]
          /\ Goto(t, "got")
          /\ UNCHANGED <<b_count, tmp>>
       \/ /\ b_blocknr[b] # want[t]
          /\ b_count' = [b_count EXCEPT ![b] = @ - 1]
          /\ tmp' = [tmp EXCEPT ![t] = NoBuf]
          /\ Goto(t, "getblk")
    /\ UNCHANGED <<setup, b_blocknr, b_dirt, b_uptodate, b_lock, fresh, free_list, disk,
                   op, want, ahead, bh, i>>

(* The block is not in the cache: pick a buffer, or wait for one. *)
PickBuffer(t) ==
    /\ pc[t] = "getblk"
    /\ Holding(want[t]) = {}
    /\ \/ /\ Unused = {}
          /\ Goto(t, "buffer_wait")
          /\ UNCHANGED tmp
       \/ /\ Unused # {}
          /\ tmp' = [tmp EXCEPT ![t] = Victim]
          /\ Goto(t, "victim")
    /\ UNCHANGED <<setup, cache, disk, op, want, ahead, bh, i>>

(* The buffer picked is unlocked.  It may have been taken or dirtied, and  *)
(* the block may have come into the cache, while the task slept.           *)
VictimLost(t) ==
    LET b == tmp[t] IN
    /\ pc[t] = "victim"
    /\ ~b_lock[b]
    /\ b_count[b] # 0 \/ (~b_dirt[b] /\ Holding(want[t]) # {})
    /\ tmp' = [tmp EXCEPT ![t] = NoBuf]
    /\ Goto(t, "getblk")
    /\ UNCHANGED <<setup, cache, disk, op, want, ahead, bh, i>>

VictimDirty(t) ==
    LET b == tmp[t] IN
    /\ pc[t] = "victim"
    /\ ~b_lock[b]
    /\ b_count[b] = 0
    /\ b_dirt[b]
    /\ i' = [i EXCEPT ![t] = 1]
    /\ Goto(t, "sync")
    /\ UNCHANGED <<setup, cache, disk, op, want, ahead, bh, tmp>>

(* remove_from_queues and insert_into_queues: b goes to the free list's end. *)
ToTheEnd(b) ==
    LET at == CHOOSE n \in Buf : free_list[n] = b
    IN  [n \in Buf |-> IF n < at THEN free_list[n] ELSE IF n < NBuf THEN free_list[n + 1] ELSE b]

ClaimBuffer(t) ==
    LET b == tmp[t] IN
    /\ pc[t] = "victim"
    /\ ~b_lock[b]
    /\ Claimable(b, want[t])
    /\ b_count' = [b_count EXCEPT ![b] = 1]
    /\ b_uptodate' = [b_uptodate EXCEPT ![b] = FALSE]
    /\ b_blocknr' = [b_blocknr EXCEPT ![b] = want[t]]
    /\ fresh' = [fresh EXCEPT ![b] = FALSE]
    /\ free_list' = ToTheEnd(b)
    /\ Goto(t, "got")
    /\ UNCHANGED <<setup, b_dirt, b_lock, disk, local>>

-----------------------------------------------------------------------------
(* What the callers of getblk do with the buffer they got. *)

(* bread and breada: a buffer that is not up to date is read. *)
Got(t) ==
    LET b == tmp[t] IN
    /\ pc[t] = "got"
    /\ bh[t] = NoBuf
    /\ op[t] \in {"read", "breada", "file_write"}
    /\ bh' = [bh EXCEPT ![t] = b]
    /\ Goto(t, CASE ~b_uptodate[b] -> "lock"
                 [] b_uptodate[b] /\ op[t] = "breada" -> "ahead"
                 [] OTHER -> "have")
    /\ tmp' = [tmp EXCEPT ![t] = NoBuf]
    /\ UNCHANGED <<setup, cache, disk, op, want, ahead, i>>

(* New contents of block k are written to buffer b. *)
Write(b, k) ==
    /\ fresh' = [c \in Buf |-> c = b \/ (fresh[c] /\ b_blocknr[c] # k)]
    /\ dfresh' = [dfresh EXCEPT ![k] = FALSE]

(* block_write of a whole block: no read, and b_uptodate is left alone. *)
GotBlockWrite(t) ==
    LET b == tmp[t] IN
    /\ pc[t] = "got"
    /\ op[t] = "block_write"
    /\ bh' = [bh EXCEPT ![t] = b]
    /\ Write(b, want[t])
    /\ b_dirt' = [b_dirt EXCEPT ![b] = TRUE]
    /\ tmp' = [tmp EXCEPT ![t] = NoBuf]
    /\ Goto(t, "release")
    /\ UNCHANGED <<setup, b_blocknr, b_count, b_uptodate, b_lock, free_list, queued, op,
                   want, ahead, i>>

(* make_request(READ, bh): lock_buffer, and the check under the lock. *)
LockForRead(t) ==
    LET b == bh[t]
        next == IF op[t] = "breada" THEN "ahead" ELSE "read_wait" IN
    /\ pc[t] = "lock"
    /\ ~b_lock[b]
    /\ \/ b_uptodate[b] /\ Goto(t, next) /\ UNCHANGED b_lock
       \/ ~b_uptodate[b] /\ Goto(t, "request") /\ b_lock' = [b_lock EXCEPT ![b] = TRUE]
    /\ UNCHANGED <<setup, b_blocknr, b_count, b_dirt, b_uptodate, fresh, free_list, disk, local>>

(* A request is free: add_request queues it and clears b_dirt. *)
QueueRead(t) ==
    LET b == bh[t] IN
    /\ pc[t] = "request"
    /\ b_dirt' = [b_dirt EXCEPT ![b] = FALSE]
    /\ queued' = queued \cup {<<b, "READ">>}
    /\ Goto(t, IF op[t] = "breada" THEN "ahead" ELSE "read_wait")
    /\ UNCHANGED <<setup, b_blocknr, b_count, b_uptodate, b_lock, fresh, free_list,
                   dfresh, local>>

(* breada: getblk of the next block to read ahead. *)
Ahead(t) ==
    /\ pc[t] = "ahead"
    /\ want' = [want EXCEPT ![t] = ahead[t]]
    /\ ahead' = [ahead EXCEPT ![t] = NoBlock]
    /\ Goto(t, "getblk")
    /\ UNCHANGED <<setup, cache, disk, op, bh, tmp, i>>

(* breada: ll_rw_block(READA, bh) -- the first buffer again, not the one    *)
(* for the block to read ahead -- does nothing if that buffer is locked or *)
(* up to date, and gives up if no request is free.  Then tmp->b_count--.   *)
ReadAhead(t, free) ==
    LET b == bh[t]
        reads == free /\ ~b_uptodate[tmp[t]] /\ ~b_lock[b] /\ ~b_uptodate[b] IN
    /\ pc[t] = "got"
    /\ b # NoBuf
    /\ b_lock' = [b_lock EXCEPT ![b] = @ \/ reads]
    /\ b_dirt' = [b_dirt EXCEPT ![b] = @ /\ ~reads]
    /\ queued' = IF reads THEN queued \cup {<<b, "READ">>} ELSE queued
    /\ b_count' = [b_count EXCEPT ![tmp[t]] = @ - 1]
    /\ tmp' = [tmp EXCEPT ![t] = NoBuf]
    /\ Goto(t, "read_wait")
    /\ UNCHANGED <<setup, b_blocknr, b_uptodate, fresh, free_list, dfresh, op, want,
                   ahead, bh, i>>

MutReadWait(t) ==
    /\ pc[t] = "read_wait"
    /\ Goto(t, "have")
    /\ UNCHANGED <<setup, cache, disk, local>>

(* bread and breada wait for the read, and fail if it failed. *)
ReadWait(t) ==
    LET b == bh[t] IN
    /\ pc[t] = "read_wait"
    /\ ~b_lock[b]
    /\ Goto(t, IF b_uptodate[b] THEN "have" ELSE "release")
    /\ UNCHANGED <<setup, cache, disk, local>>

(* The caller of bread has its block and only looks at it. *)
Use(t) ==
    /\ pc[t] = "have"
    /\ op[t] \in {"read", "breada"}
    /\ Goto(t, "release")
    /\ UNCHANGED <<setup, cache, disk, local>>

(* file_write sets b_dirt first, ... *)
FileWriteDirty(t) ==
    LET b == bh[t] IN
    /\ pc[t] = "have"
    /\ op[t] = "file_write"
    /\ b_dirt' = [b_dirt EXCEPT ![b] = TRUE]
    /\ \/ /\ setup.faults
          /\ Goto(t, "copy")
          /\ UNCHANGED <<fresh, dfresh>>
       \/ /\ Write(b, want[t])
          /\ Goto(t, "release")
    /\ UNCHANGED <<setup, b_blocknr, b_count, b_uptodate, b_lock, free_list, queued, local>>

(* ... and copies the data after that; the copy may have slept in a fault. *)
FileWriteCopy(t) ==
    LET b == bh[t] IN
    /\ pc[t] = "copy"
    /\ Write(b, want[t])
    /\ Goto(t, "release")
    /\ UNCHANGED <<setup, b_blocknr, b_count, b_dirt, b_uptodate, b_lock, free_list,
                   queued, local>>

(* brelse: wait, drop the reference, wake every task on buffer_wait. *)
Brelse(t) ==
    LET b == bh[t] IN
    /\ pc[t] = "release"
    /\ ~b_lock[b]
    /\ b_count' = [b_count EXCEPT ![b] = @ - 1]
    /\ bh' = [bh EXCEPT ![t] = NoBuf]
    /\ want' = [want EXCEPT ![t] = NoBlock]
    /\ op' = [op EXCEPT ![t] = "read"]
    /\ pc' = [u \in Task |-> CASE u = t -> "idle"
                               [] u # t /\ pc[u] = "buffer_wait" -> "getblk"
                               [] OTHER -> pc[u]]
    /\ UNCHANGED <<setup, b_blocknr, b_dirt, b_uptodate, b_lock, fresh, free_list, disk,
                   ahead, tmp, i>>

-----------------------------------------------------------------------------
(* The loops over all buffers.  sync_dev goes over them twice, sys_sync     *)
(* once (what sync_inodes does in between is module InodeTable's).         *)

Passes(t) == IF op[t] = "sync" THEN 1 ELSE 2
Current(t) == ((i[t] - 1) % NBuf) + 1

SyncNext(t) == i' = [i EXCEPT ![t] = @ + 1]

(* wait_on_buffer is over and there is nothing to write. *)
SyncSkip(t) ==
    LET b == Current(t) IN
    /\ pc[t] = "sync"
    /\ i[t] <= Passes(t) * NBuf
    /\ b_blocknr[b] = NoBlock \/ (~b_lock[b] /\ ~b_dirt[b])
    /\ SyncNext(t)
    /\ UNCHANGED <<setup, cache, disk, pc, op, want, ahead, bh, tmp>>

(* wait_on_buffer is over: make_request(WRITE) locks the dirty buffer. *)
SyncLock(t) ==
    LET b == Current(t) IN
    /\ pc[t] = "sync"
    /\ i[t] <= Passes(t) * NBuf
    /\ ~b_lock[b]
    /\ b_dirt[b]
    /\ b_lock' = [b_lock EXCEPT ![b] = TRUE]
    /\ Goto(t, "sync_request")
    /\ UNCHANGED <<setup, b_blocknr, b_count, b_dirt, b_uptodate, fresh, free_list, disk, local>>

QueueWrite(t) ==
    LET b == Current(t) IN
    /\ pc[t] = "sync_request"
    /\ b_dirt' = [b_dirt EXCEPT ![b] = FALSE]
    /\ queued' = queued \cup {<<b, "WRITE">>}
    /\ SyncNext(t)
    /\ Goto(t, "sync")
    /\ UNCHANGED <<setup, b_blocknr, b_count, b_uptodate, b_lock, fresh, free_list,
                   dfresh, op, want, ahead, bh, tmp>>

(* Back to getblk's "while (bh->b_dirt)", or to user space. *)
SyncDone(t) ==
    /\ pc[t] = "sync"
    /\ i[t] > Passes(t) * NBuf
    /\ Goto(t, IF op[t] = "sync" THEN "idle" ELSE "victim")
    /\ i' = [i EXCEPT ![t] = 0]
    /\ op' = [op EXCEPT ![t] = IF @ = "sync" THEN "read" ELSE @]
    /\ UNCHANGED <<setup, cache, disk, want, ahead, bh, tmp>>

(* invalidate_buffers after a disk change: every buffer is thrown away. *)
Invalidate(t) ==
    LET b == Current(t) IN
    /\ pc[t] = "invalidate"
    /\ ~b_lock[b]
    /\ b_uptodate' = [b_uptodate EXCEPT ![b] = FALSE]
    /\ b_dirt' = [b_dirt EXCEPT ![b] = FALSE]
    /\ i' = [i EXCEPT ![t] = IF @ = NBuf THEN 0 ELSE @ + 1]
    /\ op' = [op EXCEPT ![t] = IF i[t] = NBuf THEN "read" ELSE @]
    /\ Goto(t, IF i[t] = NBuf THEN "idle" ELSE "invalidate")
    /\ UNCHANGED <<setup, b_blocknr, b_count, b_lock, fresh, free_list, disk, want,
                   ahead, bh, tmp>>

-----------------------------------------------------------------------------
(* The disk interrupt: end_request(1) after a transfer, end_request(0)     *)
(* after an error; either unlocks the buffer.  The data are transferred in *)
(* the same step: without faults a buffer written to while its request is  *)
(* under way is dirty again, so it is no matter when they are transferred. *)
EndRequest(b, cmd, ok) ==
    /\ <<b, cmd>> \in queued
    /\ ok \/ setup.errors
    /\ queued' = queued \ {<<b, cmd>>}
    /\ b_lock' = [b_lock EXCEPT ![b] = FALSE]
    /\ b_uptodate' = [b_uptodate EXCEPT ![b] = ok]
    /\ fresh' = [fresh EXCEPT ![b] = IF cmd = "READ" /\ ok THEN dfresh[b_blocknr[b]] ELSE @]
    /\ dfresh' = [dfresh EXCEPT ![b_blocknr[b]] = IF cmd = "WRITE" /\ ok THEN fresh[b] ELSE @]
    /\ UNCHANGED <<setup, b_blocknr, b_count, b_dirt, free_list, pc, local>>

TaskStep(t) ==
    \/ GetHashTable(t)
    \/ Found(t)
    \/ PickBuffer(t)
    \/ VictimLost(t)
    \/ VictimDirty(t)
    \/ ClaimBuffer(t)
    \/ Got(t)
    \/ GotBlockWrite(t)
    \/ LockForRead(t)
    \/ QueueRead(t)
    \/ Ahead(t)
    \/ \E free \in BOOLEAN : ReadAhead(t, free)
    \/ ReadWait(t)
    \/ Use(t)
    \/ FileWriteDirty(t)
    \/ FileWriteCopy(t)
    \/ Brelse(t)
    \/ SyncSkip(t)
    \/ SyncLock(t)
    \/ QueueWrite(t)
    \/ SyncDone(t)
    \/ Invalidate(t)

Interrupt == \E b \in Buf, cmd \in {"READ", "WRITE"} :
                \/ EndRequest(b, cmd, TRUE)
                \/ EndRequest(b, cmd, FALSE)

Next ==
    \/ \E t \in Task : \/ \E o \in OpNames, k \in Block, a \in Block \cup {NoBlock} : Start(t, o, k, a)
                       \/ TaskStep(t)
    \/ Interrupt

Spec == Init /\ [][Next]_vars

-----------------------------------------------------------------------------
(* References: the three things getblk relies on when it reuses a buffer.  *)
(*                                                                         *)
(* "this buffer is the only one of it's kind" (getblk): no block is ever   *)
(* in two buffers, however the searches and the sleeps interleave.         *)
OnlyOneOfItsKind ==
    \A b, c \in Buf : b_blocknr[b] = b_blocknr[c] /\ b_blocknr[b] # NoBlock => b = c

(* b_count is the number of references the tasks hold: a task that waits   *)
(* in get_hash_table counts, a task that waits for a victim does not.      *)
CountsReferences ==
    \A b \in Buf : b_count[b] = Cardinality({t \in Task : bh[t] = b})
                              + Cardinality({t \in Task : pc[t] \in {"found", "got"} /\ tmp[t] = b})

(* b_lock is set exactly from lock_buffer to the end of the request: by    *)
(* one request or by one task that waits for a free request, never both.   *)
LockHasOneOwner ==
    \A b \in Buf :
        LET owners == {r \in queued : r[1] = b}
                      \cup {<<t, "READ">> : t \in {u \in Task : pc[u] = "request" /\ bh[u] = b}}
                      \cup {<<t, "WRITE">> : t \in {u \in Task : pc[u] = "sync_request" /\ Current(u) = b}}
        IN  Cardinality(owners) = IF b_lock[b] THEN 1 ELSE 0

References == OnlyOneOfItsKind /\ CountsReferences /\ LockHasOneOwner

(* A buffer somebody holds is never given to another block. *)
HeldBufferKeepsBlock ==
    [][\A t \in Task : bh[t] # NoBuf => b_blocknr'[bh[t]] = b_blocknr[bh[t]]]_vars

(* What follows is not promised when disks fail, when copies from user     *)
(* space sleep between b_dirt and the data, or when buffers are dropped.   *)
Faultless == ~setup.faults /\ ~setup.errors /\ "invalidate" \notin setup.ops

(* A buffer that is neither dirty nor locked may be reused at any time:    *)
(* the last contents written to its block are then on the disk.            *)
CleanMeansSaved ==
    \A b \in Buf : fresh[b] /\ ~b_dirt[b] /\ ~b_lock[b] => dfresh[b_blocknr[b]]

(* The last contents written to a block are never lost: they are on the    *)
(* disk, or in its buffer, and then the buffer is not up for reuse.        *)
NothingLost ==
    Faultless =>
        /\ \A k \in Block : dfresh[k] \/ \E b \in Holding(k) : fresh[b]
        /\ CleanMeansSaved

(* bread() returns the buffer that contains the block: when the caller     *)
(* gets to look at it, it holds the last contents written.                 *)
BreadReturnsContents ==
    Faultless => \A t \in Task : pc[t] = "have" => fresh[bh[t]]

(* Nobody sleeps on buffer_wait for a buffer that is free, unless a task   *)
(* that is not asleep there holds another one: breada lets go of a buffer  *)
(* without a wake_up, but has the first one, and brelse of that wakes all. *)
FreeBufferIsOffered ==
    (\E t \in Task : pc[t] = "buffer_wait") =>
        Unused = {} \/ \E u \in Task : bh[u] # NoBuf /\ pc[u] # "buffer_wait"
=============================================================================
