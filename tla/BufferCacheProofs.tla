------------------------- MODULE BufferCacheProofs -------------------------
(***************************************************************************)
(* Proofs about the buffer cache, for any tasks, buffers and blocks.       *)
(*                                                                         *)
(* RInv is the inductive invariant of the references and locks: types,     *)
(* what a task's local variables mean where it is, and the three parts of  *)
(* References, the lock's in the form of Locks, which names the owners.    *)
(* It needs all of them at once: that the buffer a task holds keeps its    *)
(* block needs the count, the count needs to know where each task is, and  *)
(* that a dirty buffer may be written needs that its lock has one owner.   *)
(*                                                                         *)
(* DInv adds the contents, for behaviours in which nothing fails: every    *)
(* dirty or valid buffer is fresh, whoever waits to read has nothing fresh *)
(* to destroy, whoever writes writes something fresh, and each block's     *)
(* last contents are somewhere.                                            *)
(***************************************************************************)
EXTENDS BufferCache, Integers, FiniteSetTheorems, WellFoundedInduction, TLAPS

(* The places and the commands, and the types of the variables. *)
Pcs == {"idle", "getblk", "buffer_wait", "found", "victim", "got", "lock", "request", "ahead",
        "read_wait", "have", "copy", "release", "sync", "sync_request", "invalidate"}
Commands == {"READ", "WRITE"}

Types ==
    /\ setup \in Setups
    /\ b_blocknr \in [Buf -> Block \cup {NoBlock}]
    /\ b_count \in [Buf -> Int]
    /\ b_dirt \in [Buf -> BOOLEAN] /\ b_uptodate \in [Buf -> BOOLEAN]
    /\ b_lock \in [Buf -> BOOLEAN] /\ fresh \in [Buf -> BOOLEAN]
    /\ free_list \in [Buf -> Buf]
    /\ queued \subseteq Buf \X Commands
    /\ dfresh \in [Block -> BOOLEAN]
    /\ pc \in [Task -> Pcs] /\ op \in [Task -> OpNames]
    /\ want \in [Task -> Block \cup {NoBlock}] /\ ahead \in [Task -> Block \cup {NoBlock}]
    /\ bh \in [Task -> Buf \cup {NoBuf}] /\ tmp \in [Task -> Buf \cup {NoBuf}]
    /\ i \in [Task -> Nat]

(* Where a task is tells what its local variables hold. *)
Searching == {"getblk", "buffer_wait", "found", "victim", "got"}
Looping == {"sync", "sync_request"}
Local(t) ==
    /\ pc[t] = "idle" => op[t] = "read"
    /\ pc[t] \in {"idle", "invalidate"} => bh[t] = NoBuf
    /\ op[t] = "invalidate" => pc[t] = "invalidate"
    /\ op[t] = "sync" => pc[t] \in Looping /\ bh[t] = NoBuf
    /\ pc[t] = "invalidate" => op[t] = "invalidate"
    /\ pc[t] \in Searching \/ (pc[t] \in Looping /\ op[t] # "sync") =>
          want[t] \in Block /\ (bh[t] # NoBuf => op[t] = "breada")
    /\ pc[t] \in {"found", "victim", "got"} \/ (pc[t] \in Looping /\ op[t] # "sync") => tmp[t] \in Buf
    /\ pc[t] \in {"lock", "request", "ahead", "read_wait", "have", "copy", "release"} => bh[t] \in Buf
    /\ pc[t] \in {"lock", "request", "ahead", "read_wait", "have"} => op[t] # "block_write"
    /\ pc[t] = "ahead" => op[t] = "breada"
    /\ pc[t] = "copy" => op[t] = "file_write"
    /\ op[t] = "breada" /\ (bh[t] = NoBuf \/ pc[t] \in {"lock", "request", "ahead"}) => ahead[t] \in Block
    /\ pc[t] \in Looping \cup {"invalidate"} => i[t] > 0
    /\ pc[t] = "got" => b_blocknr[tmp[t]] = want[t]
    /\ bh[t] # NoBuf => b_blocknr[bh[t]] \in Block /\ (op[t] # "breada" => b_blocknr[bh[t]] = want[t])

(* Who has a buffer locked. *)
Requests(t, b) == pc[t] = "request" /\ bh[t] = b
Syncs(t, b) == pc[t] = "sync_request" /\ Current(t) = b
Owned(b) == \/ \E c \in Commands : <<b, c>> \in queued
            \/ \E t \in Task : Requests(t, b) \/ Syncs(t, b)
Locked(b) ==
        /\ b_lock[b] <=> Owned(b)
        /\ \A c, d \in Commands : <<b, c>> \in queued /\ <<b, d>> \in queued => c = d
        /\ \A c \in Commands, t \in Task : <<b, c>> \in queued => ~Requests(t, b) /\ ~Syncs(t, b)
        /\ \A t, u \in Task : /\ Requests(t, b) => ~Syncs(u, b)
                              /\ Requests(t, b) /\ Requests(u, b) => t = u
                              /\ Syncs(t, b) /\ Syncs(u, b) => t = u
Locks == \A b \in Buf : Locked(b)

(* A buffer that has a block to write or to read. *)
Blocks == \A b \in Buf : b_dirt[b] \/ fresh[b] \/ b_lock[b] => b_blocknr[b] \in Block

(* A task performs an operation of the setup. *)
Ops == \A t \in Task : pc[t] # "idle" => op[t] \in setup.ops

RInv == /\ Types /\ (\A t \in Task : Local(t)) /\ OnlyOneOfItsKind /\ CountsReferences
        /\ Locks /\ Blocks /\ Ops

(* Nobody reads blocks while others write whole ones. *)
Reads == {"read", "breada", "file_write"}
WritesApart == \A s \in Setups : "block_write" \in s.ops => s.ops \cap Reads = {}

(* The data, as far as nothing fails. *)
Content(b) ==
    /\ b_dirt[b] \/ b_uptodate[b] => fresh[b]
    /\ "block_write" \notin setup.ops /\ fresh[b] => b_uptodate[b]
    /\ <<b, "WRITE">> \in queued => fresh[b]
    /\ <<b, "READ">> \in queued => ~fresh[b] /\ "block_write" \notin setup.ops
    /\ fresh[b] /\ ~b_dirt[b] /\ ~b_lock[b] => dfresh[b_blocknr[b]]

TaskData(t) ==
    /\ pc[t] = "have" => b_uptodate[bh[t]]
    /\ pc[t] # "copy"
    /\ pc[t] = "request" => ~fresh[bh[t]]
    /\ pc[t] = "sync_request" => fresh[Current(t)]

Somewhere(k) == dfresh[k] \/ \E b \in Buf : b_blocknr[b] = k /\ fresh[b]

Data == /\ \A b \in Buf : Content(b)
        /\ \A t \in Task : TaskData(t)
        /\ \A k \in Block : Somewhere(k)

DInv == RInv /\ (Faultless => Data)

-----------------------------------------------------------------------------
(* Every set of numbers has a least one. *)
LEMMA LeastOf == ASSUME NEW S \in SUBSET Nat, S # {} PROVE \E n \in S : \A m \in S : n <= m
<1>1. \E n \in S : \A m \in S : ~(<<m, n>> \in OpToRel(<, Nat))
  BY NatLessThanWellFounded, WFMin
<1>2. \E n \in S : \A m \in S : ~(m < n)
  BY <1>1 DEF OpToRel
<1>. QED BY <1>2

(* getblk picks one of the buffers. *)
LEMMA VictimIsBuffer == ASSUME Types, Unused # {} PROVE Victim \in Buf
<1> DEFINE best == {n \in Unused : \A m \in Unused : Badness(free_list[n]) <= Badness(free_list[m])}
<1>1. Unused \subseteq Buf /\ Buf \subseteq Nat
  BY NBufAssumption DEF Unused, Buf
<1>2. \A n \in Unused : Badness(free_list[n]) \in 0..3
  BY DEF Badness, Types, Unused
<1>3. best # {}
  <2> DEFINE bad == {Badness(free_list[n]) : n \in Unused}
  <2>1. PICK k \in bad : \A j \in bad : k <= j
    <3>1. bad \subseteq Nat /\ bad # {}
      BY <1>2
    <3>. QED BY <3>1, LeastOf
  <2>. QED BY <2>1
<1>4. \E n \in best : \A m \in best : n <= m
  <2>1. best \subseteq Nat
    BY <1>1
  <2>. HIDE DEF best
  <2>. QED BY <2>1, <1>3, LeastOf
<1> DEFINE n == CHOOSE n \in best : \A m \in best : n <= m
<1>5. n \in best
  BY <1>4
<1>6. n \in Buf
  BY <1>5, <1>1
<1>7. Victim = free_list[n]
  BY DEF Victim
<1>. QED BY <1>6, <1>7 DEF Types

(* The loops are at a buffer. *)
LEMMA CurrentIsBuffer == ASSUME Types, NEW t \in Task, i[t] > 0 PROVE Current(t) \in Buf
<1>1. NBuf \in Nat /\ NBuf > 0 /\ i[t] - 1 \in Nat
  BY NBufAssumption DEF Types
<1>2. (i[t] - 1) % NBuf \in 0..(NBuf - 1)
  BY <1>1
<1>. QED BY <1>1, <1>2 DEF Current, Buf

(* Moving a buffer to the end leaves the free list a list of buffers.      *)
LEMMA ToTheEndType == ASSUME Types, NEW b \in Buf PROVE ToTheEnd(b) \in [Buf -> Buf]
<1> DEFINE at == CHOOSE n \in Buf : free_list[n] = b
<1>1. \A n \in Buf : n < NBuf => n + 1 \in Buf
  BY NBufAssumption DEF Buf
<1>2. \A n \in Buf : (IF n < at THEN free_list[n] ELSE IF n < NBuf THEN free_list[n + 1] ELSE b) \in Buf
  BY <1>1 DEF Types
<1>. QED BY <1>2 DEF ToTheEnd

(* Every step keeps the variables within their types.                      *)
LEMMA TypesStep == RInv /\ [Next]_vars => Types'
<1> SUFFICES ASSUME RInv, [Next]_vars PROVE Types'
  OBVIOUS
<1>0. Types /\ \A t \in Task : Local(t)
  BY DEF RInv
<1> USE <1>0 DEF Types, Goto, Pcs, OpNames
<1>1. ASSUME NEW t \in Task, NEW o \in OpNames, NEW k \in Block, NEW a \in Block \cup {NoBlock},
             Start(t, o, k, a)
      PROVE  Types'
  BY <1>1 DEF Start, cache, disk
<1>2. ASSUME NEW t \in Task, GetHashTable(t) PROVE Types'
  BY <1>2 DEF GetHashTable, Holding, disk
<1>3. ASSUME NEW t \in Task, Found(t) PROVE Types'
  BY <1>3 DEF Found, disk
<1>4. ASSUME NEW t \in Task, PickBuffer(t) PROVE Types'
  BY <1>4, VictimIsBuffer DEF PickBuffer, cache, disk
<1>5. ASSUME NEW t \in Task, VictimLost(t) PROVE Types'
  BY <1>5 DEF VictimLost, cache, disk
<1>6. ASSUME NEW t \in Task, VictimDirty(t) PROVE Types'
  BY <1>6 DEF VictimDirty, cache, disk
<1>7. ASSUME NEW t \in Task, ClaimBuffer(t) PROVE Types'
  <2>1. tmp[t] \in Buf
    BY <1>7 DEF ClaimBuffer, Local
  <2>2. ToTheEnd(tmp[t]) \in [Buf -> Buf]
    BY <2>1, ToTheEndType
  <2>3. b_blocknr' \in [Buf -> Block \cup {NoBlock}]
    BY <1>7 DEF ClaimBuffer
  <2>4. b_count' \in [Buf -> Int] /\ b_uptodate' \in [Buf -> BOOLEAN] /\ fresh' \in [Buf -> BOOLEAN]
    <3>1. b_count' = [b_count EXCEPT ![tmp[t]] = 1]
      BY <1>7 DEF ClaimBuffer
    <3>2. b_uptodate' = [b_uptodate EXCEPT ![tmp[t]] = FALSE]
      BY <1>7 DEF ClaimBuffer
    <3>3. fresh' = [fresh EXCEPT ![tmp[t]] = FALSE]
      BY <1>7 DEF ClaimBuffer
    <3>. QED BY <3>1, <3>2, <3>3, <2>1
  <2>5. free_list' \in [Buf -> Buf]
    BY <1>7, <2>2 DEF ClaimBuffer
  <2>6. pc' \in [Task -> Pcs]
    BY <1>7 DEF ClaimBuffer
  <2>. QED BY <1>7, <2>3, <2>4, <2>5, <2>6 DEF ClaimBuffer, local, disk
<1>8. ASSUME NEW t \in Task, Got(t) PROVE Types'
  BY <1>8 DEF Got, cache, disk
<1>9. ASSUME NEW t \in Task, GotBlockWrite(t) PROVE Types'
  BY <1>9 DEF GotBlockWrite, Write
<1>10. ASSUME NEW t \in Task, LockForRead(t) PROVE Types'
  BY <1>10 DEF LockForRead, local, disk
<1>11. ASSUME NEW t \in Task, QueueRead(t) PROVE Types'
  BY <1>11 DEF QueueRead, local, Local, Commands
<1>12. ASSUME NEW t \in Task, Ahead(t) PROVE Types'
  BY <1>12 DEF Ahead, cache, disk
<1>13. ASSUME NEW t \in Task, NEW free \in BOOLEAN, ReadAhead(t, free) PROVE Types'
  <2>1. b_count' \in [Buf -> Int]
    <3>1. tmp[t] \in Buf
      BY <1>13 DEF ReadAhead, Local
    <3>2. b_count' = [b_count EXCEPT ![tmp[t]] = @ - 1]
      BY <1>13 DEF ReadAhead
    <3>. QED BY <3>1, <3>2
  <2>4. b_lock' \in [Buf -> BOOLEAN]
    BY <1>13 DEF ReadAhead
  <2>5. b_dirt' \in [Buf -> BOOLEAN]
    BY <1>13 DEF ReadAhead
  <2>2. queued' \subseteq Buf \X Commands
    BY <1>13 DEF ReadAhead, Commands
  <2>3. pc' \in [Task -> Pcs] /\ tmp' \in [Task -> Buf \cup {NoBuf}]
    BY <1>13 DEF ReadAhead
  <2>. QED BY <1>13, <2>1, <2>2, <2>3, <2>4, <2>5 DEF ReadAhead
<1>14. ASSUME NEW t \in Task, ReadWait(t) PROVE Types'
  BY <1>14 DEF ReadWait, cache, disk, local
<1>15. ASSUME NEW t \in Task, Use(t) PROVE Types'
  BY <1>15 DEF Use, cache, disk, local
<1>16. ASSUME NEW t \in Task, FileWriteDirty(t) PROVE Types'
  BY <1>16 DEF FileWriteDirty, Write, local
<1>17. ASSUME NEW t \in Task, FileWriteCopy(t) PROVE Types'
  BY <1>17 DEF FileWriteCopy, Write, local
<1>18. ASSUME NEW t \in Task, Brelse(t) PROVE Types'
  <2>1. b_count' \in [Buf -> Int] /\ bh' \in [Task -> Buf \cup {NoBuf}]
    <3>1. b_count' = [b_count EXCEPT ![bh[t]] = @ - 1] /\ bh' = [bh EXCEPT ![t] = NoBuf]
      BY <1>18 DEF Brelse
    <3>2. bh[t] \in Buf
      BY <1>18 DEF Brelse, Local
    <3>. QED BY <3>1, <3>2
  <2>2. want' \in [Task -> Block \cup {NoBlock}] /\ op' \in [Task -> OpNames]
    BY <1>18 DEF Brelse
  <2>3. pc' \in [Task -> Pcs]
    BY <1>18 DEF Brelse
  <2>. QED BY <1>18, <2>1, <2>2, <2>3 DEF Brelse, disk
<1>19. ASSUME NEW t \in Task, SyncSkip(t) PROVE Types'
  BY <1>19 DEF SyncSkip, SyncNext, cache, disk
<1>20. ASSUME NEW t \in Task, SyncLock(t) PROVE Types'
  BY <1>20 DEF SyncLock, disk, local
<1>21. ASSUME NEW t \in Task, QueueWrite(t) PROVE Types'
  <2>1. Current(t) \in Buf
    BY <1>21, CurrentIsBuffer DEF QueueWrite, Local, Looping
  <2>. QED BY <1>21, <2>1 DEF QueueWrite, SyncNext, Commands
<1>22. ASSUME NEW t \in Task, SyncDone(t) PROVE Types'
  BY <1>22 DEF SyncDone, cache, disk
<1>23. ASSUME NEW t \in Task, Invalidate(t) PROVE Types'
  <2>1. b_uptodate' \in [Buf -> BOOLEAN] /\ b_dirt' \in [Buf -> BOOLEAN]
    BY <1>23 DEF Invalidate
  <2>2. i' \in [Task -> Nat]
    BY <1>23 DEF Invalidate
  <2>3. op' \in [Task -> OpNames]
    BY <1>23 DEF Invalidate
  <2>4. pc' \in [Task -> Pcs]
    BY <1>23 DEF Invalidate
  <2>. QED BY <1>23, <2>1, <2>2, <2>3, <2>4 DEF Invalidate, disk
<1>24. ASSUME NEW b \in Buf, NEW c \in Commands, NEW ok \in BOOLEAN, EndRequest(b, c, ok) PROVE Types'
  <2>1. b_blocknr[b] \in Block
    BY <1>24 DEF EndRequest, RInv, Locks, Locked, Owned, Blocks
  <2>2. queued' \subseteq Buf \X Commands /\ b_lock' \in [Buf -> BOOLEAN] /\ b_uptodate' \in [Buf -> BOOLEAN]
    BY <1>24 DEF EndRequest
  <2>3. fresh' \in [Buf -> BOOLEAN]
    BY <1>24, <2>1 DEF EndRequest
  <2>4. dfresh' \in [Block -> BOOLEAN]
    BY <1>24 DEF EndRequest
  <2>. QED BY <1>24, <2>2, <2>3, <2>4 DEF EndRequest, local
<1>25. CASE UNCHANGED vars
  BY <1>25 DEF vars
<1>. QED
  BY <1>1, <1>2, <1>3, <1>4, <1>5, <1>6, <1>7, <1>8, <1>9, <1>10, <1>11, <1>12, <1>13, <1>14, <1>15,
     <1>16, <1>17, <1>18, <1>19, <1>20, <1>21, <1>22, <1>23, <1>24, <1>25
     DEF Next, TaskStep, Interrupt, Commands

(* Nobody holds a buffer with no references, and nobody waits for it.      *)
Holders(b) == {t \in Task : bh[t] = b}
Lookers(b) == {t \in Task : pc[t] \in {"found", "got"} /\ tmp[t] = b}

(* The references to a buffer can be counted.                              *)
LEMMA FiniteReferences ==
    \A b : /\ IsFiniteSet(Holders(b)) /\ IsFiniteSet(Lookers(b))
          /\ Cardinality(Holders(b)) \in Nat /\ Cardinality(Lookers(b)) \in Nat
<1>1. \A b : Holders(b) \in SUBSET Task /\ Lookers(b) \in SUBSET Task
  BY DEF Holders, Lookers
<1>2. \A b : IsFiniteSet(Holders(b)) /\ IsFiniteSet(Lookers(b))
  BY <1>1, TaskAssumption, FS_Subset
<1>. QED BY <1>2, FS_CardinalityType

(* b_count, by the names the lemmas use.                                   *)
LEMMA Counted ==
    ASSUME CountsReferences, NEW b \in Buf
    PROVE  b_count[b] = Cardinality(Holders(b)) + Cardinality(Lookers(b))
  BY DEF CountsReferences, Holders, Lookers

(* A count of zero means that nobody refers to the buffer.                 *)
LEMMA Unreferenced ==
    ASSUME CountsReferences, NEW b \in Buf, b_count[b] = 0
    PROVE  Holders(b) = {} /\ Lookers(b) = {}
<1>1. Cardinality(Holders(b)) = 0 /\ Cardinality(Lookers(b)) = 0
  BY Counted, FiniteReferences
<1>. QED BY <1>1, FiniteReferences, FS_EmptySet

(* The local variables of a task agree with where it is.                   *)
LEMMA LocalStep == RInv /\ [Next]_vars => \A u \in Task : Local(u)'
<1> SUFFICES ASSUME RInv, [Next]_vars, NEW u \in Task PROVE Local(u)'
  OBVIOUS
<1>0. Types /\ Local(u) /\ \A t \in Task : Local(t)
  BY DEF RInv
<1> USE <1>0 DEF Types, Local, Goto, Searching, Looping
<1>1. ASSUME NEW t \in Task, NEW o \in OpNames, NEW k \in Block, NEW a \in Block \cup {NoBlock},
             Start(t, o, k, a)
      PROVE  Local(u)'
  BY <1>1, BlockAssumption DEF Start, cache, disk
<1>2. ASSUME NEW t \in Task, GetHashTable(t) PROVE Local(u)'
  BY <1>2 DEF GetHashTable, Holding, disk
<1>3. ASSUME NEW t \in Task, Found(t) PROVE Local(u)'
  BY <1>3 DEF Found, disk
<1>4. ASSUME NEW t \in Task, PickBuffer(t) PROVE Local(u)'
  BY <1>4, VictimIsBuffer DEF PickBuffer, cache, disk
<1>5. ASSUME NEW t \in Task, VictimLost(t) PROVE Local(u)'
  BY <1>5 DEF VictimLost, cache, disk
<1>6. ASSUME NEW t \in Task, VictimDirty(t) PROVE Local(u)'
  BY <1>6 DEF VictimDirty, cache, disk
<1>7. ASSUME NEW t \in Task, ClaimBuffer(t) PROVE Local(u)'
  <2>1. tmp[t] \in Buf /\ want[t] \in Block
    BY <1>7 DEF ClaimBuffer
  <2>2. bh[u] # tmp[t] /\ (pc[u] \in {"found", "got"} => tmp[u] # tmp[t])
    BY <1>7, <2>1, Unreferenced DEF ClaimBuffer, Claimable, Holders, Lookers, RInv
  <2>3. bh[u] # NoBuf => b_blocknr'[bh[u]] = b_blocknr[bh[u]]
    BY <1>7, <2>1, <2>2 DEF ClaimBuffer
  <2>4. u # t /\ pc[u] = "got" => b_blocknr'[tmp[u]] = b_blocknr[tmp[u]]
    BY <1>7, <2>1, <2>2 DEF ClaimBuffer
  <2>5. CASE u = t
    BY <1>7, <2>1, <2>3, <2>5 DEF ClaimBuffer, local, disk
  <2>6. CASE u # t
    BY <1>7, <2>1, <2>3, <2>4, <2>6 DEF ClaimBuffer, local, disk
  <2>. QED BY <2>5, <2>6
<1>8. ASSUME NEW t \in Task, Got(t) PROVE Local(u)'
  BY <1>8 DEF Got, cache, disk
<1>9. ASSUME NEW t \in Task, GotBlockWrite(t) PROVE Local(u)'
  BY <1>9 DEF GotBlockWrite, Write
<1>10. ASSUME NEW t \in Task, LockForRead(t) PROVE Local(u)'
  BY <1>10 DEF LockForRead, disk, local
<1>11. ASSUME NEW t \in Task, QueueRead(t) PROVE Local(u)'
  BY <1>11 DEF QueueRead, local
<1>12. ASSUME NEW t \in Task, Ahead(t) PROVE Local(u)'
  <2>1. bh[t] # NoBuf
    BY <1>12, NBufAssumption DEF Ahead, Buf, NoBuf
  <2>. QED BY <1>12, <2>1 DEF Ahead, cache, disk
<1>13. ASSUME NEW t \in Task, NEW free \in BOOLEAN, ReadAhead(t, free) PROVE Local(u)'
  BY <1>13 DEF ReadAhead
<1>14. ASSUME NEW t \in Task, ReadWait(t) PROVE Local(u)'
  BY <1>14 DEF ReadWait, cache, disk, local
<1>15. ASSUME NEW t \in Task, Use(t) PROVE Local(u)'
  BY <1>15 DEF Use, cache, disk, local
<1>16. ASSUME NEW t \in Task, FileWriteDirty(t) PROVE Local(u)'
  BY <1>16 DEF FileWriteDirty, local, Write
<1>17. ASSUME NEW t \in Task, FileWriteCopy(t) PROVE Local(u)'
  BY <1>17 DEF FileWriteCopy, local, Write
<1>18. ASSUME NEW t \in Task, Brelse(t) PROVE Local(u)'
  BY <1>18 DEF Brelse, disk
<1>19. ASSUME NEW t \in Task, SyncSkip(t) PROVE Local(u)'
  BY <1>19 DEF SyncSkip, SyncNext, cache, disk
<1>20. ASSUME NEW t \in Task, SyncLock(t) PROVE Local(u)'
  BY <1>20 DEF SyncLock, disk, local
<1>21. ASSUME NEW t \in Task, QueueWrite(t) PROVE Local(u)'
  BY <1>21 DEF QueueWrite, SyncNext
<1>22. ASSUME NEW t \in Task, SyncDone(t) PROVE Local(u)'
  BY <1>22 DEF SyncDone, cache, disk
<1>23. ASSUME NEW t \in Task, Invalidate(t) PROVE Local(u)'
  BY <1>23 DEF Invalidate, disk
<1>24. ASSUME NEW b \in Buf, NEW c \in Commands, NEW ok \in BOOLEAN, EndRequest(b, c, ok) PROVE Local(u)'
  BY <1>24 DEF EndRequest, local
<1>25. CASE UNCHANGED vars
  BY <1>25 DEF vars
<1>. QED
  BY <1>1, <1>2, <1>3, <1>4, <1>5, <1>6, <1>7, <1>8, <1>9, <1>10, <1>11, <1>12, <1>13, <1>14, <1>15,
     <1>16, <1>17, <1>18, <1>19, <1>20, <1>21, <1>22, <1>23, <1>24, <1>25
     DEF Next, TaskStep, Interrupt, Commands

-----------------------------------------------------------------------------
(* The buffers that are given out. *)
LEMMA WhoClaims == [Next]_vars => b_blocknr' = b_blocknr \/ \E t \in Task : ClaimBuffer(t)
<1> SUFFICES ASSUME [Next]_vars PROVE b_blocknr' = b_blocknr \/ \E t \in Task : ClaimBuffer(t)
  OBVIOUS
<1>1. ASSUME NEW t \in Task, NEW o \in OpNames, NEW k \in Block, NEW a \in Block \cup {NoBlock},
             Start(t, o, k, a)
      PROVE  b_blocknr' = b_blocknr
  BY <1>1 DEF Start, cache
<1>2. ASSUME NEW t \in Task, TaskStep(t), ~ClaimBuffer(t) PROVE b_blocknr' = b_blocknr
  BY <1>2 DEF TaskStep, cache, GetHashTable, Found, PickBuffer, VictimLost, VictimDirty, Got,
     GotBlockWrite, LockForRead, QueueRead, Ahead, ReadAhead, ReadWait, Use, FileWriteDirty,
     FileWriteCopy, Brelse, SyncSkip, SyncLock, QueueWrite, SyncDone, Invalidate
<1>3. ASSUME Interrupt PROVE b_blocknr' = b_blocknr
  BY <1>3 DEF Interrupt, EndRequest
<1>. QED BY <1>1, <1>2, <1>3 DEF Next, vars

(* getblk gives a block a buffer only while it has none.                   *)
LEMMA OnlyOneStep == RInv /\ [Next]_vars => OnlyOneOfItsKind'
<1> SUFFICES ASSUME RInv, [Next]_vars PROVE OnlyOneOfItsKind'
  OBVIOUS
<1>0. Types /\ OnlyOneOfItsKind
  BY DEF RInv
<1>1. CASE b_blocknr' = b_blocknr
  BY <1>0, <1>1 DEF OnlyOneOfItsKind
<1>2. ASSUME NEW t \in Task, ClaimBuffer(t) PROVE OnlyOneOfItsKind'
  BY <1>0, <1>2 DEF ClaimBuffer, Claimable, Holding, OnlyOneOfItsKind, Types
<1>. QED BY <1>1, <1>2, WhoClaims

(* References do not change in most steps. *)
LEMMA SameReferences ==
    ASSUME CountsReferences, b_count' = b_count, bh' = bh,
           \A u \in Task : /\ pc'[u] \in {"found", "got"} <=> pc[u] \in {"found", "got"}
                           /\ pc[u] \in {"found", "got"} => tmp'[u] = tmp[u]
    PROVE  CountsReferences'
<1> SUFFICES ASSUME NEW b \in Buf PROVE b_count'[b] = Cardinality(Holders(b)') + Cardinality(Lookers(b)')
  BY DEF CountsReferences, Holders, Lookers
<1>1. Holders(b)' = Holders(b) /\ Lookers(b)' = Lookers(b)
  BY DEF Holders, Lookers
<1>. QED BY <1>1, Counted

(* A search in the hash table takes a reference.                           *)
LEMMA LookerAdded ==
    ASSUME CountsReferences, Types, NEW t \in Task, NEW b \in Buf,
           pc[t] \notin {"found", "got"}, pc'[t] \in {"found", "got"}, tmp'[t] = b, bh' = bh,
           \A u \in Task \ {t} : pc'[u] = pc[u] /\ tmp'[u] = tmp[u],
           b_count' = [b_count EXCEPT ![b] = @ + 1]
    PROVE  CountsReferences'
<1> SUFFICES ASSUME NEW c \in Buf PROVE b_count'[c] = Cardinality(Holders(c)') + Cardinality(Lookers(c)')
  BY DEF CountsReferences, Holders, Lookers
<1>1. Holders(c)' = Holders(c)
  BY DEF Holders
<1>2. t \notin Lookers(c)
  BY DEF Lookers
<1>3. Lookers(c)' = IF c = b THEN Lookers(c) \cup {t} ELSE Lookers(c)
  BY DEF Lookers
<1>4. Cardinality(Lookers(c)') = IF c = b THEN Cardinality(Lookers(c)) + 1 ELSE Cardinality(Lookers(c))
  <2>1. IsFiniteSet(Lookers(c)) /\ Cardinality(Lookers(c) \cup {t}) = Cardinality(Lookers(c)) + 1
    BY <1>2, FiniteReferences, FS_AddElement
  <2>. QED BY <1>3, <2>1
<1>5. b_count'[c] = IF c = b THEN b_count[c] + 1 ELSE b_count[c]
  BY DEF Types
<1>. QED BY <1>1, <1>4, <1>5, Counted, FiniteReferences

(* A task gives up the reference of a search.                              *)
LEMMA LookerRemoved ==
    ASSUME CountsReferences, Types, NEW t \in Task, NEW b \in Buf,
           pc[t] \in {"found", "got"}, tmp[t] = b, pc'[t] \notin {"found", "got"}, bh' = bh,
           \A u \in Task \ {t} : pc'[u] = pc[u] /\ tmp'[u] = tmp[u],
           b_count' = [b_count EXCEPT ![b] = @ - 1]
    PROVE  CountsReferences'
<1> SUFFICES ASSUME NEW c \in Buf PROVE b_count'[c] = Cardinality(Holders(c)') + Cardinality(Lookers(c)')
  BY DEF CountsReferences, Holders, Lookers
<1>1. Holders(c)' = Holders(c)
  BY DEF Holders
<1>2. t \in Lookers(c) <=> c = b
  BY DEF Lookers
<1>3. Lookers(c)' = IF c = b THEN Lookers(c) \ {t} ELSE Lookers(c)
  BY DEF Lookers
<1>4. Cardinality(Lookers(c)') = IF c = b THEN Cardinality(Lookers(c)) - 1 ELSE Cardinality(Lookers(c))
  BY <1>2, <1>3, FiniteReferences, FS_RemoveElement
<1>5. b_count'[c] = IF c = b THEN b_count[c] - 1 ELSE b_count[c]
  BY DEF Types
<1>. QED BY <1>1, <1>4, <1>5, Counted, FiniteReferences

(* The reference of a search becomes the one the caller holds.             *)
LEMMA LookerHolds ==
    ASSUME CountsReferences, Types, NEW t \in Task, NEW b \in Buf,
           pc[t] \in {"found", "got"}, tmp[t] = b, pc'[t] \notin {"found", "got"},
           bh[t] = NoBuf, bh' = [bh EXCEPT ![t] = b], b_count' = b_count,
           \A u \in Task \ {t} : pc'[u] = pc[u] /\ tmp'[u] = tmp[u]
    PROVE  CountsReferences'
<1> SUFFICES ASSUME NEW c \in Buf PROVE b_count'[c] = Cardinality(Holders(c)') + Cardinality(Lookers(c)')
  BY DEF CountsReferences, Holders, Lookers
<1>0. NoBuf \notin Buf
  BY NBufAssumption DEF Buf, NoBuf
<1>1. Holders(c)' = IF c = b THEN Holders(c) \cup {t} ELSE Holders(c)
  BY <1>0 DEF Holders, Types
<1>2. t \notin Holders(c) /\ (t \in Lookers(c) <=> c = b)
  BY <1>0 DEF Holders, Lookers
<1>3. Lookers(c)' = IF c = b THEN Lookers(c) \ {t} ELSE Lookers(c)
  BY DEF Lookers
<1>4. Cardinality(Lookers(c)') = IF c = b THEN Cardinality(Lookers(c)) - 1 ELSE Cardinality(Lookers(c))
  BY <1>2, <1>3, FiniteReferences, FS_RemoveElement
<1>5. Cardinality(Holders(c)') = IF c = b THEN Cardinality(Holders(c)) + 1 ELSE Cardinality(Holders(c))
  <2>1. IsFiniteSet(Holders(c)) /\ Cardinality(Holders(c) \cup {t}) = Cardinality(Holders(c)) + 1
    BY <1>2, FiniteReferences, FS_AddElement
  <2>. QED BY <1>1, <2>1
<1>. QED BY <1>4, <1>5, Counted, FiniteReferences

(* brelse gives up the reference a task holds.                             *)
LEMMA HolderRemoved ==
    ASSUME CountsReferences, Types, NEW t \in Task, NEW b \in Buf,
           bh[t] = b, bh' = [bh EXCEPT ![t] = NoBuf], tmp' = tmp,
           \A u \in Task : pc'[u] \in {"found", "got"} <=> pc[u] \in {"found", "got"},
           b_count' = [b_count EXCEPT ![b] = @ - 1]
    PROVE  CountsReferences'
<1> SUFFICES ASSUME NEW c \in Buf PROVE b_count'[c] = Cardinality(Holders(c)') + Cardinality(Lookers(c)')
  BY DEF CountsReferences, Holders, Lookers
<1>0. NoBuf \notin Buf
  BY NBufAssumption DEF Buf, NoBuf
<1>1. Holders(c)' = IF c = b THEN Holders(c) \ {t} ELSE Holders(c)
  BY <1>0 DEF Holders, Types
<1>2. t \in Holders(c) <=> c = b
  BY DEF Holders
<1>3. Lookers(c)' = Lookers(c)
  BY DEF Lookers
<1>4. Cardinality(Holders(c)') = IF c = b THEN Cardinality(Holders(c)) - 1 ELSE Cardinality(Holders(c))
  BY <1>1, <1>2, FiniteReferences, FS_RemoveElement
<1>5. b_count'[c] = IF c = b THEN b_count[c] - 1 ELSE b_count[c]
  BY DEF Types
<1>. QED BY <1>3, <1>4, <1>5, Counted, FiniteReferences

(* Every step that takes or gives up a reference changes b_count with it.  *)
LEMMA CountStep == RInv /\ [Next]_vars => CountsReferences'
<1> SUFFICES ASSUME RInv, [Next]_vars PROVE CountsReferences'
  OBVIOUS
<1>0. Types /\ CountsReferences /\ \A t \in Task : Local(t)
  BY DEF RInv
<1> USE <1>0 DEF Types, Goto
<1>1. ASSUME NEW t \in Task, NEW o \in OpNames, NEW k \in Block, NEW a \in Block \cup {NoBlock},
             Start(t, o, k, a)
      PROVE  CountsReferences'
  BY <1>1, SameReferences DEF Start, cache, disk
<1>2. ASSUME NEW t \in Task, GetHashTable(t) PROVE CountsReferences'
  <2>1. PICK b \in Buf : b_count' = [b_count EXCEPT ![b] = @ + 1] /\ tmp' = [tmp EXCEPT ![t] = b]
    BY <1>2 DEF GetHashTable, Holding
  <2>. QED BY <1>2, <2>1, LookerAdded DEF GetHashTable
<1>3. ASSUME NEW t \in Task, Found(t) PROVE CountsReferences'
  <2>1. tmp[t] \in Buf
    BY <1>3 DEF Found, Local
  <2>2. CASE b_blocknr[tmp[t]] = want[t]
    BY <1>3, <2>2, SameReferences DEF Found
  <2>3. CASE b_blocknr[tmp[t]] # want[t]
    BY <1>3, <2>1, <2>3, LookerRemoved DEF Found
  <2>. QED BY <2>2, <2>3
<1>4. ASSUME NEW t \in Task, PickBuffer(t) PROVE CountsReferences'
  BY <1>4, SameReferences DEF PickBuffer, cache, disk
<1>5. ASSUME NEW t \in Task, VictimLost(t) PROVE CountsReferences'
  BY <1>5, SameReferences DEF VictimLost, cache, disk
<1>6. ASSUME NEW t \in Task, VictimDirty(t) PROVE CountsReferences'
  BY <1>6, SameReferences DEF VictimDirty, cache, disk
<1>7. ASSUME NEW t \in Task, ClaimBuffer(t) PROVE CountsReferences'
  <2>1. tmp[t] \in Buf
    BY <1>7 DEF ClaimBuffer, Local
  <2>2. b_count[tmp[t]] = 0
    BY <1>7 DEF ClaimBuffer, Claimable
  <2>3. b_count' = [b_count EXCEPT ![tmp[t]] = @ + 1]
    BY <1>7, <2>1, <2>2 DEF ClaimBuffer
  <2>4. pc[t] = "victim" /\ pc' = [pc EXCEPT ![t] = "got"] /\ tmp' = tmp /\ bh' = bh
    BY <1>7 DEF ClaimBuffer, local
  <2>. QED BY <2>1, <2>3, <2>4, LookerAdded
<1>8. ASSUME NEW t \in Task, Got(t) PROVE CountsReferences'
  <2>1. tmp[t] \in Buf /\ bh[t] = NoBuf
    BY <1>8 DEF Got, Local, Searching
  <2>. QED BY <1>8, <2>1, LookerHolds DEF Got, cache, disk
<1>9. ASSUME NEW t \in Task, GotBlockWrite(t) PROVE CountsReferences'
  <2>1. tmp[t] \in Buf /\ bh[t] = NoBuf
    BY <1>9 DEF GotBlockWrite, Local, Searching
  <2>. QED BY <1>9, <2>1, LookerHolds DEF GotBlockWrite, Write
<1>10. ASSUME NEW t \in Task, LockForRead(t) PROVE CountsReferences'
  BY <1>10, SameReferences DEF LockForRead, disk, local
<1>11. ASSUME NEW t \in Task, QueueRead(t) PROVE CountsReferences'
  BY <1>11, SameReferences DEF QueueRead, local
<1>12. ASSUME NEW t \in Task, Ahead(t) PROVE CountsReferences'
  BY <1>12, SameReferences DEF Ahead, cache, disk
<1>13. ASSUME NEW t \in Task, NEW free \in BOOLEAN, ReadAhead(t, free) PROVE CountsReferences'
  <2>1. tmp[t] \in Buf
    BY <1>13 DEF ReadAhead, Local
  <2>. QED BY <1>13, <2>1, LookerRemoved DEF ReadAhead
<1>14. ASSUME NEW t \in Task, ReadWait(t) PROVE CountsReferences'
  BY <1>14, SameReferences DEF ReadWait, cache, disk, local
<1>15. ASSUME NEW t \in Task, Use(t) PROVE CountsReferences'
  BY <1>15, SameReferences DEF Use, cache, disk, local
<1>16. ASSUME NEW t \in Task, FileWriteDirty(t) PROVE CountsReferences'
  BY <1>16, SameReferences DEF FileWriteDirty, local, Write
<1>17. ASSUME NEW t \in Task, FileWriteCopy(t) PROVE CountsReferences'
  BY <1>17, SameReferences DEF FileWriteCopy, local, Write
<1>18. ASSUME NEW t \in Task, Brelse(t) PROVE CountsReferences'
  <2>1. bh[t] \in Buf
    BY <1>18 DEF Brelse, Local
  <2>. QED BY <1>18, <2>1, HolderRemoved DEF Brelse
<1>19. ASSUME NEW t \in Task, SyncSkip(t) PROVE CountsReferences'
  BY <1>19, SameReferences DEF SyncSkip, SyncNext, cache, disk
<1>20. ASSUME NEW t \in Task, SyncLock(t) PROVE CountsReferences'
  BY <1>20, SameReferences DEF SyncLock, disk, local
<1>21. ASSUME NEW t \in Task, QueueWrite(t) PROVE CountsReferences'
  BY <1>21, SameReferences DEF QueueWrite, SyncNext
<1>22. ASSUME NEW t \in Task, SyncDone(t) PROVE CountsReferences'
  BY <1>22, SameReferences DEF SyncDone, cache, disk
<1>23. ASSUME NEW t \in Task, Invalidate(t) PROVE CountsReferences'
  BY <1>23, SameReferences DEF Invalidate, disk
<1>24. ASSUME NEW b \in Buf, NEW c \in Commands, NEW ok \in BOOLEAN, EndRequest(b, c, ok) PROVE CountsReferences'
  BY <1>24, SameReferences DEF EndRequest, local
<1>25. CASE UNCHANGED vars
  BY <1>25, SameReferences DEF vars
<1>. QED
  BY <1>1, <1>2, <1>3, <1>4, <1>5, <1>6, <1>7, <1>8, <1>9, <1>10, <1>11, <1>12, <1>13, <1>14, <1>15,
     <1>16, <1>17, <1>18, <1>19, <1>20, <1>21, <1>22, <1>23, <1>24, <1>25
     DEF Next, TaskStep, Interrupt, Commands

-----------------------------------------------------------------------------
(* Locks are kept by the steps that have nothing to do with them. *)
LEMMA SameLocks ==
    ASSUME Locks, b_lock' = b_lock, queued' = queued,
           \A u \in Task : /\ pc'[u] = "request" <=> pc[u] = "request"
                           /\ pc'[u] = "sync_request" <=> pc[u] = "sync_request"
                           /\ pc[u] = "request" => bh'[u] = bh[u]
                           /\ pc[u] = "sync_request" => i'[u] = i[u]
    PROVE  Locks'
<1>1. \A u \in Task, b \in Buf : (Requests(u, b)' <=> Requests(u, b)) /\ (Syncs(u, b)' <=> Syncs(u, b))
  BY DEF Requests, Syncs, Current
<1>. QED BY <1>1 DEF Locks, Locked, Owned

(* A task or the disk takes a free lock, a task hands it over to the disk, *)
(* and the disk lets it go.                                                *)
LEMMA LockStep == RInv /\ [Next]_vars => Locks'
<1> SUFFICES ASSUME RInv, [Next]_vars PROVE Locks'
  OBVIOUS
<1>0. Types /\ Locks /\ \A t \in Task : Local(t)
  BY DEF RInv
<1> USE <1>0 DEF Types, Goto
<1>1. ASSUME NEW t \in Task, NEW o \in OpNames, NEW k \in Block, NEW a \in Block \cup {NoBlock},
             Start(t, o, k, a)
      PROVE  Locks'
  BY <1>1, SameLocks DEF Start, cache, disk
<1>2. ASSUME NEW t \in Task, GetHashTable(t) PROVE Locks'
  BY <1>2, SameLocks DEF GetHashTable, Holding, disk
<1>3. ASSUME NEW t \in Task, Found(t) PROVE Locks'
  BY <1>3, SameLocks DEF Found, disk
<1>4. ASSUME NEW t \in Task, PickBuffer(t) PROVE Locks'
  BY <1>4, SameLocks DEF PickBuffer, cache, disk
<1>5. ASSUME NEW t \in Task, VictimLost(t) PROVE Locks'
  BY <1>5, SameLocks DEF VictimLost, cache, disk
<1>6. ASSUME NEW t \in Task, VictimDirty(t) PROVE Locks'
  BY <1>6, SameLocks DEF VictimDirty, cache, disk
<1>7. ASSUME NEW t \in Task, ClaimBuffer(t) PROVE Locks'
  BY <1>7, SameLocks DEF ClaimBuffer, local, disk
<1>8. ASSUME NEW t \in Task, Got(t) PROVE Locks'
  BY <1>8, SameLocks DEF Got, cache, disk
<1>9. ASSUME NEW t \in Task, GotBlockWrite(t) PROVE Locks'
  BY <1>9, SameLocks DEF GotBlockWrite, Write
<1>10. ASSUME NEW t \in Task, LockForRead(t) PROVE Locks'
  <2>1. CASE b_uptodate[bh[t]]
    BY <1>10, <2>1, SameLocks DEF LockForRead, local, disk
  <2>2. CASE ~b_uptodate[bh[t]]
    <3>1. PICK b \in Buf : b = bh[t]
      BY <1>10 DEF LockForRead, Local
    <3>2. \A u \in Task, d \in Buf : /\ Requests(u, d)' <=> Requests(u, d) \/ (u = t /\ d = b)
                                     /\ Syncs(u, d)' <=> Syncs(u, d)
      BY <1>10, <2>2, <3>1 DEF LockForRead, Requests, Syncs, Current, local
    <3>3. queued' = queued /\ ~b_lock[b] /\ \A d \in Buf : b_lock'[d] <=> b_lock[d] \/ d = b
      BY <1>10, <2>2, <3>1 DEF LockForRead, disk
    <3>4. ASSUME NEW d \in Buf \ {b} PROVE Locked(d)'
      BY <3>2, <3>3 DEF Locks, Locked, Owned
    <3>5. Locked(b) /\ ~Owned(b)
      BY <3>3 DEF Locks, Locked
    <3>6. Locked(b)'
      BY <3>2, <3>3, <3>5 DEF Locked, Owned
    <3>. QED BY <3>4, <3>6 DEF Locks
  <2>. QED BY <2>1, <2>2
<1>11. ASSUME NEW t \in Task, QueueRead(t) PROVE Locks'
  <2>1. PICK b \in Buf : b = bh[t]
    BY <1>11 DEF QueueRead, Local
  <2>2. Requests(t, b) /\ \A d \in Buf : Requests(t, d) => d = b
    BY <1>11, <2>1 DEF QueueRead, Requests
  <2>3. \A u \in Task, d \in Buf : (Requests(u, d)' <=> Requests(u, d) /\ u # t) /\ (Syncs(u, d)' <=> Syncs(u, d))
    BY <1>11 DEF QueueRead, Requests, Syncs, Current, local
  <2>4. b_lock' = b_lock /\ \A d \in Buf, c \in Commands :
            <<d, c>> \in queued' <=> <<d, c>> \in queued \/ (d = b /\ c = "READ")
    BY <1>11, <2>1 DEF QueueRead
  <2>5. ASSUME NEW d \in Buf \ {b} PROVE Locked(d)'
    <3>1. d # b /\ ~Requests(t, d)
      BY <2>2
    <3>2. \A u \in Task : (Requests(u, d)' <=> Requests(u, d)) /\ (Syncs(u, d)' <=> Syncs(u, d))
      BY <2>3, <3>1
    <3>3. b_lock'[d] = b_lock[d] /\ \A c \in Commands : <<d, c>> \in queued' <=> <<d, c>> \in queued
      BY <2>4, <3>1
    <3>4. Locked(d)
      BY DEF Locks
    <3>. QED BY <3>2, <3>3, <3>4 DEF Locked, Owned
  <2>6. Locked(b) /\ "READ" \in Commands
    BY DEF Locks, Commands
  <2>7. \A u \in Task : ~Requests(u, b)' /\ ~Syncs(u, b)'
    BY <2>2, <2>3, <2>6 DEF Locked
  <2>8. Locked(b)'
    BY <2>2, <2>4, <2>6, <2>7 DEF Locked, Owned
  <2>. QED BY <2>5, <2>8 DEF Locks
<1>12. ASSUME NEW t \in Task, Ahead(t) PROVE Locks'
  BY <1>12, SameLocks DEF Ahead, cache, disk
<1>13. ASSUME NEW t \in Task, NEW free \in BOOLEAN, ReadAhead(t, free) PROVE Locks'
  <2>1. tmp[t] \in Buf
    BY <1>13 DEF ReadAhead, Local
  <2>2. PICK b \in Buf : b = bh[t]
    BY <1>13 DEF ReadAhead
  <2> DEFINE reads == free /\ ~b_uptodate[tmp[t]] /\ ~b_lock[b] /\ ~b_uptodate[b]
  <2>3. CASE ~reads
    BY <1>13, <2>1, <2>2, <2>3, SameLocks DEF ReadAhead
  <2>4. CASE reads
    <3>1. \A u \in Task, d \in Buf : (Requests(u, d)' <=> Requests(u, d)) /\ (Syncs(u, d)' <=> Syncs(u, d))
      BY <1>13 DEF ReadAhead, Requests, Syncs, Current
    <3>2. ~b_lock[b] /\ \A d \in Buf : b_lock'[d] <=> b_lock[d] \/ d = b
      BY <1>13, <2>2, <2>4 DEF ReadAhead
    <3>3. \A d \in Buf, c \in Commands :
              <<d, c>> \in queued' <=> <<d, c>> \in queued \/ (d = b /\ c = "READ")
      BY <1>13, <2>2, <2>4 DEF ReadAhead
    <3>4. ASSUME NEW d \in Buf \ {b} PROVE Locked(d)'
      BY <3>1, <3>2, <3>3 DEF Locks, Locked, Owned
    <3>5. Locked(b) /\ ~Owned(b) /\ "READ" \in Commands
      BY <3>2 DEF Locks, Locked, Commands
    <3>6. Locked(b)'
      BY <3>1, <3>2, <3>3, <3>5 DEF Locked, Owned
    <3>. QED BY <3>4, <3>6 DEF Locks
  <2>. QED BY <2>3, <2>4
<1>14. ASSUME NEW t \in Task, ReadWait(t) PROVE Locks'
  BY <1>14, SameLocks DEF ReadWait, cache, disk, local
<1>15. ASSUME NEW t \in Task, Use(t) PROVE Locks'
  BY <1>15, SameLocks DEF Use, cache, disk, local
<1>16. ASSUME NEW t \in Task, FileWriteDirty(t) PROVE Locks'
  BY <1>16, SameLocks DEF FileWriteDirty, local, Write
<1>17. ASSUME NEW t \in Task, FileWriteCopy(t) PROVE Locks'
  BY <1>17, SameLocks DEF FileWriteCopy, local, Write
<1>18. ASSUME NEW t \in Task, Brelse(t) PROVE Locks'
  BY <1>18, SameLocks DEF Brelse, disk
<1>19. ASSUME NEW t \in Task, SyncSkip(t) PROVE Locks'
  BY <1>19, SameLocks DEF SyncSkip, SyncNext, cache, disk
<1>20. ASSUME NEW t \in Task, SyncLock(t) PROVE Locks'
  <2>1. PICK b \in Buf : b = Current(t)
    BY <1>20, CurrentIsBuffer DEF SyncLock, Local, Looping
  <2>2. \A u \in Task, d \in Buf : /\ Requests(u, d)' <=> Requests(u, d)
                                   /\ Syncs(u, d)' <=> Syncs(u, d) \/ (u = t /\ d = b)
    BY <1>20, <2>1 DEF SyncLock, Requests, Syncs, Current, local
  <2>3. queued' = queued /\ ~b_lock[b] /\ \A d \in Buf : b_lock'[d] <=> b_lock[d] \/ d = b
    BY <1>20, <2>1 DEF SyncLock, disk
  <2>4. ASSUME NEW d \in Buf \ {b} PROVE Locked(d)'
    BY <2>2, <2>3 DEF Locks, Locked, Owned
  <2>5. Locked(b) /\ ~Owned(b)
    BY <2>3 DEF Locks, Locked
  <2>6. Locked(b)'
    BY <2>2, <2>3, <2>5 DEF Locked, Owned
  <2>. QED BY <2>4, <2>6 DEF Locks
<1>21. ASSUME NEW t \in Task, QueueWrite(t) PROVE Locks'
  <2>1. PICK b \in Buf : b = Current(t)
    BY <1>21, CurrentIsBuffer DEF QueueWrite, Local, Looping
  <2>2. Syncs(t, b) /\ \A d \in Buf : Syncs(t, d) => d = b
    BY <1>21, <2>1 DEF QueueWrite, Syncs
  <2>3. \A u \in Task, d \in Buf : (Requests(u, d)' <=> Requests(u, d)) /\ (Syncs(u, d)' <=> Syncs(u, d) /\ u # t)
    BY <1>21 DEF QueueWrite, SyncNext, Requests, Syncs, Current
  <2>4. b_lock' = b_lock /\ \A d \in Buf, c \in Commands :
            <<d, c>> \in queued' <=> <<d, c>> \in queued \/ (d = b /\ c = "WRITE")
    BY <1>21, <2>1 DEF QueueWrite
  <2>5. ASSUME NEW d \in Buf \ {b} PROVE Locked(d)'
    <3>1. d # b /\ ~Syncs(t, d)
      BY <2>2
    <3>2. \A u \in Task : (Requests(u, d)' <=> Requests(u, d)) /\ (Syncs(u, d)' <=> Syncs(u, d))
      BY <2>3, <3>1
    <3>3. b_lock'[d] = b_lock[d] /\ \A c \in Commands : <<d, c>> \in queued' <=> <<d, c>> \in queued
      BY <2>4, <3>1
    <3>4. Locked(d)
      BY DEF Locks
    <3>. QED BY <3>2, <3>3, <3>4 DEF Locked, Owned
  <2>6. Locked(b) /\ "WRITE" \in Commands
    BY DEF Locks, Commands
  <2>7. \A u \in Task : ~Requests(u, b)' /\ ~Syncs(u, b)'
    BY <2>2, <2>3, <2>6 DEF Locked
  <2>8. Locked(b)'
    BY <2>2, <2>4, <2>6, <2>7 DEF Locked, Owned
  <2>. QED BY <2>5, <2>8 DEF Locks
<1>22. ASSUME NEW t \in Task, SyncDone(t) PROVE Locks'
  BY <1>22, SameLocks DEF SyncDone, cache, disk
<1>23. ASSUME NEW t \in Task, Invalidate(t) PROVE Locks'
  BY <1>23, SameLocks DEF Invalidate, disk
<1>24. ASSUME NEW b \in Buf, NEW c \in Commands, NEW ok \in BOOLEAN, EndRequest(b, c, ok) PROVE Locks'
  <2>1. \A u \in Task, d \in Buf : (Requests(u, d)' <=> Requests(u, d)) /\ (Syncs(u, d)' <=> Syncs(u, d))
    BY <1>24 DEF EndRequest, Requests, Syncs, Current, local
  <2>2. <<b, c>> \in queued /\ \A d \in Buf : b_lock'[d] <=> b_lock[d] /\ d # b
    BY <1>24 DEF EndRequest
  <2>3. \A d \in Buf, e \in Commands :
            <<d, e>> \in queued' <=> <<d, e>> \in queued /\ ~(d = b /\ e = c)
    BY <1>24 DEF EndRequest
  <2>. QED BY <2>1, <2>2, <2>3 DEF Locks, Locked, Owned
<1>25. CASE UNCHANGED vars
  BY <1>25, SameLocks DEF vars
<1>. QED
  BY <1>1, <1>2, <1>3, <1>4, <1>5, <1>6, <1>7, <1>8, <1>9, <1>10, <1>11, <1>12, <1>13, <1>14, <1>15,
     <1>16, <1>17, <1>18, <1>19, <1>20, <1>21, <1>22, <1>23, <1>24, <1>25
     DEF Next, TaskStep, Interrupt, Commands

(* Only buffers with a block are dirty, filled or locked. *)
LEMMA BlocksStep == RInv /\ [Next]_vars => Blocks'
<1> SUFFICES ASSUME RInv, [Next]_vars PROVE Blocks'
  OBVIOUS
<1>0. Types /\ Blocks /\ \A t \in Task : Local(t)
  BY DEF RInv
<1> USE <1>0 DEF Types, Goto, Blocks
<1>1. ASSUME NEW t \in Task, NEW o \in OpNames, NEW k \in Block, NEW a \in Block \cup {NoBlock},
             Start(t, o, k, a)
      PROVE  Blocks'
  BY <1>1 DEF Start, cache
<1>2. ASSUME NEW t \in Task, GetHashTable(t) PROVE Blocks'
  BY <1>2 DEF GetHashTable, Holding, disk
<1>3. ASSUME NEW t \in Task, Found(t) PROVE Blocks'
  BY <1>3 DEF Found, disk
<1>4. ASSUME NEW t \in Task, PickBuffer(t) PROVE Blocks'
  BY <1>4 DEF PickBuffer, cache, disk
<1>5. ASSUME NEW t \in Task, VictimLost(t) PROVE Blocks'
  BY <1>5 DEF VictimLost, cache, disk
<1>6. ASSUME NEW t \in Task, VictimDirty(t) PROVE Blocks'
  BY <1>6 DEF VictimDirty, cache, disk
<1>7. ASSUME NEW t \in Task, ClaimBuffer(t) PROVE Blocks'
  <2>1. tmp[t] \in Buf /\ want[t] \in Block
    BY <1>7 DEF ClaimBuffer, Local, Searching
  <2>2. b_blocknr'[tmp[t]] = want[t]
    BY <1>7, <2>1 DEF ClaimBuffer, Local
  <2>. QED BY <1>7, <2>1, <2>2 DEF ClaimBuffer, local, disk
<1>8. ASSUME NEW t \in Task, Got(t) PROVE Blocks'
  BY <1>8 DEF Got, cache, disk
<1>9. ASSUME NEW t \in Task, GotBlockWrite(t) PROVE Blocks'
  <2>1. tmp[t] \in Buf /\ want[t] \in Block
    BY <1>9 DEF GotBlockWrite, Local, Searching
  <2>2. b_blocknr'[tmp[t]] = want[t]
    BY <1>9, <2>1 DEF GotBlockWrite, Local
  <2>. QED BY <1>9, <2>1, <2>2 DEF GotBlockWrite, Write
<1>10. ASSUME NEW t \in Task, LockForRead(t) PROVE Blocks'
  <2>1. bh[t] \in Buf /\ b_blocknr[bh[t]] \in Block
    BY <1>10, NBufAssumption DEF LockForRead, Local, Buf, NoBuf
  <2>. QED BY <1>10, <2>1 DEF LockForRead, disk, local
<1>11. ASSUME NEW t \in Task, QueueRead(t) PROVE Blocks'
  BY <1>11 DEF QueueRead, local
<1>12. ASSUME NEW t \in Task, Ahead(t) PROVE Blocks'
  BY <1>12 DEF Ahead, cache, disk
<1>13. ASSUME NEW t \in Task, NEW free \in BOOLEAN, ReadAhead(t, free) PROVE Blocks'
  <2>1. bh[t] \in Buf /\ b_blocknr[bh[t]] \in Block
    BY <1>13, NBufAssumption DEF ReadAhead, Local, Buf, NoBuf
  <2>. QED BY <1>13, <2>1 DEF ReadAhead
<1>14. ASSUME NEW t \in Task, ReadWait(t) PROVE Blocks'
  BY <1>14 DEF ReadWait, cache, disk, local
<1>15. ASSUME NEW t \in Task, Use(t) PROVE Blocks'
  BY <1>15 DEF Use, cache, disk, local
<1>16. ASSUME NEW t \in Task, FileWriteDirty(t) PROVE Blocks'
  <2>1. bh[t] \in Buf /\ b_blocknr[bh[t]] \in Block
    BY <1>16, NBufAssumption DEF FileWriteDirty, Local, Buf, NoBuf
  <2>. QED BY <1>16, <2>1 DEF FileWriteDirty, local, Write
<1>17. ASSUME NEW t \in Task, FileWriteCopy(t) PROVE Blocks'
  <2>1. bh[t] \in Buf /\ b_blocknr[bh[t]] \in Block
    BY <1>17, NBufAssumption DEF FileWriteCopy, Local, Buf, NoBuf
  <2>. QED BY <1>17, <2>1 DEF FileWriteCopy, local, Write
<1>18. ASSUME NEW t \in Task, Brelse(t) PROVE Blocks'
  BY <1>18 DEF Brelse, disk
<1>19. ASSUME NEW t \in Task, SyncSkip(t) PROVE Blocks'
  BY <1>19 DEF SyncSkip, SyncNext, cache, disk
<1>20. ASSUME NEW t \in Task, SyncLock(t) PROVE Blocks'
  BY <1>20 DEF SyncLock, disk, local
<1>21. ASSUME NEW t \in Task, QueueWrite(t) PROVE Blocks'
  BY <1>21 DEF QueueWrite, SyncNext
<1>22. ASSUME NEW t \in Task, SyncDone(t) PROVE Blocks'
  BY <1>22 DEF SyncDone, cache, disk
<1>23. ASSUME NEW t \in Task, Invalidate(t) PROVE Blocks'
  BY <1>23 DEF Invalidate, disk
<1>24. ASSUME NEW b \in Buf, NEW c \in Commands, NEW ok \in BOOLEAN, EndRequest(b, c, ok) PROVE Blocks'
  <2>1. b_blocknr[b] \in Block
    BY <1>24 DEF EndRequest, RInv, Locks, Locked, Owned
  <2>. QED BY <1>24, <2>1 DEF EndRequest
<1>25. CASE UNCHANGED vars
  BY <1>25 DEF vars
<1>. QED
  BY <1>1, <1>2, <1>3, <1>4, <1>5, <1>6, <1>7, <1>8, <1>9, <1>10, <1>11, <1>12, <1>13, <1>14, <1>15,
     <1>16, <1>17, <1>18, <1>19, <1>20, <1>21, <1>22, <1>23, <1>24, <1>25
     DEF Next, TaskStep, Interrupt, Commands

(* A task performs an operation of the setup. *)
LEMMA OpsStep == RInv /\ [Next]_vars => Ops'
<1> SUFFICES ASSUME RInv, [Next]_vars PROVE Ops'
  OBVIOUS
<1>0. Types /\ Ops
  BY DEF RInv
<1> USE <1>0 DEF Types, Goto, Ops
<1>1. ASSUME NEW t \in Task, NEW o \in OpNames, NEW k \in Block, NEW a \in Block \cup {NoBlock},
             Start(t, o, k, a)
      PROVE  Ops'
  BY <1>1 DEF Start
<1>2. ASSUME NEW t \in Task, TaskStep(t), ~Brelse(t), ~SyncDone(t), ~Invalidate(t) PROVE Ops'
  <2>1. setup' = setup /\ op' = op /\ (pc' = pc \/ (pc[t] # "idle" /\ \E l : pc' = [pc EXCEPT ![t] = l]))
    BY <1>2 DEF TaskStep, GetHashTable, Found, PickBuffer, VictimLost, VictimDirty, ClaimBuffer, Got,
       GotBlockWrite, LockForRead, QueueRead, Ahead, ReadAhead, ReadWait, Use, FileWriteDirty,
       FileWriteCopy, SyncSkip, SyncLock, QueueWrite, local
  <2>. QED BY <2>1
<1>3. ASSUME NEW t \in Task, Brelse(t) PROVE Ops'
  BY <1>3 DEF Brelse
<1>4. ASSUME NEW t \in Task, SyncDone(t) PROVE Ops'
  BY <1>4 DEF SyncDone
<1>5. ASSUME NEW t \in Task, Invalidate(t) PROVE Ops'
  BY <1>5 DEF Invalidate
<1>6. ASSUME Interrupt PROVE Ops'
  BY <1>6 DEF Interrupt, EndRequest, local
<1>7. CASE UNCHANGED vars
  BY <1>7 DEF vars
<1>. QED BY <1>1, <1>2, <1>3, <1>4, <1>5, <1>6, <1>7 DEF Next

(* All buffers are free, no task has begun anything.                       *)
LEMMA RInvInit == Init => RInv
<1> SUFFICES ASSUME Init PROVE RInv
  OBVIOUS
<1> USE DEF Init
<1>1. Types
  BY DEF Types, Pcs, OpNames
<1>2. \A t \in Task : Local(t)
  BY DEF Local, Looping, Searching
<1>3. OnlyOneOfItsKind
  BY DEF OnlyOneOfItsKind
<1>4. CountsReferences
  <2>1. ASSUME NEW b \in Buf PROVE Holders(b) = {} /\ Lookers(b) = {}
    BY NBufAssumption DEF Holders, Lookers, Buf, NoBuf
  <2>2. ASSUME NEW b \in Buf PROVE b_count[b] = Cardinality(Holders(b)) + Cardinality(Lookers(b))
    <3>1. Cardinality(Holders(b)) = 0 /\ Cardinality(Lookers(b)) = 0
      BY <2>1, FS_EmptySet
    <3>2. b_count[b] = 0
      OBVIOUS
    <3>. QED BY <3>1, <3>2
  <2>. QED BY <2>2 DEF CountsReferences, Holders, Lookers
<1>5. Locks
  BY DEF Locks, Locked, Owned, Requests, Syncs
<1>6. Blocks /\ Ops
  BY DEF Blocks, Ops
<1>. QED BY <1>1, <1>2, <1>3, <1>4, <1>5, <1>6 DEF RInv

(* References, locks and local variables stay in step.                     *)
LEMMA RInvStep == RInv /\ [Next]_vars => RInv'
<1> SUFFICES ASSUME RInv, [Next]_vars PROVE RInv'
  OBVIOUS
<1>1. (\A u \in Task : Local(u))'
  BY LocalStep
<1>. QED BY <1>1, TypesStep, OnlyOneStep, CountStep, LockStep, BlocksStep, OpsStep DEF RInv

-----------------------------------------------------------------------------
(* The setups of a behaviour in which nothing fails.                       *)
LEMMA SetupKept == [Next]_vars => setup' = setup
<1> SUFFICES ASSUME [Next]_vars PROVE setup' = setup
  OBVIOUS
<1>1. ASSUME NEW t \in Task, NEW o \in OpNames, NEW k \in Block, NEW a \in Block \cup {NoBlock},
             Start(t, o, k, a)
      PROVE  setup' = setup
  BY <1>1 DEF Start
<1>2. ASSUME NEW t \in Task, TaskStep(t) PROVE setup' = setup
  BY <1>2 DEF TaskStep, GetHashTable, Found, PickBuffer, VictimLost, VictimDirty,
     ClaimBuffer, Got, GotBlockWrite, LockForRead, QueueRead, Ahead, ReadAhead, ReadWait, Use,
     FileWriteDirty, FileWriteCopy, Brelse, SyncSkip, SyncLock, QueueWrite, SyncDone, Invalidate
<1>3. ASSUME Interrupt PROVE setup' = setup
  BY <1>3 DEF Interrupt, EndRequest
<1>4. CASE UNCHANGED vars
  BY <1>4 DEF vars
<1>. QED BY <1>1, <1>2, <1>3, <1>4 DEF Next

(* Who reads is not disturbed by writes of whole blocks. *)
LEMMA Readers ==
    ASSUME RInv, WritesApart, NEW t \in Task, op[t] \in Reads, pc[t] # "idle"
    PROVE  "block_write" \notin setup.ops
  BY DEF RInv, Types, Ops, WritesApart

(* Only operations that read wait for a read.                              *)
LEMMA ReadingOps ==
    ASSUME RInv, NEW t \in Task, pc[t] \in {"lock", "request", "ahead", "read_wait", "have"}
    PROVE  op[t] \in Reads
  BY DEF RInv, Types, Local, Looping, OpNames, Reads

(* A step that leaves the buffers and the disk alone. *)
LEMMA SameBuffers ==
    ASSUME Data, setup' = setup, UNCHANGED <<b_blocknr, b_dirt, b_uptodate, b_lock, fresh, queued, dfresh>>
    PROVE  (\A b \in Buf : Content(b)') /\ (\A k \in Block : Somewhere(k)')
<1>1. ASSUME NEW b \in Buf PROVE Content(b)'
  BY DEF Data, Content
<1>2. ASSUME NEW k \in Block PROVE Somewhere(k)'
  BY DEF Data, Somewhere
<1>. QED BY <1>1, <1>2

(* The tasks that are not concerned. *)
LEMMA SameTask ==
    ASSUME NEW u \in Task, TaskData(u), pc'[u] = pc[u] \/ pc'[u] \notin {"have", "copy", "request", "sync_request"},
           pc'[u] = pc[u] => bh'[u] = bh[u] /\ i'[u] = i[u],
           pc[u] = "have" => b_uptodate'[bh[u]] = b_uptodate[bh[u]],
           pc[u] = "request" => fresh'[bh[u]] = fresh[bh[u]],
           pc[u] = "sync_request" => fresh'[Current(u)] = fresh[Current(u)]
    PROVE  TaskData(u)'
  BY DEF TaskData, Current

(* Contents are written to a buffer that nobody reads from the disk.       *)
LEMMA WriteData ==
    ASSUME RInv, Data, NEW x \in Buf, b_blocknr[x] \in Block, Write(x, b_blocknr[x]),
           b_dirt' = [b_dirt EXCEPT ![x] = TRUE], setup' = setup,
           UNCHANGED <<b_blocknr, b_uptodate, b_lock, queued>>,
           "block_write" \notin setup.ops => b_uptodate[x],
           <<x, "READ">> \notin queued
    PROVE  /\ fresh' = [fresh EXCEPT ![x] = TRUE]
           /\ \A b \in Buf : Content(b)'
           /\ \A k \in Block : Somewhere(k)'
<1>0. Types /\ OnlyOneOfItsKind /\ b_blocknr[x] # NoBlock
  BY BlockAssumption DEF RInv
<1>1. \A c \in Buf : fresh'[c] = IF c = x THEN TRUE ELSE fresh[c]
  BY <1>0 DEF Write, OnlyOneOfItsKind, Types
<1>2. fresh' = [fresh EXCEPT ![x] = TRUE]
  BY <1>0, <1>1 DEF Write, Types
<1>3. Content(x)'
  BY <1>0, <1>1 DEF Content, Types
<1>4. ASSUME NEW b \in Buf \ {x} PROVE Content(b)'
  <2>1. Content(b) /\ fresh'[b] = fresh[b] /\ b_dirt'[b] = b_dirt[b]
    BY <1>0, <1>1 DEF Data, Types
  <2>2. fresh[b] => b_blocknr[b] # b_blocknr[x] /\ b_blocknr[b] \in Block
    BY <1>0 DEF OnlyOneOfItsKind, RInv, Blocks
  <2>3. fresh[b] => dfresh'[b_blocknr[b]] = dfresh[b_blocknr[b]]
    BY <1>0, <2>2 DEF Write, Types
  <2>. QED BY <2>1, <2>3 DEF Content
<1>5. ASSUME NEW k \in Block PROVE Somewhere(k)'
  <2>1. CASE k = b_blocknr[x]
    BY <2>1, <1>1 DEF Somewhere
  <2>2. CASE k # b_blocknr[x]
    <3>1. dfresh'[k] = dfresh[k]
      BY <2>2, <1>0 DEF Write, Types
    <3>2. Somewhere(k)
      BY DEF Data
    <3>. QED BY <3>1, <3>2, <1>1 DEF Somewhere
  <2>. QED BY <2>1, <2>2
<1>. QED BY <1>2, <1>3, <1>4, <1>5

(* Contents, and what the tasks rely on, survive every step.               *)
LEMMA DataStep ==
    ASSUME WritesApart, RInv, Faultless, Data, [Next]_vars
    PROVE  Data'
<1>0. Types /\ setup' = setup /\ \A t \in Task : Local(t) /\ TaskData(t)
  BY SetupKept DEF RInv, Data
<1> USE <1>0 DEF Goto
<1>1. ASSUME NEW t \in Task, NEW o \in OpNames, NEW k \in Block, NEW a \in Block \cup {NoBlock},
             Start(t, o, k, a)
      PROVE  Data'
  <2>1. ASSUME NEW u \in Task PROVE TaskData(u)'
    BY <1>1, SameTask DEF Start, cache, disk, Types
  <2>. QED BY <1>1, <2>1, SameBuffers DEF Start, cache, disk, Data
<1>2. ASSUME NEW t \in Task, GetHashTable(t) PROVE Data'
  <2>1. ASSUME NEW u \in Task PROVE TaskData(u)'
    BY <1>2, SameTask DEF GetHashTable, disk, Types
  <2>. QED BY <1>2, <2>1, SameBuffers DEF GetHashTable, disk, Data
<1>3. ASSUME NEW t \in Task, Found(t) PROVE Data'
  <2>1. ASSUME NEW u \in Task PROVE TaskData(u)'
    BY <1>3, SameTask DEF Found, disk, cache, Types
  <2>. QED BY <1>3, <2>1, SameBuffers DEF Found, disk, cache, Data
<1>4. ASSUME NEW t \in Task, PickBuffer(t) PROVE Data'
  <2>1. ASSUME NEW u \in Task PROVE TaskData(u)'
    BY <1>4, SameTask DEF PickBuffer, cache, disk, Types
  <2>. QED BY <1>4, <2>1, SameBuffers DEF PickBuffer, cache, disk, Data
<1>5. ASSUME NEW t \in Task, VictimLost(t) PROVE Data'
  <2>1. ASSUME NEW u \in Task PROVE TaskData(u)'
    BY <1>5, SameTask DEF VictimLost, cache, disk, Types
  <2>. QED BY <1>5, <2>1, SameBuffers DEF VictimLost, cache, disk, Data
<1>6. ASSUME NEW t \in Task, VictimDirty(t) PROVE Data'
  <2>1. ASSUME NEW u \in Task PROVE TaskData(u)'
    BY <1>6, SameTask DEF VictimDirty, cache, disk, Types
  <2>. QED BY <1>6, <2>1, SameBuffers DEF VictimDirty, cache, disk, Data
<1>7. ASSUME NEW t \in Task, Got(t) PROVE Data'
  <2>1. ASSUME NEW u \in Task PROVE TaskData(u)'
    <3>1. CASE u = t
      BY <1>7, <3>1 DEF Got, cache, disk, Types, TaskData, Current
    <3>2. CASE u # t
      BY <1>7, <3>2, SameTask DEF Got, cache, disk, Types
    <3>. QED BY <3>1, <3>2
  <2>. QED BY <1>7, <2>1, SameBuffers DEF Got, cache, disk, Data
<1>8. ASSUME NEW t \in Task, Ahead(t) PROVE Data'
  <2>1. ASSUME NEW u \in Task PROVE TaskData(u)'
    BY <1>8, SameTask DEF Ahead, cache, disk, Types
  <2>. QED BY <1>8, <2>1, SameBuffers DEF Ahead, cache, disk, Data
<1>9. ASSUME NEW t \in Task, ReadWait(t) PROVE Data'
  <2>1. ASSUME NEW u \in Task PROVE TaskData(u)'
    <3>1. CASE u = t
      BY <1>9, <3>1 DEF ReadWait, cache, disk, local, Types, TaskData, Current
    <3>2. CASE u # t
      BY <1>9, <3>2, SameTask DEF ReadWait, cache, disk, local, Types
    <3>. QED BY <3>1, <3>2
  <2>. QED BY <1>9, <2>1, SameBuffers DEF ReadWait, cache, disk, local, Data
<1>10. ASSUME NEW t \in Task, Use(t) PROVE Data'
  <2>1. ASSUME NEW u \in Task PROVE TaskData(u)'
    BY <1>10, SameTask DEF Use, cache, disk, local, Types
  <2>. QED BY <1>10, <2>1, SameBuffers DEF Use, cache, disk, local, Data
<1>11. ASSUME NEW t \in Task, Brelse(t) PROVE Data'
  <2>1. ASSUME NEW u \in Task PROVE TaskData(u)'
    BY <1>11, SameTask DEF Brelse, disk, Types
  <2>. QED BY <1>11, <2>1, SameBuffers DEF Brelse, disk, Data
<1>12. ASSUME NEW t \in Task, SyncSkip(t) PROVE Data'
  <2>1. ASSUME NEW u \in Task PROVE TaskData(u)'
    <3>1. CASE u = t
      BY <1>12, <3>1 DEF SyncSkip, cache, disk, TaskData
    <3>2. CASE u # t
      BY <1>12, <3>2, SameTask DEF SyncSkip, SyncNext, cache, disk, Types
    <3>. QED BY <3>1, <3>2
  <2>. QED BY <1>12, <2>1, SameBuffers DEF SyncSkip, SyncNext, cache, disk, Data
<1>13. ASSUME NEW t \in Task, SyncDone(t) PROVE Data'
  <2>1. ASSUME NEW u \in Task PROVE TaskData(u)'
    BY <1>13, SameTask DEF SyncDone, cache, disk, Types
  <2>. QED BY <1>13, <2>1, SameBuffers DEF SyncDone, cache, disk, Data
<1>14. ASSUME NEW t \in Task, ClaimBuffer(t) PROVE Data'
  <2>1. PICK x \in Buf : x = tmp[t]
    BY <1>14 DEF ClaimBuffer, Local
  <2>2. ~b_lock[x] /\ ~b_dirt[x] /\ Holders(x) = {} /\ ~Owned(x)
    BY <1>14, <2>1, Unreferenced DEF ClaimBuffer, Claimable, RInv, Locks, Locked
  <2>3. \A b \in Buf \ {x} : /\ fresh'[b] = fresh[b] /\ b_uptodate'[b] = b_uptodate[b]
                            /\ b_blocknr'[b] = b_blocknr[b]
    BY <1>14, <2>1 DEF ClaimBuffer, Types
  <2>4. ~fresh'[x] /\ ~b_uptodate'[x]
    BY <1>14, <2>1 DEF ClaimBuffer, Types
  <2>5. UNCHANGED <<b_dirt, b_lock, queued, dfresh, bh, i>>
    BY <1>14 DEF ClaimBuffer, disk, local
  <2>6. Content(x)'
    BY <2>2, <2>4, <2>5 DEF Content, Owned, Commands
  <2>7. ASSUME NEW b \in Buf \ {x} PROVE Content(b)'
    BY <2>3, <2>5 DEF Content, Data
  <2>8. ASSUME NEW u \in Task PROVE TaskData(u)'
    <3>1. bh[u] # x /\ (pc[u] = "sync_request" => Current(u) # x)
      BY <2>2 DEF Holders, Owned, Syncs
    <3>2. pc[u] = "sync_request" => Current(u) \in Buf
      BY CurrentIsBuffer DEF Local, Looping
    <3>3. pc[u] \in {"have", "request"} => bh[u] \in Buf
      BY DEF Local
    <3>4. pc'[u] = pc[u] \/ pc'[u] = "got"
      BY <1>14 DEF ClaimBuffer, Types
    <3>5. bh'[u] = bh[u] /\ i'[u] = i[u]
      BY <2>5
    <3>6. /\ pc[u] = "have" => b_uptodate'[bh[u]] = b_uptodate[bh[u]]
          /\ pc[u] = "request" => fresh'[bh[u]] = fresh[bh[u]]
          /\ pc[u] = "sync_request" => fresh'[Current(u)] = fresh[Current(u)]
      BY <2>3, <3>1, <3>2, <3>3
    <3>. QED BY <3>4, <3>5, <3>6, SameTask
  <2>9. ASSUME NEW k \in Block PROVE Somewhere(k)'
    <3>1. CASE dfresh[k]
      BY <3>1, <2>5 DEF Somewhere
    <3>2. CASE ~dfresh[k]
      <4>1. PICK b \in Buf : b_blocknr[b] = k /\ fresh[b]
        BY <3>2 DEF Data, Somewhere
      <4>2. b # x
        BY <4>1, <3>2, <2>2 DEF Data, Content
      <4>. QED BY <4>1, <4>2, <2>3 DEF Somewhere
    <3>. QED BY <3>1, <3>2
  <2>. QED BY <2>6, <2>7, <2>8, <2>9 DEF Data
<1>15. ASSUME NEW t \in Task, GotBlockWrite(t) PROVE Data'
  <2>1. PICK x \in Buf : x = tmp[t]
    BY <1>15 DEF GotBlockWrite, Local
  <2>2. b_blocknr[x] = want[t] /\ b_blocknr[x] \in Block
    BY <1>15, <2>1 DEF GotBlockWrite, Local, Searching
  <2>3. "block_write" \in setup.ops
    BY <1>15 DEF GotBlockWrite, RInv, Ops
  <2>4. <<x, "READ">> \notin queued
    BY <2>3 DEF Data, Content
  <2>5. fresh' = [fresh EXCEPT ![x] = TRUE] /\ (\A b \in Buf : Content(b)') /\ (\A k \in Block : Somewhere(k)')
    BY <1>15, <2>1, <2>2, <2>3, <2>4, WriteData DEF GotBlockWrite
  <2>6. ASSUME NEW u \in Task PROVE TaskData(u)'
    <3>1. pc[u] # "request" /\ pc[u] # "have"
      BY <2>3, Readers, ReadingOps
    <3>2. pc[u] = "sync_request" => fresh'[Current(u)]
      BY <2>5, CurrentIsBuffer DEF TaskData, Local, Looping, Types
    <3>. QED BY <1>15, <3>1, <3>2 DEF GotBlockWrite, TaskData, Types, Current
  <2>. QED BY <2>5, <2>6 DEF Data
<1>16. ASSUME NEW t \in Task, FileWriteDirty(t) PROVE Data'
  <2>1. PICK x \in Buf : x = bh[t]
    BY <1>16 DEF FileWriteDirty, Local
  <2>2. b_blocknr[x] = want[t] /\ b_blocknr[x] \in Block
    BY <1>16, <2>1, NBufAssumption DEF FileWriteDirty, Local, Buf, NoBuf
  <2>3. b_uptodate[x] /\ fresh[x]
    BY <1>16, <2>1 DEF FileWriteDirty, TaskData, Data, Content
  <2>4. <<x, "READ">> \notin queued
    BY <2>3 DEF Data, Content
  <2>5. Write(x, b_blocknr[x]) /\ pc' = [pc EXCEPT ![t] = "release"]
    BY <1>16, <2>1, <2>2 DEF FileWriteDirty, Faultless
  <2>6. fresh' = [fresh EXCEPT ![x] = TRUE] /\ (\A b \in Buf : Content(b)') /\ (\A k \in Block : Somewhere(k)')
    BY <1>16, <2>1, <2>2, <2>3, <2>4, <2>5, WriteData DEF FileWriteDirty
  <2>7. fresh' = fresh
    BY <2>3, <2>6 DEF Types
  <2>8. ASSUME NEW u \in Task PROVE TaskData(u)'
    BY <1>16, <2>5, <2>7, SameTask DEF FileWriteDirty, local, Types
  <2>. QED BY <2>6, <2>8 DEF Data
<1>17. ASSUME NEW t \in Task, FileWriteCopy(t) PROVE Data'
  BY <1>17 DEF FileWriteCopy, TaskData
<1>18. ASSUME NEW t \in Task, LockForRead(t) PROVE Data'
  <2>1. bh[t] \in Buf /\ "block_write" \notin setup.ops
    BY <1>18, Readers, ReadingOps DEF LockForRead, Local
  <2>2. UNCHANGED <<b_blocknr, b_dirt, b_uptodate, fresh, queued, dfresh, bh, i>>
    BY <1>18 DEF LockForRead, disk, local
  <2>3. \A b \in Buf : b_lock[b] => b_lock'[b]
    BY <1>18 DEF LockForRead, Types
  <2>4. ASSUME NEW b \in Buf PROVE Content(b)'
    BY <2>2, <2>3 DEF Content, Data
  <2>5. ASSUME NEW k \in Block PROVE Somewhere(k)'
    BY <2>2 DEF Somewhere, Data
  <2>6. ASSUME NEW u \in Task PROVE TaskData(u)'
    <3>1. CASE u = t
      <4>1. pc'[t] = "request" => ~b_uptodate[bh[t]]
        BY <1>18 DEF LockForRead, Types
      <4>2. pc'[t] \in {"request", "ahead", "read_wait"}
        BY <1>18 DEF LockForRead, Types
      <4>3. pc'[t] = "request" => ~fresh[bh[t]]
        BY <4>1, <2>1 DEF Data, Content
      <4>. QED BY <3>1, <4>2, <4>3, <2>2 DEF TaskData
    <3>2. CASE u # t
      BY <1>18, <3>2, <2>2, SameTask DEF LockForRead, Types
    <3>. QED BY <3>1, <3>2
  <2>. QED BY <2>4, <2>5, <2>6 DEF Data
<1>19. ASSUME NEW t \in Task, QueueRead(t) PROVE Data'
  <2>1. PICK x \in Buf : x = bh[t]
    BY <1>19 DEF QueueRead, Local
  <2>2. ~fresh[x] /\ ~b_dirt[x] /\ "block_write" \notin setup.ops
    BY <1>19, <2>1, Readers, ReadingOps DEF QueueRead, TaskData, Data, Content
  <2>3. UNCHANGED <<b_blocknr, b_dirt, b_uptodate, b_lock, fresh, dfresh, bh, i>>
    BY <1>19, <2>1, <2>2 DEF QueueRead, local, Types
  <2>4. queued' = queued \cup {<<x, "READ">>}
    BY <1>19, <2>1 DEF QueueRead
  <2>5. ASSUME NEW b \in Buf PROVE Content(b)'
    <3>1. <<b, "WRITE">> \in queued' => <<b, "WRITE">> \in queued
      BY <2>4
    <3>2. <<b, "READ">> \in queued' => ~fresh[b] /\ "block_write" \notin setup.ops
      BY <2>2, <2>4 DEF Data, Content
    <3>. QED BY <2>3, <3>1, <3>2 DEF Data, Content
  <2>6. ASSUME NEW k \in Block PROVE Somewhere(k)'
    BY <2>3 DEF Somewhere, Data
  <2>7. ASSUME NEW u \in Task PROVE TaskData(u)'
    BY <1>19, <2>3, SameTask DEF QueueRead, Types
  <2>. QED BY <2>5, <2>6, <2>7 DEF Data
<1>20. ASSUME NEW t \in Task, NEW free \in BOOLEAN, ReadAhead(t, free) PROVE Data'
  <2>1. PICK x \in Buf : x = bh[t]
    BY <1>20 DEF ReadAhead, Types
  <2>2. bh[t] # NoBuf /\ "block_write" \notin setup.ops
    <3>1. op[t] \in Reads /\ pc[t] # "idle" /\ bh[t] # NoBuf
      BY <1>20 DEF ReadAhead, Local, Searching, Reads
    <3>. QED BY <3>1, Readers
  <2>3. UNCHANGED <<b_blocknr, b_uptodate, fresh, dfresh, bh, i>>
    BY <1>20 DEF ReadAhead
  <2>4. ~b_uptodate[x] => ~fresh[x] /\ ~b_dirt[x]
    BY <2>2 DEF Data, Content
  <2>5. b_dirt' = b_dirt
    BY <1>20, <2>1, <2>4 DEF ReadAhead, Types
  <2>6. \A b \in Buf : b_lock[b] => b_lock'[b]
    BY <1>20, <2>1 DEF ReadAhead, Types
  <2>7. queued' = queued \/ (queued' = queued \cup {<<x, "READ">>} /\ ~b_uptodate[x])
    BY <1>20, <2>1 DEF ReadAhead
  <2>8. ASSUME NEW b \in Buf PROVE Content(b)'
    <3>1. <<b, "WRITE">> \in queued' => <<b, "WRITE">> \in queued
      BY <2>7
    <3>2. <<b, "READ">> \in queued' => ~fresh[b] /\ "block_write" \notin setup.ops
      <4>1. <<b, "READ">> \in queued => ~fresh[b]
        BY DEF Data, Content
      <4>2. <<b, "READ">> \in queued' => <<b, "READ">> \in queued \/ (b = x /\ ~b_uptodate[x])
        BY <2>7
      <4>. QED BY <4>1, <4>2, <2>2, <2>4
    <3>. QED BY <2>3, <2>5, <2>6, <3>1, <3>2 DEF Data, Content
  <2>9. ASSUME NEW k \in Block PROVE Somewhere(k)'
    BY <2>3 DEF Somewhere, Data
  <2>10. ASSUME NEW u \in Task PROVE TaskData(u)'
    BY <1>20, <2>3, SameTask DEF ReadAhead, Types
  <2>. QED BY <2>8, <2>9, <2>10 DEF Data
<1>21. ASSUME NEW t \in Task, SyncLock(t) PROVE Data'
  <2>1. PICK x \in Buf : x = Current(t)
    BY <1>21, CurrentIsBuffer DEF SyncLock, Local, Looping
  <2>2. fresh[x]
    BY <1>21, <2>1 DEF SyncLock, Data, Content
  <2>3. UNCHANGED <<b_blocknr, b_dirt, b_uptodate, fresh, queued, dfresh, bh, i>>
    BY <1>21 DEF SyncLock, disk, local
  <2>4. \A b \in Buf : b_lock[b] => b_lock'[b]
    BY <1>21, <2>1 DEF SyncLock, Types
  <2>5. ASSUME NEW b \in Buf PROVE Content(b)'
    BY <2>3, <2>4 DEF Content, Data
  <2>6. ASSUME NEW k \in Block PROVE Somewhere(k)'
    BY <2>3 DEF Somewhere, Data
  <2>7. ASSUME NEW u \in Task PROVE TaskData(u)'
    <3>1. CASE u = t
      <4>1. Current(t)' = x
        BY <2>1, <2>3 DEF Current
      <4>2. pc'[t] = "sync_request"
        BY <1>21 DEF SyncLock, Types
      <4>. QED BY <3>1, <4>1, <4>2, <2>2, <2>3 DEF TaskData
    <3>2. CASE u # t
      BY <1>21, <3>2, <2>3, SameTask DEF SyncLock, Types
    <3>. QED BY <3>1, <3>2
  <2>. QED BY <2>5, <2>6, <2>7 DEF Data
<1>22. ASSUME NEW t \in Task, QueueWrite(t) PROVE Data'
  <2>1. PICK x \in Buf : x = Current(t)
    BY <1>22, CurrentIsBuffer DEF QueueWrite, Local, Looping
  <2>2. fresh[x] /\ b_lock[x]
    BY <1>22, <2>1 DEF QueueWrite, TaskData, RInv, Locks, Locked, Owned, Syncs
  <2>3. UNCHANGED <<b_blocknr, b_lock, b_uptodate, fresh, dfresh, bh>>
    BY <1>22 DEF QueueWrite
  <2>4. b_dirt' = [b_dirt EXCEPT ![x] = FALSE] /\ queued' = queued \cup {<<x, "WRITE">>}
    BY <1>22, <2>1 DEF QueueWrite
  <2>5. ASSUME NEW b \in Buf PROVE Content(b)'
    <3>1. b_dirt'[b] => b_dirt[b]
      BY <2>4 DEF Types
    <3>2. <<b, "WRITE">> \in queued' => fresh[b]
      BY <2>2, <2>4 DEF Data, Content
    <3>3. <<b, "READ">> \in queued' => <<b, "READ">> \in queued
      BY <2>4
    <3>4. fresh[b] /\ ~b_dirt'[b] /\ ~b_lock[b] => fresh[b] /\ ~b_dirt[b] /\ ~b_lock[b]
      BY <2>2, <2>4 DEF Types
    <3>. QED BY <2>3, <3>1, <3>2, <3>3, <3>4 DEF Data, Content
  <2>6. ASSUME NEW k \in Block PROVE Somewhere(k)'
    BY <2>3 DEF Somewhere, Data
  <2>7. ASSUME NEW u \in Task PROVE TaskData(u)'
    <3>1. CASE u = t
      BY <1>22, <3>1 DEF QueueWrite, TaskData, Types
    <3>2. CASE u # t
      BY <1>22, <3>2, SameTask DEF QueueWrite, SyncNext, Types
    <3>. QED BY <3>1, <3>2
  <2>. QED BY <2>5, <2>6, <2>7 DEF Data
<1>23. ASSUME NEW t \in Task, Invalidate(t) PROVE Data'
  BY <1>23 DEF Invalidate, Local, RInv, Ops, Faultless
<1>24. ASSUME NEW x \in Buf, NEW cmd \in Commands, NEW ok \in BOOLEAN, EndRequest(x, cmd, ok) PROVE Data'
  <2>1. ok = TRUE
    BY <1>24 DEF EndRequest, Faultless
  <2>2. PICK y \in Block : y = b_blocknr[x]
    BY <1>24 DEF EndRequest, RInv, Locks, Locked, Owned, Blocks
  <2>3. UNCHANGED <<b_blocknr, b_dirt, bh, i, pc>>
    BY <1>24 DEF EndRequest, local
  <2>4. <<x, cmd>> \in queued /\ queued' = queued \ {<<x, cmd>>} /\ <<x, "READ">> \notin queued'
    BY <1>24 DEF EndRequest, RInv, Locks, Locked, Commands
  <2>5. cmd = "READ" => ~fresh[x] /\ dfresh[y]
    <3>1. ASSUME cmd = "READ" PROVE ~fresh[x]
      BY <3>1, <2>4 DEF Data, Content
    <3>2. ASSUME ~fresh[x] PROVE dfresh[y]
      BY <3>2, <2>2, BlockAssumption DEF Data, Somewhere, RInv, OnlyOneOfItsKind
    <3>. QED BY <3>1, <3>2
  <2>6. cmd = "WRITE" => fresh[x]
    BY <2>4 DEF Data, Content
  <2>7. fresh' = [fresh EXCEPT ![x] = TRUE]
    BY <1>24, <2>1, <2>2, <2>5, <2>6 DEF EndRequest, Types, Commands
  <2>8. dfresh' = [dfresh EXCEPT ![y] = TRUE]
    BY <1>24, <2>1, <2>2, <2>5, <2>6 DEF EndRequest, Types, Commands
  <2>9. b_uptodate' = [b_uptodate EXCEPT ![x] = TRUE] /\ b_lock' = [b_lock EXCEPT ![x] = FALSE]
    BY <1>24, <2>1 DEF EndRequest
  <2>10. Content(x)'
    <3>1. fresh'[x] /\ b_uptodate'[x] /\ dfresh'[b_blocknr'[x]]
      BY <2>2, <2>3, <2>7, <2>8, <2>9 DEF Types
    <3>. QED BY <3>1, <2>4 DEF Content
  <2>11. ASSUME NEW b \in Buf \ {x} PROVE Content(b)'
    <3>1. /\ fresh'[b] = fresh[b] /\ b_uptodate'[b] = b_uptodate[b] /\ b_lock'[b] = b_lock[b]
          /\ dfresh[b_blocknr[b]] => dfresh'[b_blocknr[b]]
      BY <2>7, <2>8, <2>9 DEF Types
    <3>2. \A c \in Commands : <<b, c>> \in queued' <=> <<b, c>> \in queued
      BY <2>4
    <3>. QED BY <3>1, <3>2, <2>3 DEF Data, Content, Commands
  <2>12. ASSUME NEW k \in Block PROVE Somewhere(k)'
    BY <2>3, <2>7, <2>8 DEF Data, Somewhere, Types
  <2>13. ASSUME NEW u \in Task PROVE TaskData(u)'
    <3>1. pc[u] = "request" => bh[u] \in Buf /\ bh[u] # x
      BY <2>4 DEF RInv, Locks, Locked, Requests, Local
    <3>2. pc[u] = "sync_request" => Current(u) \in Buf
      BY CurrentIsBuffer DEF Local, Looping
    <3>3. pc[u] = "have" => bh[u] \in Buf
      BY DEF Local
    <3>. QED BY <3>1, <3>2, <3>3, <2>3, <2>7, <2>9 DEF TaskData, Types, Current
  <2>. QED BY <2>10, <2>11, <2>12, <2>13 DEF Data
<1>25. CASE UNCHANGED vars
  <2>1. ASSUME NEW u \in Task PROVE TaskData(u)'
    BY <1>25, SameTask DEF vars
  <2>. QED BY <1>25, <2>1, SameBuffers DEF vars, Data
<1>26. ASSUME NEW t \in Task, TaskStep(t) PROVE Data'
  BY <1>2, <1>3, <1>4, <1>5, <1>6, <1>7, <1>8, <1>9, <1>10, <1>11, <1>12, <1>13, <1>14, <1>15, <1>16,
     <1>17, <1>18, <1>19, <1>20, <1>21, <1>22, <1>23, <1>26 DEF TaskStep
<1>. QED BY <1>1, <1>24, <1>25, <1>26 DEF Next, Interrupt, Commands

(* At the start all contents are on the disk.                              *)
LEMMA DataInit == Init => Data
<1> SUFFICES ASSUME Init PROVE Data
  OBVIOUS
<1> USE DEF Init
<1>1. \A b \in Buf : Content(b)
  BY DEF Content
<1>2. \A t \in Task : TaskData(t)
  BY DEF TaskData
<1>3. \A k \in Block : Somewhere(k)
  BY DEF Somewhere
<1>. QED BY <1>1, <1>2, <1>3 DEF Data

(* The invariant about the data needs the one about references.            *)
LEMMA DInvHolds == ASSUME WritesApart PROVE Spec => []DInv
<1>1. Init => DInv
  BY RInvInit, DataInit DEF DInv
<1>2. DInv /\ [Next]_vars => DInv'
  <2> SUFFICES ASSUME DInv, [Next]_vars PROVE DInv'
    OBVIOUS
  <2>1. RInv'
    BY RInvStep DEF DInv
  <2>2. Faultless' => Faultless
    BY SetupKept DEF Faultless
  <2>3. Faultless => Data'
    BY DataStep DEF DInv
  <2>. QED BY <2>1, <2>2, <2>3 DEF DInv
<1>. QED BY <1>1, <1>2, PTL DEF Spec

-----------------------------------------------------------------------------
(* The lock of a buffer has as many owners as the properties count.        *)
LEMMA OneOwner == ASSUME Types, Locks PROVE LockHasOneOwner
<1> SUFFICES ASSUME NEW b \in Buf
             PROVE  LET owners == {r \in queued : r[1] = b}
                          \cup {<<t, "READ">> : t \in {u \in Task : pc[u] = "request" /\ bh[u] = b}}
                          \cup {<<t, "WRITE">> : t \in {u \in Task : pc[u] = "sync_request" /\ Current(u) = b}}
                    IN  Cardinality(owners) = IF b_lock[b] THEN 1 ELSE 0
  BY DEF LockHasOneOwner
<1> DEFINE owners == {r \in queued : r[1] = b}
                     \cup {<<t, "READ">> : t \in {u \in Task : pc[u] = "request" /\ bh[u] = b}}
                     \cup {<<t, "WRITE">> : t \in {u \in Task : pc[u] = "sync_request" /\ Current(u) = b}}
<1>0. Locked(b)
  BY DEF Locks
<1>1. \A r \in owners : \/ \E c \in Commands : r = <<b, c>> /\ <<b, c>> \in queued
                        \/ \E t \in Task : \/ r = <<t, "READ">> /\ Requests(t, b)
                                           \/ r = <<t, "WRITE">> /\ Syncs(t, b)
  BY DEF Types, Requests, Syncs
<1>2. /\ \A c \in Commands : <<b, c>> \in queued => <<b, c>> \in owners
      /\ \A t \in Task : Requests(t, b) => <<t, "READ">> \in owners
      /\ \A t \in Task : Syncs(t, b) => <<t, "WRITE">> \in owners
  BY DEF Requests, Syncs
<1>. HIDE DEF owners
<1>3. CASE b_lock[b]
  <2>1. PICK r : r \in owners
    BY <1>0, <1>2, <1>3 DEF Locked, Owned
  <2>2. \A q \in owners : q = r
    BY <1>0, <1>1, <2>1 DEF Locked
  <2>3. owners = {r}
    BY <2>1, <2>2
  <2>. QED BY <2>3, <1>3, FS_Singleton DEF owners
<1>4. CASE ~b_lock[b]
  <2>1. owners = {}
    BY <1>0, <1>1, <1>4 DEF Locked, Owned
  <2>. QED BY <2>1, <1>4, FS_EmptySet DEF owners
<1>. QED BY <1>3, <1>4

(* getblk, bread, breada, brelse and the sync loops, however they          *)
(* interleave with each other and with the disk: no block is ever in two   *)
(* buffers, b_count is the number of references that tasks hold, and b_lock *)
(* is set exactly while one request or one task waiting for one owns it.   *)
THEOREM ReferencesHold == Spec => []References
<1>1. Init => RInv
  BY RInvInit
<1>2. RInv /\ [Next]_vars => RInv'
  BY RInvStep
<1>3. RInv => References
  BY OneOwner DEF RInv, References
<1>. QED BY <1>1, <1>2, <1>3, PTL DEF Spec

(* A buffer a task holds from bread to brelse is never given to another    *)
(* block, although getblk looks at b_count only after it has slept.        *)
THEOREM HeldBuffersStay == Spec => HeldBufferKeepsBlock
<1>1. Init => RInv
  BY RInvInit
<1>2. RInv /\ [Next]_vars => RInv'
  BY RInvStep
<1>3. RInv /\ [Next]_vars
        => [\A t \in Task : bh[t] # NoBuf => b_blocknr'[bh[t]] = b_blocknr[bh[t]]]_vars
  <2> SUFFICES ASSUME RInv, [Next]_vars, NEW t \in Task, bh[t] # NoBuf
               PROVE  b_blocknr'[bh[t]] = b_blocknr[bh[t]]
    OBVIOUS
  <2>1. CASE \E u \in Task : ClaimBuffer(u)
    <3>1. PICK u \in Task : ClaimBuffer(u)
      BY <2>1
    <3>2. tmp[u] \in Buf /\ Holders(tmp[u]) = {}
      BY <3>1, Unreferenced DEF ClaimBuffer, Claimable, RInv, Local
    <3>3. bh[t] # tmp[u]
      BY <3>2 DEF Holders
    <3>. QED BY <3>1, <3>3 DEF ClaimBuffer, RInv, Types
  <2>2. CASE ~\E u \in Task : ClaimBuffer(u)
    BY <2>2, WhoClaims
  <2>. QED BY <2>1, <2>2
<1>. QED BY <1>1, <1>2, <1>3, PTL DEF Spec, HeldBufferKeepsBlock

(* As long as nothing fails and block_write does not overwrite whole       *)
(* blocks that others read (it leaves b_uptodate alone, so a read under    *)
(* way would destroy what it wrote), the last contents written to a block  *)
(* are on the disk or in its buffer, and there they are dirty or locked    *)
(* until the disk has them.                                                *)
THEOREM ContentsNotLost == ASSUME WritesApart PROVE Spec => []NothingLost
<1>1. DInv => NothingLost
  BY DEF DInv, Data, NothingLost, Somewhere, Holding, CleanMeansSaved, Content
<1>. QED BY <1>1, DInvHolds, PTL

(* Under the same conditions, the caller of bread finds the last contents  *)
(* written to the block in the buffer it gets.                             *)
THEOREM BreadIsRight == ASSUME WritesApart PROVE Spec => []BreadReturnsContents
<1>1. DInv => BreadReturnsContents
  <2> SUFFICES ASSUME DInv, Faultless, NEW t \in Task, pc[t] = "have" PROVE fresh[bh[t]]
    BY DEF BreadReturnsContents
  <2>. QED BY DEF DInv, RInv, Data, Local, TaskData, Content
<1>. QED BY <1>1, DInvHolds, PTL
=============================================================================
