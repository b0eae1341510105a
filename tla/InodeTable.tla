----------------------------- MODULE InodeTable -----------------------------
(***************************************************************************)
(* The inodes in memory (fs/inode.c) with the mounts (fs/super.c) and the  *)
(* inode bitmap (fs/bitmap.c): iget, iput, new_inode, unlink, sync_inodes, *)
(* mount, umount and a changed disk, by tasks that each hold at most one   *)
(* reference.                                                              *)
(*                                                                         *)
(* A task runs until it sleeps: each action takes it from one sleep to the *)
(* next.  It sleeps for a locked inode, in bread and brelse while an inode *)
(* is read or written, in truncate, and while a super block is read.       *)
(* disk is what the buffer cache holds for the block of an inode: that it  *)
(* comes to the disk is the business of module BufferCache.                *)
(*                                                                         *)
(* There is a root file system, always mounted, and one removable disk.    *)
(* The contents of an inode are one of two versions, or Unlinked.          *)
(***************************************************************************)
EXTENDS Integers, FiniteSets

CONSTANTS Task,
          NR_INODE,      \* slots in inode_table; enough for every task's reference
          Inode, NoInode,\* inodes of all disks, as (i_dev, i_num); NoInode is i_dev = 0
          Root,          \* ROOT_INO of the removable disk, its only inode
          Setups         \* what the tasks do, see setup

ASSUME InodeAssumption ==
    /\ IsFiniteSet(Task)
    /\ NR_INODE \in Nat \ {0}
    /\ NoInode \notin Inode
    /\ Root \in Inode
    /\ Setups \subseteq [find : SUBSET (Task \X Inode), child : SUBSET Task, sync : SUBSET Task,
                        create : SUBSET Task, unlink : SUBSET Task, mount : SUBSET Task,
                        umount : SUBSET Task, change : SUBSET Task,
                        dirs : SUBSET Inode, blk : SUBSET Inode]

Unlinked == 0
Version == {1, 2}

VARIABLES setup,        \* a member of Setups, chosen at the start: the tasks that sync,
                        \*   create, unlink, mount, umount, and change the disk; find: who
                        \*   looks up which inode; child: who comes from a fork; dirs,
                        \*   blk: the inodes that are directories and block devices
          inode_table,  \* i_dev and i_num (id), i_count, i_dirt, i_lock, i_mount, contents
          imap,         \* the inodes whose bit is set in the inode bitmap
          disk,         \* the contents of each inode in its block
          written,      \* what was last stored in the inode (history)
          sb,           \* the super block of the removable disk
          k,            \* k[t]: where in the kernel a task is, and its local variables
          held,         \* the slot of the inode a task has a reference to, or None
          panicked

vars == <<setup, inode_table, imap, disk, written, sb, k, held, panicked>>

Slot == 1..NR_INODE
None == 0

Blank == [id |-> NoInode, i_count |-> 0, i_dirt |-> FALSE, i_lock |-> FALSE,
          i_mount |-> FALSE, val |-> Unlinked]

NotMounted == [s_dev |-> FALSE, s_lock |-> FALSE, s_imount |-> None]

(* A task outside the kernel.  slot: the inode it works on; empty: the     *)
(* slot iget has reserved; want: the inode it looks for, or writes;        *)
(* n: where the loop over the table is; by: who called write_inode;        *)
(* then: what the task goes on with after iput or sync_inodes.             *)
User == [pc |-> "user", slot |-> None, empty |-> None, want |-> NoInode, n |-> 1,
         by |-> "iput", then |-> "return"]

At(t, pc) == k[t].pc = pc
To(t, locals) == k' = [k EXCEPT ![t] = locals]
Return(t) == k' = [k EXCEPT ![t] = User]

Locked(s) == inode_table[s].i_lock

Init ==
    /\ setup \in Setups
    /\ inode_table = [s \in Slot |-> Blank]
    /\ imap = setup.dirs \cup {Root} \cup setup.blk
    /\ disk = [i \in Inode |-> 1]
    /\ written = [i \in Inode |-> IF i \in imap THEN 1 ELSE Unlinked]
    /\ sb = NotMounted
    /\ k = [t \in Task |-> User]
    /\ held = [t \in Task |-> None]
    /\ panicked = FALSE

-----------------------------------------------------------------------------
(* get_empty_inode: the slots it may return at once.  Its loop over slots  *)
(* that are unused, but dirty or locked, is not entered: NothingLost.      *)
Empty == {s \in Slot : inode_table[s].i_count = 0
                       /\ ~inode_table[s].i_dirt /\ ~inode_table[s].i_lock}

Find(i) == {s \in Slot : inode_table[s].id = i}

(* The inode a lookup of i leads to: that of the disk mounted on it.       *)
Crossed(i) ==
    IF \E s \in Find(i) : ~Locked(s) /\ inode_table[s].i_mount /\ sb.s_imount = s
    THEN Root ELSE i

(* iget, with the slot e cleared and reserved: up to a return, to a sleep  *)
(* in wait_on_inode, or to the sleep in read_inode.                        *)
Search(t, e, i) ==
    LET j == Crossed(i)
        found == Find(j) \ {e}
    IN
    \/ /\ found = {}
       /\ inode_table' = [inode_table EXCEPT
              ![e] = [Blank EXCEPT !.id = j, !.i_count = 1, !.i_lock = TRUE]]
       /\ To(t, [k[t] EXCEPT !.pc = "read_inode", !.slot = e, !.empty = None])
       /\ panicked' = (j = Root /\ ~sb.s_dev)   \* trying to read inode without dev
       /\ UNCHANGED held
    \/ \E s \in found :
       /\ ~Locked(s)
       /\ inode_table' = [inode_table EXCEPT ![s].i_count = @ + 1, ![e] = Blank]
       /\ Return(t)
       /\ held' = [held EXCEPT ![t] = s]
       /\ UNCHANGED panicked
    \/ \E s \in found :
       /\ Locked(s)
       /\ inode_table' = [inode_table EXCEPT ![e] = [Blank EXCEPT !.i_count = 1]]
       /\ To(t, [k[t] EXCEPT !.pc = "wait_iget", !.slot = s, !.empty = e, !.want = j])
       /\ UNCHANGED <<held, panicked>>

(* A name is looked up: its inode has links.                               *)
IGet(t, i) ==
    /\ At(t, "user")
    /\ held[t] = None
    /\ <<t, i>> \in setup.find
    /\ written[i] # Unlinked
    /\ \E e \in Empty : Search(t, e, i)
    /\ UNCHANGED <<setup, imap, disk, written, sb>>

IGetAgain(t) ==
    /\ At(t, "wait_iget")
    /\ ~Locked(k[t].slot)
    /\ Search(t, k[t].empty, k[t].want)
    /\ UNCHANGED <<setup, imap, disk, written, sb>>

ReadInode(t) ==
    LET s == k[t].slot IN
    /\ At(t, "read_inode")
    /\ inode_table' = [inode_table EXCEPT ![s].val = disk[inode_table[s].id], ![s].i_lock = FALSE]
    /\ held' = [held EXCEPT ![t] = s]
    /\ Return(t)
    /\ UNCHANGED <<setup, imap, disk, written, sb, panicked>>

MutNewInode(t, i) ==
    /\ At(t, "user")
    /\ held[t] = None
    /\ t \in setup.create
    /\ written[i] = Unlinked
    /\ \E e \in Empty :
       /\ inode_table' = [inode_table EXCEPT
              ![e] = [Blank EXCEPT !.id = i, !.i_count = 1, !.i_dirt = TRUE, !.val = 1]]
       /\ held' = [held EXCEPT ![t] = e]
    /\ imap' = imap \cup {i}
    /\ written' = [written EXCEPT ![i] = 1]
    /\ UNCHANGED <<setup, disk, sb, k, panicked>>

(* new_inode takes a slot and a clear bit; its caller enters the inode in  *)
(* a directory.                                                            *)
NewInode(t, i) ==
    /\ At(t, "user")
    /\ held[t] = None
    /\ t \in setup.create
    /\ i \notin imap
    /\ \E e \in Empty :
       /\ inode_table' = [inode_table EXCEPT
              ![e] = [Blank EXCEPT !.id = i, !.i_count = 1, !.i_dirt = TRUE, !.val = 1]]
       /\ held' = [held EXCEPT ![t] = e]
    /\ imap' = imap \cup {i}
    /\ written' = [written EXCEPT ![i] = 1]
    /\ UNCHANGED <<setup, disk, sb, k, panicked>>

(* fork: the child shares the directory and the files of its father.       *)
Fork(t, child) ==
    /\ At(t, "user") /\ At(child, "user")
    /\ child \in setup.child
    /\ held[t] # None /\ held[child] = None
    /\ inode_table' = [inode_table EXCEPT ![held[t]].i_count = @ + 1]
    /\ held' = [held EXCEPT ![child] = held[t]]
    /\ UNCHANGED <<setup, imap, disk, written, sb, k, panicked>>

(* The holder of a reference changes the inode: its size, mode or times.   *)
Modify(t) ==
    LET s == held[t] IN
    /\ At(t, "user")
    /\ s # None
    /\ inode_table[s].val \in Version
    /\ inode_table[s].id # NoInode
    /\ inode_table' = [inode_table EXCEPT ![s].val = 3 - @, ![s].i_dirt = TRUE]
    /\ written' = [written EXCEPT ![inode_table[s].id] = 3 - inode_table[s].val]
    /\ UNCHANGED <<setup, imap, disk, sb, k, held, panicked>>

-----------------------------------------------------------------------------
(* write_inode up to its sleep in bread; it remembers which block it is.   *)
WriteInode(t, tab, s, locals) ==
    /\ inode_table' = [tab EXCEPT ![s].i_lock = TRUE]
    /\ To(t, [locals EXCEPT !.pc = "write_inode", !.want = tab[s].id])
    /\ UNCHANGED panicked

(* The end of umount, after iput(s_imount): put_super; sync_dev follows.   *)
PutSuper(t) ==
    /\ sb' = NotMounted
    /\ To(t, [k[t] EXCEPT !.pc = "sync_inodes", !.slot = None, !.n = 1, !.then = "return"])

(* iput gives the reference back.                                          *)
Drop(t, tab, s, then) ==
    /\ inode_table' = [tab EXCEPT ![s].i_count = @ - 1]
    /\ IF then = "umount" THEN PutSuper(t) ELSE Return(t) /\ UNCHANGED sb
    /\ UNCHANGED panicked

(* truncate of an inode without links, up to its first sleep.              *)
Truncate(t, tab, s, then) ==
    /\ inode_table' = [tab EXCEPT ![s].i_dirt = TRUE]
    /\ To(t, [k[t] EXCEPT !.pc = "truncate", !.slot = s, !.then = then])
    /\ UNCHANGED <<sb, panicked>>

(* iput from the label repeat on, the inode unlocked.                      *)
PutRepeat(t, tab, s, then) ==
    LET i == tab[s] IN
    \/ /\ i.i_count > 1
       /\ Drop(t, tab, s, then)
    \/ /\ i.i_count = 1 /\ i.val = Unlinked
       /\ Truncate(t, tab, s, then)
    \/ /\ i.i_count = 1 /\ i.val # Unlinked /\ i.i_dirt
       /\ WriteInode(t, tab, s, [k[t] EXCEPT !.by = "iput", !.slot = s, !.then = then])
       /\ UNCHANGED sb
    \/ /\ i.i_count = 1 /\ i.val # Unlinked /\ ~i.i_dirt
       /\ Drop(t, tab, s, then)

(* sync_inodes from slot n on, then the rest of the task.                  *)
SyncFrom(t, tab, n, then, s) ==
    LET Stops == {m \in n..NR_INODE : \/ tab[m].i_lock
                                      \/ tab[m].i_dirt /\ tab[m].id # NoInode}
        m == CHOOSE x \in Stops : \A y \in Stops : x <= y
    IN
    \/ /\ Stops # {} /\ tab[m].i_lock
       /\ inode_table' = tab
       /\ To(t, [k[t] EXCEPT !.pc = "sync_inodes", !.n = m, !.then = then, !.slot = s])
       /\ UNCHANGED <<sb, panicked>>
    \/ /\ Stops # {} /\ ~tab[m].i_lock
       /\ WriteInode(t, tab, m, [k[t] EXCEPT !.by = "sync", !.slot = s, !.n = m, !.then = then])
       /\ UNCHANGED sb
    \/ /\ Stops = {} /\ then = "return"
       /\ inode_table' = tab
       /\ Return(t)
       /\ UNCHANGED <<sb, panicked>>
    \/ /\ Stops = {} /\ then = "iput"
       /\ inode_table' = tab
       /\ To(t, [k[t] EXCEPT !.pc = "iput_synced", !.slot = s, !.then = "return"])
       /\ UNCHANGED <<sb, panicked>>

(* iput of the inode in slot s; tab is the table as the caller leaves it.  *)
IPut(t, tab, s, then) ==
    \/ /\ tab[s].i_lock
       /\ inode_table' = tab
       /\ To(t, [k[t] EXCEPT !.pc = "iput", !.slot = s, !.then = then])
       /\ UNCHANGED <<sb, panicked>>
    \/ /\ ~tab[s].i_lock /\ tab[s].i_count = 0
       /\ inode_table' = tab
       /\ panicked' = TRUE          \* iput: trying to free free inode
       /\ UNCHANGED <<sb, k>>
    \/ /\ ~tab[s].i_lock /\ tab[s].i_count > 0 /\ tab[s].id = NoInode
       /\ Drop(t, tab, s, then)
    \/ /\ ~tab[s].i_lock /\ tab[s].i_count > 0 /\ tab[s].id \in setup.blk
       /\ SyncFrom(t, tab, 1, "iput", s)
    \/ /\ ~tab[s].i_lock /\ tab[s].i_count > 0 /\ tab[s].id \in Inode \ setup.blk
       /\ PutRepeat(t, tab, s, then)

(* A task closes the file, or leaves the directory.                        *)
Close(t) ==
    /\ At(t, "user")
    /\ held[t] # None
    /\ IPut(t, inode_table, held[t], "return")
    /\ held' = [held EXCEPT ![t] = None]
    /\ UNCHANGED <<setup, imap, disk, written>>

(* sys_unlink: the last link goes, and then the reference of the task.     *)
Unlink(t) ==
    LET s == held[t] IN
    /\ At(t, "user")
    /\ t \in setup.unlink
    /\ s # None
    /\ inode_table[s].val # Unlinked
    /\ inode_table[s].id \notin setup.dirs \cup {Root, NoInode}
    /\ IPut(t, [inode_table EXCEPT ![s].val = Unlinked, ![s].i_dirt = TRUE], s, "return")
    /\ written' = [written EXCEPT ![inode_table[s].id] = Unlinked]
    /\ held' = [held EXCEPT ![t] = None]
    /\ UNCHANGED <<setup, imap, disk>>

IPutAgain(t) ==
    /\ At(t, "iput")
    /\ ~Locked(k[t].slot)
    /\ IPut(t, inode_table, k[t].slot, k[t].then)
    /\ UNCHANGED <<setup, imap, disk, written, held>>

IPutSynced(t) ==
    /\ At(t, "iput_synced")
    /\ ~Locked(k[t].slot)
    /\ PutRepeat(t, inode_table, k[t].slot, k[t].then)
    /\ UNCHANGED <<setup, imap, disk, written, held>>

(* truncate is through; free_inode clears the bit and the slot.            *)
FreeInode(t) ==
    LET s == k[t].slot
        i == inode_table[s].id
    IN
    /\ At(t, "truncate")
    /\ panicked' = (inode_table[s].i_count > 1)   \* trying to free inode with count=%d
    /\ imap' = imap \ {i}
    /\ inode_table' = [inode_table EXCEPT ![s] = Blank]
    /\ IF k[t].then = "umount" THEN PutSuper(t) ELSE Return(t) /\ UNCHANGED sb
    /\ UNCHANGED <<setup, disk, written, held>>

(* write_inode has the block of the inode.                                 *)
CopyInode(t) ==
    LET s == IF k[t].by = "sync" THEN k[t].n ELSE k[t].slot IN
    /\ At(t, "write_inode")
    /\ disk' = [disk EXCEPT ![k[t].want] = inode_table[s].val]
    /\ inode_table' = [inode_table EXCEPT ![s].i_dirt = FALSE]
    /\ To(t, [k[t] EXCEPT !.pc = "written"])
    /\ UNCHANGED <<setup, imap, written, sb, held, panicked>>

(* It has slept: iput looks at everything again.                           *)
IPutWritten(t) ==
    /\ At(t, "written") /\ k[t].by = "iput"
    /\ PutRepeat(t, [inode_table EXCEPT ![k[t].slot].i_lock = FALSE], k[t].slot, k[t].then)
    /\ UNCHANGED <<setup, imap, disk, written, held>>

MutClearLate(t) ==
    /\ At(t, "written") /\ k[t].by = "sync"
    /\ SyncFrom(t, [inode_table EXCEPT ![k[t].n].i_lock = FALSE, ![k[t].n].i_dirt = FALSE],
                k[t].n + 1, k[t].then, k[t].slot)
    /\ UNCHANGED <<setup, imap, disk, written, held>>

SyncWritten(t) ==
    /\ At(t, "written") /\ k[t].by = "sync"
    /\ SyncFrom(t, [inode_table EXCEPT ![k[t].n].i_lock = FALSE], k[t].n + 1, k[t].then,
                k[t].slot)
    /\ UNCHANGED <<setup, imap, disk, written, held>>

SyncInodes(t) ==
    /\ At(t, "user")
    /\ t \in setup.sync
    /\ SyncFrom(t, inode_table, 1, "return", None)
    /\ UNCHANGED <<setup, imap, disk, written, held>>

SyncAgain(t) ==
    /\ At(t, "sync_inodes")
    /\ ~Locked(k[t].n)
    /\ SyncFrom(t, inode_table, k[t].n, k[t].then, k[t].slot)
    /\ UNCHANGED <<setup, imap, disk, written, held>>

-----------------------------------------------------------------------------
(* sys_mount on the directory the task has looked up.                      *)
Mount(t) ==
    LET s == held[t] IN
    /\ At(t, "user")
    /\ t \in setup.mount
    /\ s # None
    /\ inode_table[s].i_count = 1
    /\ inode_table[s].id \in setup.dirs
    /\ To(t, [k[t] EXCEPT !.pc = "read_super", !.slot = s])
    /\ held' = [held EXCEPT ![t] = None]
    /\ UNCHANGED <<setup, inode_table, imap, disk, written, sb, panicked>>

(* The rest of sys_mount, with the super block read.                       *)
Mounted(t, super) ==
    LET s == k[t].slot IN
    IF super.s_imount # None \/ inode_table[s].i_mount
    THEN /\ IPut(t, inode_table, s, "return")
    ELSE /\ sb' = [super EXCEPT !.s_imount = s]
         /\ inode_table' = [inode_table EXCEPT ![s].i_mount = TRUE, ![s].i_dirt = TRUE]
         /\ Return(t)
         /\ UNCHANGED panicked

(* read_super finds the super block in memory,                             *)
GetSuper(t) ==
    /\ At(t, "read_super")
    /\ sb.s_dev /\ ~sb.s_lock
    /\ Mounted(t, sb)
    /\ UNCHANGED <<setup, imap, disk, written, held>>

(* or takes a free one and reads it from the disk,                         *)
ReadSuper(t) ==
    /\ At(t, "read_super")
    /\ ~sb.s_dev
    /\ sb' = [s_dev |-> TRUE, s_lock |-> TRUE, s_imount |-> None]
    /\ To(t, [k[t] EXCEPT !.pc = "reading_super"])
    /\ UNCHANGED <<setup, inode_table, imap, disk, written, held, panicked>>

SuperRead(t) ==
    /\ At(t, "reading_super")
    /\ Mounted(t, [sb EXCEPT !.s_lock = FALSE])
    /\ UNCHANGED <<setup, imap, disk, written, held>>

MutSuperFails(t) ==
    /\ At(t, "reading_super")
    /\ sb' = NotMounted
    /\ Return(t)
    /\ UNCHANGED <<setup, inode_table, imap, disk, written, held, panicked>>

(* which may fail: mount ends with EBUSY, once the directory is released.  *)
SuperFails(t) ==
    /\ At(t, "reading_super")
    /\ sb' = NotMounted
    /\ To(t, [k[t] EXCEPT !.pc = "iput", !.then = "return"])
    /\ UNCHANGED <<setup, inode_table, imap, disk, written, held, panicked>>

(* sys_umount, up to iput(s_imount).                                       *)
UMount(t) ==
    /\ At(t, "user")
    /\ t \in setup.umount
    /\ sb.s_dev /\ ~sb.s_lock /\ sb.s_imount # None
    /\ \A s \in Slot : inode_table[s].id = Root => inode_table[s].i_count = 0
    /\ IPut(t, [inode_table EXCEPT ![sb.s_imount].i_mount = FALSE], sb.s_imount, "umount")
    /\ UNCHANGED <<setup, imap, disk, written, held>>

(* check_disk_change finds that the disk has been changed: put_super, then *)
(* invalidate_inodes, from slot n on.                                      *)
InvalidateFrom(t, n) ==
    LET Stops == {m \in n..NR_INODE : Locked(m)}
        m == IF Stops = {} THEN NR_INODE + 1 ELSE CHOOSE x \in Stops : \A y \in Stops : x <= y
    IN
    /\ inode_table' = [s \in Slot |->
           IF s \in n..(m - 1) /\ inode_table[s].id = Root
           THEN [inode_table[s] EXCEPT !.id = NoInode, !.i_dirt = FALSE]
           ELSE inode_table[s]]
    /\ IF Stops = {} THEN Return(t) ELSE To(t, [k[t] EXCEPT !.pc = "invalidate", !.n = m])

ChangeDisk(t) ==
    /\ At(t, "user")
    /\ t \in setup.change
    /\ sb.s_lock => sb.s_imount # None
    /\ sb' = IF sb.s_imount = None THEN NotMounted ELSE sb
    /\ InvalidateFrom(t, 1)
    /\ UNCHANGED <<setup, imap, disk, written, held, panicked>>

InvalidateAgain(t) ==
    /\ At(t, "invalidate")
    /\ ~Locked(k[t].n)
    /\ InvalidateFrom(t, k[t].n)
    /\ UNCHANGED <<setup, imap, disk, written, sb, held, panicked>>

Next ==
    \E t \in Task :
        \/ \E i \in Inode : IGet(t, i) \/ NewInode(t, i)
        \/ \E child \in Task \ {t} : Fork(t, child)
        \/ IGetAgain(t) \/ ReadInode(t) \/ Modify(t)
        \/ Close(t) \/ Unlink(t)
        \/ IPutAgain(t) \/ IPutSynced(t) \/ IPutWritten(t) \/ CopyInode(t) \/ FreeInode(t)
        \/ SyncInodes(t) \/ SyncAgain(t) \/ SyncWritten(t)
        \/ Mount(t) \/ GetSuper(t) \/ ReadSuper(t) \/ SuperRead(t) \/ SuperFails(t)
        \/ UMount(t)
        \/ ChangeDisk(t) \/ InvalidateAgain(t)

Spec == Init /\ [][Next]_vars

-----------------------------------------------------------------------------
(* The references to a slot: of files and directories in use, of a mount,  *)
(* of iget's reservation, and of the calls that have not given it back.    *)
Users(s) ==
    Cardinality({t \in Task : held[t] = s})
    + Cardinality({t \in Task : k[t].empty = s})
    + Cardinality({t \in Task : k[t].slot = s /\ k[t].then # "umount" /\
                      k[t].pc \notin {"user", "wait_iget"}})
    + (IF sb.s_imount = s THEN 1 ELSE 0)

(* The order that programs keep, because the kernel does not.  Nobody      *)
(* looks up a name that another task removes, the disks are not synced and *)
(* nothing is unmounted while a file is removed (free_inode clears a slot  *)
(* that a task in iget, or in write_inode, still works on), and one task   *)
(* unmounts, which alone walks through the directory the disk is on (after *)
(* its sleeps, sys_umount does not look again whether somebody else has    *)
(* unmounted or entered the disk).                                         *)
Careful(w) ==
    /\ Root \notin w.dirs \cup w.blk /\ w.dirs \cap w.blk = {}
    /\ \A r \in w.find : r[2] # Root
    /\ w.unlink # {} =>
         /\ w.sync = {} /\ w.blk = {} /\ w.umount = {}
         /\ \A r, q \in w.find : r[2] = q[2] /\ r[2] \notin w.dirs => r[1] = q[1]
    /\ w.umount # {} =>
         \A t, u \in w.umount \cup {r[1] : r \in {q \in w.find : q[2] \in w.dirs}} : t = u

(* i_count is the number of references, so that no inode is recycled under *)
(* its user and none stays for ever; i_mount marks what is mounted on; and *)
(* no panic of iput, free_inode and read_inode is met.                     *)
CountsExact ==
    /\ ~panicked
    /\ \A s \in Slot :
        /\ inode_table[s].i_count = Users(s)
        /\ inode_table[s].i_mount => sb.s_imount = s

(* An inode is in memory once: tasks that use the same file change the     *)
(* same inode, although iget sleeps between its search and its read.       *)
OneCopy ==
    \A i \in Inode : Cardinality(Find(i)) <= 1

(* As long as the programs are careful, the references are counted exactly *)
(* and an inode is in memory once.                                         *)
InodesSound == Careful(setup) => CountsExact /\ OneCopy

(* What was stored in an inode is in memory, and there marked dirty unless *)
(* its block has it; and when it is not in memory, its block has it.  So a *)
(* slot nobody uses is clean and unlocked: get_empty_inode never has to    *)
(* write one, and iget does not sleep between its search for an inode and  *)
(* taking a slot for it.                                                   *)
NothingLost ==
    Careful(setup) =>
        /\ \A i \in Inode \ {Root} : written[i] # Unlinked =>
             \/ disk[i] = written[i]
             \/ \E s \in Find(i) : inode_table[s].val = written[i] /\ inode_table[s].i_dirt
        /\ \A s \in Slot : inode_table[s].i_count = 0 =>
             ~inode_table[s].i_dirt /\ ~inode_table[s].i_lock

(* iput and free_inode never find a count they panic about, and the        *)
(* inodes of a disk are read and used only while it has a super block.     *)
NoPanic == ~panicked
=============================================================================
