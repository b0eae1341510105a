------------------------------- MODULE Namei -------------------------------
(***************************************************************************)
(* Path names and directories (fs/namei.c), with the maps of free inodes   *)
(* and blocks they are made of (fs/bitmap.c), on one device.               *)
(*                                                                         *)
(* No directory is ever locked: an action runs from one place where a task *)
(* may sleep (bread, iget, get_empty_inode, getblk in new_block, iput) to  *)
(* the next, and other tasks change the directory in between.  Of iget and *)
(* iput only the reference counts are kept (module InodeTable has the      *)
(* rest), and of the blocks of regular files nothing (module FileBlocks).  *)
(* Everybody is the superuser, whose permission() fails only for an inode  *)
(* without links.                                                          *)
(***************************************************************************)
EXTENDS Naturals, FiniteSets, Sequences, FiniteSetsExt

CONSTANTS Task,
          NInode,     \* s_ninodes
          NBlock,     \* blocks of the device
          PerBlock,   \* DIR_ENTRIES_PER_BLOCK
          MaxBlocks,  \* blocks of a directory (7 + 512 + 512 * 512)
          Setups      \* what a behaviour is about: records of
                      \*   calls:  the calls <<task, name, path, other path>>
                      \*   dirs:   the names of the directories in the root
                      \*   faults: may copying a name fault, and so sleep?
                      \*   errors: may the disk report errors?

ROOT_INO == 1
Inodes == 1..NInode
Block == 1..NBlock
Slot == 1..PerBlock
Free == [name |-> "", ino |-> 0]
Creating == {"mknod", "mkdir", "symlink", "link"}
CallNames == {"open", "creat", "excl", "namei", "unlink", "rmdir"} \cup Creating

NameiAssumption ==
    /\ {NInode, NBlock, MaxBlocks} \subseteq Nat \ {0}
    /\ PerBlock \in Nat \ {0, 1, 2}

VARIABLES setup,   \* a member of Setups, chosen at the start
          imap,    \* the inodes in use
          zmap,    \* the blocks in use
          mode, i_nlinks, i_count,
          i_size,  \* of a directory, in entries
          i_zone,  \* the blocks of a directory or symbolic link
          data,    \* what is in the blocks of directories
          target,  \* what is in a symbolic link
          oops,    \* has the kernel followed a null pointer?
          c        \* the call a task is in: see Idle

inodes == <<imap, mode, i_nlinks, i_size, i_zone, target>>
blocks == <<zmap, data>>
vars == <<setup, imap, zmap, mode, i_nlinks, i_count, i_size, i_zone, data, target, oops, c>>

Idle == [pc |-> "user", op |-> "",
         path |-> <<>>,     \* what is left of the path
         other |-> <<>>,    \* the second argument of link and symlink
         dir |-> 0, ino |-> 0, old |-> 0,  \* the inodes it holds (0 = none)
         inr |-> 0,         \* the inode number it found
         b |-> 0, n |-> 0,  \* the block of the directory it looks at, and which one that is
         len |-> 0,         \* i_size when find_entry began
         bh |-> 0, slot |-> 0,  \* the buffer it keeps, and the entry in it
         inlink |-> FALSE, rest |-> <<>>,  \* the path goes on after the link
         link |-> 0]        \* the buffer of the link it follows

Init ==
    /\ setup \in Setups
    /\ LET dirs == 1..(Len(setup.dirs) + 1)
           Size(i) == IF i = ROOT_INO THEN Len(setup.dirs) + 2 ELSE 2
           Entry(k, i) == CASE k = 1 -> [name |-> ".", ino |-> i]
                            [] k = 2 -> [name |-> "..", ino |-> ROOT_INO]
                            [] k > 2 /\ i = ROOT_INO /\ k <= Size(i) ->
                                  [name |-> setup.dirs[k - 2], ino |-> k - 1]
                            [] OTHER -> Free
       IN  /\ imap = dirs
           /\ zmap = dirs
           /\ mode = [i \in Inodes |-> IF i \in dirs THEN "dir" ELSE "none"]
           /\ i_nlinks = [i \in Inodes |-> IF i \in dirs THEN Size(i) ELSE 0]
           /\ i_size = [i \in Inodes |-> IF i \in dirs THEN Size(i) ELSE 0]
           /\ i_zone = [i \in Inodes |-> IF i \in dirs THEN <<i>> ELSE <<>>]
           /\ data = [b \in Block |-> [k \in Slot |-> IF b \in dirs THEN Entry(k, b) ELSE Free]]
    /\ i_count = [i \in Inodes |-> IF i = ROOT_INO THEN 1 ELSE 0]
    /\ target = [i \in Inodes |-> <<>>]
    /\ oops = FALSE
    /\ c = [t \in Task |-> Idle]

At(t, l) == c[t].pc = l
Goto(t, l) == c' = [c EXCEPT ![t].pc = l]
IsLast(t) == Len(c[t].path) = 1
Lowest(S) == CHOOSE x \in S : \A y \in S : x <= y

-----------------------------------------------------------------------------
(* new_block and free_block, new_inode and free_inode, iput. *)

(* The last reference to an inode without links: truncate, which does      *)
(* nothing for an inode that has no type yet and repeats while somebody    *)
(* has a block's buffer, and free_inode.                                   *)
IPut(i) ==
    LET free == i_count[i] = 1 /\ i_nlinks[i] = 0
        blks == {i_zone[i][n] : n \in DOMAIN i_zone[i]}
    IN  /\ i_count' = [i_count EXCEPT ![i] = @ - 1]
        /\ free => \A t \in Task : {c[t].bh, c[t].link} \cap blks = {}
        /\ imap' = IF free THEN imap \ {i} ELSE imap
        /\ zmap' = IF free /\ mode[i] # "none" THEN zmap \ blks ELSE zmap
        /\ i_zone' = IF free THEN [i_zone EXCEPT ![i] = <<>>] ELSE i_zone
        /\ i_size' = IF free THEN [i_size EXCEPT ![i] = 0] ELSE i_size
        /\ mode' = IF free THEN [mode EXCEPT ![i] = "none"] ELSE mode
        /\ target' = IF free THEN [target EXCEPT ![i] = <<>>] ELSE target
        /\ UNCHANGED <<i_nlinks, data>>

FreeBlocks == Block \ zmap
NewBlock(b) ==
    /\ b = Lowest(FreeBlocks)
    /\ zmap' = zmap \cup {b}

(* What a call that is over, or has failed, still holds is put.            *)
PutAll(t) == c' = [c EXCEPT ![t].link = 0, ![t].pc = "put"]

Put(t) ==
    /\ At(t, "put")
    /\ \E f \in {"dir", "ino", "old"} :
          /\ c[t][f] # 0
          /\ IPut(c[t][f])
          /\ c' = [c EXCEPT ![t][f] = 0]
    /\ UNCHANGED <<setup, oops>>

Return(t) ==
    /\ At(t, "put")
    /\ {c[t].dir, c[t].ino, c[t].old} = {0}
    /\ c' = [c EXCEPT ![t] = Idle]
    /\ UNCHANGED <<setup, inodes, blocks, i_count, oops>>

-----------------------------------------------------------------------------
(* get_dir: a name at a time. *)

Call(t, o, p, q) ==
    /\ At(t, "user")
    /\ <<t, o, p, q>> \in setup.calls
    /\ c' = [c EXCEPT ![t] = [Idle EXCEPT !.pc = "walk", !.op = o, !.dir = ROOT_INO,
                                 !.path = IF o = "link" THEN q ELSE p,
                                 !.other = IF o = "link" THEN p ELSE q]]
    /\ i_count' = [i_count EXCEPT ![ROOT_INO] = @ + 1]
    /\ UNCHANGED <<setup, inodes, blocks, oops>>

(* link(2) looks up the old name first; the others that create or remove   *)
(* an entry want a directory and a name, open wants either.                *)
WantsInode(t) == c[t].op \in {"open", "creat", "excl", "namei"} \/ (c[t].op = "link" /\ c[t].old = 0)
Directory(i) == mode[i] = "dir" /\ i_nlinks[i] # 0

(* What a failing lookup does.  When the link at the end of a path leads   *)
(* nowhere _namei() writes to the inode it did not get; open_namei() looks *)
(* first.                                                                  *)
Fail(t) ==
    /\ PutAll(t)
    /\ oops' = (oops \/ (c[t].inlink /\ c[t].rest = <<>> /\ c[t].op \in {"namei", "link"}))

NotDirectory(t) ==
    /\ At(t, "walk")
    /\ ~Directory(c[t].dir)
    /\ Fail(t)
    /\ UNCHANGED <<setup, inodes, blocks, i_count>>

(* "/usr/": the directory itself, or an error. *)
EmptyName(t) ==
    /\ At(t, "walk")
    /\ Directory(c[t].dir)
    /\ c[t].path = <<"">>
    /\ IF c[t].inlink \/ (WantsInode(t) /\ c[t].op \notin {"creat", "excl"})
         THEN /\ c' = [c EXCEPT ![t].ino = c[t].dir, ![t].dir = 0, ![t].pc = "resolved",
                                ![t].inlink = FALSE, ![t].link = 0,
                                ![t].path = IF c[t].inlink THEN c[t].rest ELSE <<>>]
              /\ UNCHANGED oops
         ELSE Fail(t)
    /\ UNCHANGED <<setup, inodes, blocks, i_count>>

(* find_entry begins.  ".." in the root is a faked ".". *)
StartFind(t, p) ==
    LET d == c[t].dir
        name == IF d = ROOT_INO /\ Head(p) = ".." THEN "." ELSE Head(p)
    IN  c' = [c EXCEPT ![t].path = <<name>> \o Tail(p), ![t].pc = "find", ![t].n = 1,
                       ![t].len = i_size[d], ![t].b = i_zone[d][1]]

Walk(t) ==
    /\ At(t, "walk")
    /\ Directory(c[t].dir)
    /\ c[t].path # <<"">>
    /\ IF c[t].op = "symlink" /\ IsLast(t) /\ ~c[t].inlink
         THEN Goto(t, "new_inode")
         ELSE StartFind(t, c[t].path)
    /\ UNCHANGED <<setup, inodes, blocks, i_count, oops>>

(* A block of the directory is in the cache (0: there is no such block). *)
Matches(t) == {k \in Slot : /\ c[t].b # 0
                            /\ (c[t].n - 1) * PerBlock + k <= c[t].len
                            /\ data[c[t].b][k].ino # 0
                            /\ data[c[t].b][k].name = c[t].path[1]}

NextBlock(t) ==
    LET z == i_zone[c[t].dir] IN
    IF c[t].n * PerBlock < c[t].len
      THEN c' = [c EXCEPT ![t].n = @ + 1,
                          ![t].b = IF c[t].n + 1 \in DOMAIN z THEN z[c[t].n + 1] ELSE 0]
      ELSE Goto(t, "not_found")

FindInBlock(t) ==
    /\ At(t, "find")
    /\ IF Matches(t) # {}
         THEN LET k == Lowest(Matches(t)) IN
              c' = [c EXCEPT ![t].inr = data[c[t].b][k].ino, ![t].bh = c[t].b,
                             ![t].slot = k, ![t].pc = "found"]
         ELSE NextBlock(t)
    /\ UNCHANGED <<setup, inodes, blocks, i_count, oops>>

(* A block that cannot be read: the first one ends the search, others are  *)
(* skipped.                                                                *)
FindFails(t) ==
    /\ setup.errors
    /\ At(t, "find")
    /\ IF c[t].n = 1 THEN Goto(t, "not_found") ELSE NextBlock(t)
    /\ UNCHANGED <<setup, inodes, blocks, i_count, oops>>

(* unlink and rmdir keep the buffer, the others let go of it. *)
Found(t) ==
    LET mine == IsLast(t) /\ ~c[t].inlink IN
    /\ At(t, "found")
    /\ IF mine /\ (c[t].op = "excl" \/ (c[t].op \in Creating /\ ~WantsInode(t)))
         THEN /\ c' = [c EXCEPT ![t].bh = 0, ![t].pc = "put"]
              /\ i_nlinks' = IF c[t].op = "symlink" THEN [i_nlinks EXCEPT ![c[t].ino] = @ - 1]
                                                    ELSE i_nlinks
         ELSE /\ c' = [c EXCEPT ![t].bh = IF mine /\ c[t].op \in {"unlink", "rmdir"} THEN @ ELSE 0,
                                ![t].pc = "iget"]
              /\ UNCHANGED i_nlinks
    /\ UNCHANGED <<setup, imap, mode, i_size, i_zone, target, blocks, i_count, oops>>

IGet(t) ==
    /\ At(t, "iget")
    /\ i_count' = [i_count EXCEPT ![c[t].inr] = @ + 1]
    /\ c' = [c EXCEPT ![t].ino = c[t].inr, ![t].pc = "got"]
    /\ UNCHANGED <<setup, inodes, blocks, oops>>

(* The inode of a name on the way, or of a last name that is followed.     *)
Follows(t) == ~IsLast(t) \/ c[t].inlink \/ WantsInode(t)
IsLink(t) == mode[c[t].ino] = "lnk"

MutStep(t) ==
    LET rest == IF c[t].inlink /\ IsLast(t) THEN c[t].rest ELSE Tail(c[t].path) IN
    /\ At(t, "got")
    /\ Follows(t)
    /\ ~IsLink(t) \/ (c[t].inlink /\ IsLast(t))
    /\ IF rest = <<>>
         THEN c' = [c EXCEPT ![t].dir = 0, ![t].path = <<>>, ![t].inlink = FALSE, ![t].link = 0,
                             ![t].pc = "resolved"]
         ELSE c' = [c EXCEPT ![t].dir = c[t].ino, ![t].ino = 0, ![t].path = rest,
                             ![t].inlink = @ /\ ~IsLast(t), ![t].link = IF IsLast(t) THEN 0 ELSE @,
                             ![t].pc = "walk"]
    /\ UNCHANGED <<setup, inodes, blocks, i_count, oops>>

(* No link, or the last name in a link, which is not followed again: the   *)
(* inode takes the place of the directory, or is what was asked for.       *)
Step(t) ==
    LET rest == IF c[t].inlink /\ IsLast(t) THEN c[t].rest ELSE Tail(c[t].path) IN
    /\ At(t, "got")
    /\ Follows(t)
    /\ ~IsLink(t) \/ (c[t].inlink /\ IsLast(t))
    /\ IPut(c[t].dir)
    /\ IF rest = <<>>
         THEN c' = [c EXCEPT ![t].dir = 0, ![t].path = <<>>, ![t].inlink = FALSE, ![t].link = 0,
                             ![t].pc = "resolved"]
         ELSE c' = [c EXCEPT ![t].dir = c[t].ino, ![t].ino = 0, ![t].path = rest,
                             ![t].inlink = @ /\ ~IsLast(t), ![t].link = IF IsLast(t) THEN 0 ELSE @,
                             ![t].pc = "walk"]
    /\ UNCHANGED <<setup, oops>>

(* follow_link: the block with the path is read, ... *)
ReadLink(t) ==
    /\ At(t, "got")
    /\ Follows(t)
    /\ IsLink(t)
    /\ ~c[t].inlink
    /\ i_zone[c[t].ino] # <<>>
    /\ c' = [c EXCEPT ![t].link = i_zone[c[t].ino][1], ![t].pc = "follow"]
    /\ UNCHANGED <<setup, inodes, blocks, i_count, oops>>

(* ... which may fail, ... *)
ReadLinkFails(t) ==
    /\ At(t, "got")
    /\ Follows(t)
    /\ IsLink(t)
    /\ ~c[t].inlink
    /\ setup.errors \/ i_zone[c[t].ino] = <<>>
    /\ PutAll(t)
    /\ oops' = (oops \/ (IsLast(t) /\ c[t].op \in {"namei", "link"}))
    /\ UNCHANGED <<setup, inodes, blocks, i_count>>

(* ... the link is put, with its block still held, and its path followed   *)
(* from this directory.                                                    *)
FollowLink(t) ==
    /\ At(t, "follow")
    /\ IPut(c[t].ino)
    /\ c' = [c EXCEPT ![t].ino = 0, ![t].path = target[c[t].ino], ![t].rest = Tail(c[t].path),
                      ![t].inlink = TRUE, ![t].pc = "walk"]
    /\ UNCHANGED <<setup, oops>>

(* A link on the way of a link: fs is not the user's, NULL. *)
NestedLink(t) ==
    /\ At(t, "got")
    /\ IsLink(t)
    /\ c[t].inlink
    /\ ~IsLast(t)
    /\ Fail(t)
    /\ UNCHANGED <<setup, inodes, blocks, i_count>>

(* open(O_CREAT) asks for the permission to write only now. *)
NotFound(t) ==
    LET mine == IsLast(t) /\ ~c[t].inlink IN
    /\ At(t, "not_found")
    /\ IF \/ mine /\ c[t].op \in {"mknod", "mkdir"}
          \/ mine /\ c[t].op \in {"creat", "excl"} /\ i_nlinks[c[t].dir] # 0
         THEN Goto(t, "new_inode") /\ UNCHANGED oops
         ELSE IF mine /\ c[t].op \in {"symlink", "link"} /\ ~WantsInode(t)
         THEN c' = [c EXCEPT ![t].pc = "add", ![t].n = 1, ![t].b = i_zone[c[t].dir][1]] /\ UNCHANGED oops
         ELSE Fail(t)
    /\ UNCHANGED <<setup, inodes, blocks, i_count>>

-----------------------------------------------------------------------------
(* What the calls do with the inode they looked up. *)

(* namei's callers put it, open_namei's keep it in the file. *)
Resolved(t) ==
    /\ At(t, "resolved")
    /\ c[t].path = <<>>
    /\ c[t].op # "link"
    /\ Goto(t, IF /\ c[t].op \in {"open", "creat"}
                  /\ i_nlinks[c[t].ino] # 0
                  /\ mode[c[t].ino] = "dir" => c[t].op = "open"
               THEN "opened" ELSE "put")
    /\ UNCHANGED <<setup, inodes, blocks, i_count, oops>>

(* A link in the middle of a path ended in "dir/". *)
ResolvedOnTheWay(t) ==
    /\ At(t, "resolved")
    /\ c[t].path # <<>>
    /\ c' = [c EXCEPT ![t].dir = c[t].ino, ![t].ino = 0, ![t].pc = "walk"]
    /\ UNCHANGED <<setup, inodes, blocks, i_count, oops>>

Close(t) ==
    /\ At(t, "opened")
    /\ PutAll(t)
    /\ UNCHANGED <<setup, inodes, blocks, i_count, oops>>

(* sys_link has the old inode and goes for the new name. *)
LinkOld(t) ==
    /\ At(t, "resolved")
    /\ c[t].op = "link"
    /\ c[t].path = <<>>
    /\ IF mode[c[t].ino] = "dir"
         THEN PutAll(t) /\ UNCHANGED i_count
         ELSE /\ c' = [c EXCEPT ![t].old = c[t].ino, ![t].ino = 0, ![t].dir = ROOT_INO,
                                ![t].path = c[t].other, ![t].rest = <<>>, ![t].pc = "walk"]
              /\ i_count' = [i_count EXCEPT ![ROOT_INO] = @ + 1]
    /\ UNCHANGED <<setup, inodes, blocks, oops>>

-----------------------------------------------------------------------------
(* open(O_CREAT), mknod, mkdir, symlink and link. *)

(* get_empty_inode may have slept; the map is searched and set at once.    *)
NewInode(t) ==
    LET i == Lowest(Inodes \ imap) IN
    /\ At(t, "new_inode")
    /\ imap # Inodes
    /\ imap' = imap \cup {i}
    /\ i_count' = [i_count EXCEPT ![i] = 1]
    /\ i_nlinks' = [i_nlinks EXCEPT ![i] = 1]
    /\ mode' = [mode EXCEPT ![i] = CASE c[t].op = "mkdir" -> "none"
                                     [] c[t].op = "symlink" -> "lnk"
                                     [] OTHER -> "reg"]
    /\ IF c[t].op \in {"mkdir", "symlink"}
         THEN c' = [c EXCEPT ![t].ino = i, ![t].pc = "new_block"]
         ELSE c' = [c EXCEPT ![t].ino = i, ![t].pc = "add", ![t].n = 1, ![t].b = i_zone[c[t].dir][1]]
    /\ UNCHANGED <<setup, i_size, i_zone, target, blocks, oops>>

NoInodeLeft(t) ==
    /\ At(t, "new_inode")
    /\ imap = Inodes
    /\ PutAll(t)
    /\ UNCHANGED <<setup, inodes, blocks, i_count, oops>>

(* mkdir: the block with "." and "..".  Nobody else knows the inode yet.   *)
MakeDirectory(t) ==
    LET i == c[t].ino
        b == Lowest(FreeBlocks) IN
    /\ At(t, "new_block")
    /\ c[t].op = "mkdir"
    /\ FreeBlocks # {}
    /\ NewBlock(b)
    /\ i_zone' = [i_zone EXCEPT ![i] = <<b>>]
    /\ data' = [data EXCEPT ![b] = [k \in Slot |-> CASE k = 1 -> [name |-> ".", ino |-> i]
                                                     [] k = 2 -> [name |-> "..", ino |-> c[t].dir]
                                                     [] OTHER -> Free]]
    /\ i_size' = [i_size EXCEPT ![i] = 2]
    /\ i_nlinks' = [i_nlinks EXCEPT ![i] = 2]
    /\ mode' = [mode EXCEPT ![i] = "dir"]
    /\ c' = [c EXCEPT ![t].pc = "add", ![t].n = 1, ![t].b = i_zone[c[t].dir][1]]
    /\ UNCHANGED <<setup, imap, i_count, target, oops>>

(* symlink: the name goes into a block before it is looked up. *)
MakeLink(t) ==
    LET i == c[t].ino
        b == Lowest(FreeBlocks) IN
    /\ At(t, "new_block")
    /\ c[t].op = "symlink"
    /\ FreeBlocks # {}
    /\ NewBlock(b)
    /\ i_zone' = [i_zone EXCEPT ![i] = <<b>>]
    /\ target' = [target EXCEPT ![i] = c[t].other]
    /\ StartFind(t, c[t].path)
    /\ UNCHANGED <<setup, imap, mode, i_nlinks, i_size, data, i_count, oops>>

(* No block is left; or there is one, and it cannot be read back. *)
BlockFails(t) ==
    LET i == c[t].ino
        b == Lowest(FreeBlocks) IN
    /\ At(t, "new_block")
    /\ \/ FreeBlocks = {} /\ UNCHANGED <<zmap, i_zone>>
       \/ setup.errors /\ FreeBlocks # {} /\ NewBlock(b) /\ i_zone' = [i_zone EXCEPT ![i] = <<b>>]
    /\ i_nlinks' = [i_nlinks EXCEPT ![i] = @ - 1]
    /\ PutAll(t)
    /\ UNCHANGED <<setup, imap, mode, i_size, target, data, i_count, oops>>

(* add_entry: the first free entry of the block, which may be the one      *)
(* after the last.                                                         *)
Index(t, k) == (c[t].n - 1) * PerBlock + k
UnusedEntries(t) ==
    {k \in Slot : Index(t, k) > i_size[c[t].dir] \/ data[c[t].b][k].ino = 0}

(* It goes on after a full block, and after one it could not read unless   *)
(* that is the first.                                                      *)
PastBlock(t) == UnusedEntries(t) = {} \/ (setup.errors /\ c[t].n > 1)

(* What the callers do once they have put the inode into the entry. *)
Enter(t, dat, k) ==
    LET new == IF c[t].op = "link" THEN c[t].old ELSE c[t].ino IN
    /\ data' = [dat EXCEPT ![c[t].b][k] = [name |-> c[t].path[1], ino |-> new]]
    /\ i_nlinks' = IF c[t].op = "mkdir" THEN [i_nlinks EXCEPT ![c[t].dir] = @ + 1] ELSE i_nlinks
    /\ Goto(t, CASE c[t].op \in {"creat", "excl"} -> "created"
                 [] c[t].op = "link" -> "linked"
                 [] OTHER -> "put")

AddEntry(t) ==
    LET k == Lowest(UnusedEntries(t)) IN
    /\ At(t, "add")
    /\ UnusedEntries(t) # {}
    /\ i_size' = [i_size EXCEPT ![c[t].dir] = IF @ < Index(t, k) THEN Index(t, k) ELSE @]
    /\ \/ Enter(t, data, k)
       \/ /\ setup.faults
          /\ data' = [data EXCEPT ![c[t].b][k] = Free]
          /\ c' = [c EXCEPT ![t].slot = k, ![t].pc = "copy"]
          /\ UNCHANGED i_nlinks
    /\ UNCHANGED <<setup, imap, mode, i_zone, target, zmap, i_count, oops>>

(* The copy of the name slept in a page fault, with the entry still 0. *)
CopyName(t) ==
    /\ At(t, "copy")
    /\ Enter(t, data, c[t].slot)
    /\ UNCHANGED <<setup, imap, mode, i_size, i_zone, target, zmap, i_count, oops>>

(* create_block: the next block may be there, ... *)
AddInNext(t) ==
    LET z == i_zone[c[t].dir] IN
    /\ At(t, "add")
    /\ PastBlock(t)
    /\ c[t].n < Len(z)
    /\ c' = [c EXCEPT ![t].n = @ + 1, ![t].b = z[c[t].n + 1]]
    /\ UNCHANGED <<setup, inodes, blocks, i_count, oops>>

(* ... or is a new one; new_block sleeps in getblk before it is entered in *)
(* the inode.                                                              *)
Extend(t) ==
    LET b == Lowest(FreeBlocks) IN
    /\ At(t, "add")
    /\ PastBlock(t)
    /\ c[t].n = Len(i_zone[c[t].dir])
    /\ c[t].n < MaxBlocks
    /\ FreeBlocks # {}
    /\ NewBlock(b)
    /\ data' = [data EXCEPT ![b] = [k \in Slot |-> Free]]
    /\ c' = [c EXCEPT ![t].b = b, ![t].n = @ + 1, ![t].pc = "extend"]
    /\ UNCHANGED <<setup, inodes, i_count, oops>>

Extended(t) ==
    /\ At(t, "extend")
    /\ i_zone' = [i_zone EXCEPT ![c[t].dir] =
                     [n \in 1..Max({Len(@), c[t].n}) |-> IF n = c[t].n THEN c[t].b ELSE @[n]]]
    /\ Goto(t, "add")
    /\ UNCHANGED <<setup, imap, mode, i_nlinks, i_size, target, blocks, i_count, oops>>

(* The directory cannot grow, or its first block cannot be read: the new   *)
(* inode loses its link.                                                   *)
AddFails(t) ==
    /\ At(t, "add")
    /\ \/ setup.errors /\ c[t].n = 1
       \/ /\ PastBlock(t)
          /\ c[t].n = Len(i_zone[c[t].dir])
          /\ c[t].n = MaxBlocks \/ FreeBlocks = {}
    /\ i_nlinks' = [i \in Inodes |-> IF i = c[t].ino THEN 0 ELSE i_nlinks[i]]
    /\ PutAll(t)
    /\ UNCHANGED <<setup, imap, mode, i_size, i_zone, target, blocks, i_count, oops>>

(* open puts the directory and keeps the inode; link puts the directory,   *)
(* and counts the link after that.                                         *)
Created(t) ==
    /\ At(t, "created")
    /\ IPut(c[t].dir)
    /\ c' = [c EXCEPT ![t].dir = 0, ![t].pc = "opened"]
    /\ UNCHANGED <<setup, oops>>

Linked(t) ==
    /\ At(t, "linked")
    /\ IPut(c[t].dir)
    /\ c' = [c EXCEPT ![t].dir = 0, ![t].pc = "count"]
    /\ UNCHANGED <<setup, oops>>

CountLink(t) ==
    /\ At(t, "count")
    /\ i_nlinks' = [i_nlinks EXCEPT ![c[t].old] = @ + 1]
    /\ PutAll(t)
    /\ UNCHANGED <<setup, imap, mode, i_size, i_zone, target, blocks, i_count, oops>>

-----------------------------------------------------------------------------
(* unlink and rmdir. *)
HasName(t, o) == At(t, "got") /\ ~Follows(t) /\ c[t].op = o

RemoveRefused(t) ==
    /\ \/ HasName(t, "unlink") /\ mode[c[t].ino] = "dir"
       \/ /\ HasName(t, "rmdir")
          /\ \/ i_count[c[t].ino] > 1
             \/ c[t].ino = c[t].dir
             \/ mode[c[t].ino] # "dir"
    /\ c' = [c EXCEPT ![t].bh = 0, ![t].pc = "put"]
    /\ UNCHANGED <<setup, inodes, blocks, i_count, oops>>

(* The entry found before iget slept is cleared now, whatever is in it;    *)
(* an inode without links is given one first.                              *)
Unlink(t) ==
    /\ HasName(t, "unlink")
    /\ mode[c[t].ino] # "dir"
    /\ data' = [data EXCEPT ![c[t].bh][c[t].slot] = Free]
    /\ i_nlinks' = [i_nlinks EXCEPT ![c[t].ino] = IF @ = 0 THEN 0 ELSE @ - 1]
    /\ c' = [c EXCEPT ![t].bh = 0, ![t].pc = "put"]
    /\ UNCHANGED <<setup, imap, zmap, mode, i_size, i_zone, target, i_count, oops>>

RmdirChecked(t) ==
    /\ HasName(t, "rmdir")
    /\ i_count[c[t].ino] = 1
    /\ c[t].ino # c[t].dir
    /\ mode[c[t].ino] = "dir"
    /\ Goto(t, "empty_dir")
    /\ UNCHANGED <<setup, inodes, blocks, i_count, oops>>

(* empty_dir slept in bread; the links and the use count are not looked at *)
(* again.                                                                  *)
IsEmpty(i) == \A n \in DOMAIN i_zone[i], k \in Slot :
                 (n - 1) * PerBlock + k \in 3..i_size[i] => data[i_zone[i][n]][k].ino = 0

NotEmpty(t) ==
    /\ At(t, "empty_dir")
    /\ ~IsEmpty(c[t].ino)
    /\ c' = [c EXCEPT ![t].bh = 0, ![t].pc = "put"]
    /\ UNCHANGED <<setup, inodes, blocks, i_count, oops>>

Rmdir(t) ==
    /\ At(t, "empty_dir")
    /\ IsEmpty(c[t].ino)
    /\ data' = [data EXCEPT ![c[t].bh][c[t].slot] = Free]
    /\ i_nlinks' = [i_nlinks EXCEPT ![c[t].ino] = 0, ![c[t].dir] = @ - 1]
    /\ c' = [c EXCEPT ![t].bh = 0, ![t].pc = "put"]
    /\ UNCHANGED <<setup, imap, zmap, mode, i_size, i_zone, target, i_count, oops>>

Next ==
    \/ \E k \in setup.calls : Call(k[1], k[2], k[3], k[4])
    \/ \E t \in Task :
          \/ NotDirectory(t) \/ EmptyName(t) \/ Walk(t)
          \/ FindInBlock(t) \/ FindFails(t) \/ Found(t) \/ NotFound(t)
          \/ IGet(t) \/ Step(t) \/ NestedLink(t)
          \/ ReadLink(t) \/ ReadLinkFails(t) \/ FollowLink(t)
          \/ Resolved(t) \/ ResolvedOnTheWay(t) \/ Close(t) \/ LinkOld(t)
          \/ NewInode(t) \/ NoInodeLeft(t) \/ MakeDirectory(t) \/ MakeLink(t) \/ BlockFails(t)
          \/ AddEntry(t) \/ CopyName(t) \/ AddInNext(t) \/ Extend(t) \/ Extended(t) \/ AddFails(t)
          \/ Created(t) \/ Linked(t) \/ CountLink(t)
          \/ RemoveRefused(t) \/ Unlink(t) \/ RmdirChecked(t) \/ NotEmpty(t) \/ Rmdir(t)
          \/ Put(t) \/ Return(t)

-----------------------------------------------------------------------------
(* Every path through a call, failing or not, puts each inode it got once: *)
(* i_count is the number of references the calls hold (the root has one    *)
(* more, from the mount).                                                  *)
RefsExact ==
    \A i \in Inodes :
        i_count[i] = (IF i = ROOT_INO THEN 1 ELSE 0)
                     + Cardinality({<<t, f>> \in Task \X {"dir", "ino", "old"} : c[t][f] = i})

(* The entries in use: a directory and a place in it, and what is there.   *)
EntryAt(d, g) == data[i_zone[d][(g - 1) \div PerBlock + 1]][((g - 1) % PerBlock) + 1]
Entries == {e \in imap \X (1..(MaxBlocks * PerBlock)) :
               /\ mode[e[1]] = "dir"
               /\ e[2] <= i_size[e[1]]
               /\ (e[2] - 1) \div PerBlock < Len(i_zone[e[1]])
               /\ EntryAt(e[1], e[2]).ino # 0}
Names(i) == {e \in Entries : e[2] > 2 /\ EntryAt(e[1], e[2]).ino = i}
Subdirs(d) == {e \in Entries : e[1] = d /\ e[2] > 2 /\ mode[EntryAt(d, e[2]).ino] = "dir"}
IsHeld(i) == \E t \in Task : i \in {c[t].dir, c[t].ino, c[t].old}
Quiet == \A t \in Task : c[t].pc \in {"user", "opened"}

(* Between calls the file system is what fsck would have it be.            *)
(* An inode is in use as long as it has a name or is open; it has as many  *)
(* links as names, and a directory one name, itself, and its children.     *)
LinksCount ==
    \A i \in Inodes :
        /\ i \in imap <=> (i = ROOT_INO \/ Names(i) # {} \/ IsHeld(i))
        /\ i \in imap /\ mode[i] = "dir" =>
              /\ i_nlinks[i] = 2 + Cardinality(Subdirs(i))
              /\ Cardinality(Names(i)) = IF i = ROOT_INO THEN 0 ELSE 1
        /\ i \in imap /\ mode[i] # "dir" => i_nlinks[i] = Cardinality(Names(i))

(* No name is twice in a directory; "." and ".." are where they belong.    *)
NamesAreUnique ==
    /\ \A e, f \in Entries :
          e[1] = f[1] /\ EntryAt(e[1], e[2]).name = EntryAt(f[1], f[2]).name => e = f
    /\ \A d \in imap : mode[d] = "dir" =>
          /\ EntryAt(d, 1) = [name |-> ".", ino |-> d]
          /\ \A e \in Names(d) : EntryAt(d, 2) = [name |-> "..", ino |-> e[1]]

(* A block in use belongs to one inode, and none is lost. *)
BlocksAccounted ==
    LET zones == {z \in imap \X (1..MaxBlocks) : z[2] <= Len(i_zone[z[1]])} IN
    /\ zmap = {i_zone[z[1]][z[2]] : z \in zones}
    /\ Cardinality(zmap) = Cardinality(zones)

FileSystemSound == Quiet => LinksCount /\ NamesAreUnique /\ BlocksAccounted

(* "It returns NULL on failure": nobody uses the inode it did not get.     *)
NoNullInode == ~oops
=============================================================================
