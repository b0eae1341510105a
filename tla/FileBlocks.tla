----------------------------- MODULE FileBlocks -----------------------------
(***************************************************************************)
(* The blocks of files: how file_read and file_write find them (_bmap in   *)
(* fs/inode.c, fs/file_dev.c), how they come from the map of free blocks   *)
(* and go back to it (fs/bitmap.c, fs/truncate.c).                         *)
(*                                                                         *)
(* A file is a tree: its inode points to data blocks, to an index block    *)
(* and to an index block of index blocks.  A place in the tree is a path,  *)
(* <<z>>, <<z, k>> or <<z, j, k>>.  Nothing locks a file: an action runs   *)
(* from one place where a task may sleep to the next (bread, getblk in     *)
(* new_block, a fault while copying, schedule in truncate).  A buffer      *)
(* somebody holds keeps its block from being freed.                        *)
(***************************************************************************)
EXTENDS Naturals, FiniteSets, Sequences

CONSTANTS Task, File,
          NBlock,   \* data blocks of the device
          NDirect,  \* 7
          PerIndex, \* 512
          Setups    \* what a behaviour is about: records of
                    \*   calls: the calls <<task, operation, file, place>>
                    \*   full:  the files that have all their blocks at the start

Block == 1..NBlock
Places == {<<z>> : z \in 0..(NDirect - 1)}
          \cup {<<NDirect, k>> : k \in 0..(PerIndex - 1)}
          \cup {<<NDirect + 1, j, k>> : j, k \in 0..(PerIndex - 1)}

FileBlocksAssumption ==
    /\ {NBlock, NDirect, PerIndex} \subseteq Nat \ {0}
    /\ \A s \in Setups : s.calls \subseteq Task \X {"read", "write", "truncate"} \X File \X Places

VARIABLES setup,   \* a member of Setups, chosen at the start
          zmap,    \* the blocks in use
          i_zone,  \* of each file, 0 for a block it does not have
          index,   \* what is in index blocks
          pc, op, file,
          place,   \* what is left of the path to the block
          node,    \* the index block in whose buffer it looks, 0 for the inode
          bh,      \* the block of the buffer a task reads or writes, or waits for
          stack,   \* truncate: the index blocks it is in
          pos,     \* truncate: how far it is
          busy,    \* truncate: the places it could not free
          panicked

local == <<op, file, place, node, bh, stack, pos, busy>>
fs == <<zmap, i_zone, index>>
vars == <<setup, zmap, i_zone, index, pc, op, file, place, node, bh, stack, pos, busy, panicked>>

NoBlock == 0
NoFile == "none"
Empty == [k \in 0..(PerIndex - 1) |-> NoBlock]

(* A file with one block of each kind takes six blocks. *)
Init ==
    /\ setup \in Setups
    /\ IF setup.full
         THEN /\ zmap = 1..(NDirect + 5)
              /\ i_zone = [f \in File |-> [z \in 0..(NDirect + 1) |->
                              IF f = CHOOSE g \in File : TRUE THEN z + 1 ELSE NoBlock]]
              /\ index = [b \in Block |-> [Empty EXCEPT ![0] =
                              CASE b = NDirect + 1 -> NDirect + 3
                                [] b = NDirect + 2 -> NDirect + 4
                                [] b = NDirect + 4 -> NDirect + 5
                                [] OTHER -> NoBlock]]
         ELSE /\ zmap = {}
              /\ i_zone = [f \in File |-> [z \in 0..(NDirect + 1) |-> NoBlock]]
              /\ index = [b \in Block |-> Empty]
    /\ pc = [t \in Task |-> "user"]
    /\ op = [t \in Task |-> "none"]
    /\ file = [t \in Task |-> NoFile]
    /\ place = [t \in Task |-> <<>>]
    /\ node = [t \in Task |-> NoBlock]
    /\ bh = [t \in Task |-> NoBlock]
    /\ stack = [t \in Task |-> <<>>]
    /\ pos = [t \in Task |-> 0]
    /\ busy = [t \in Task |-> {}]
    /\ panicked = FALSE

Goto(t, l) == pc' = [pc EXCEPT ![t] = l]
Return(t) ==
    /\ op' = [op EXCEPT ![t] = "none"]
    /\ file' = [file EXCEPT ![t] = NoFile]
    /\ Goto(t, "user")

(* The buffers a task holds: an index block, what it copies, where         *)
(* truncate is.                                                            *)
HoldsOf(t) == {node[t]} \cup {stack[t][n] : n \in DOMAIN stack[t]}
              \cup (IF pc[t] = "copy" THEN {bh[t]} ELSE {})
HeldByOthers(t, b) == \E u \in Task \ {t} : b \in HoldsOf(u)

(* find_first_zero, set_bit and clear_block. *)
FreeBlocks == Block \ zmap
Lowest(S) == CHOOSE x \in S : \A y \in S : x <= y

Call(t, o, f, p) ==
    /\ pc[t] = "user"
    /\ <<t, o, f, p>> \in setup.calls
    /\ op' = [op EXCEPT ![t] = o]
    /\ file' = [file EXCEPT ![t] = f]
    /\ place' = [place EXCEPT ![t] = IF o = "truncate" THEN <<>> ELSE p]
    /\ pos' = [pos EXCEPT ![t] = IF o = "truncate" THEN 1 ELSE 0]
    /\ Goto(t, IF o = "truncate" THEN "truncate" ELSE "map")
    /\ UNCHANGED <<setup, fs, node, bh, stack, busy, panicked>>

-----------------------------------------------------------------------------
(* _bmap: from the inode down, a level at a time. *)

Entry(f, b, k) == IF b = NoBlock THEN i_zone[f][k] ELSE index[b][k]
SetEntry(f, b, k, new) ==
    IF b = NoBlock THEN /\ i_zone' = [i_zone EXCEPT ![f][k] = new]
                        /\ UNCHANGED index
                   ELSE /\ index' = [index EXCEPT ![b][k] = new]
                        /\ UNCHANGED i_zone

(* The entry leads to the block: let go of the index block, wait for this. *)
Descend(t, b) ==
    /\ node' = [node EXCEPT ![t] = NoBlock]
    /\ bh' = [bh EXCEPT ![t] = b]
    /\ place' = [place EXCEPT ![t] = Tail(@)]
    /\ Goto(t, IF Len(place[t]) = 1 THEN "bread" ELSE "index")

Map(t) ==
    LET e == Entry(file[t], node[t], Head(place[t])) IN
    /\ pc[t] = "map"
    /\ e # NoBlock
    /\ Descend(t, e)
    /\ UNCHANGED <<setup, fs, op, file, stack, pos, busy, panicked>>

(* bread of an index block. *)
ReadIndex(t) ==
    /\ pc[t] = "index"
    /\ node' = [node EXCEPT ![t] = bh[t]]
    /\ bh' = [bh EXCEPT ![t] = NoBlock]
    /\ Goto(t, "map")
    /\ UNCHANGED <<setup, fs, op, file, place, stack, pos, busy, panicked>>

(* A hole: nothing to read, or no block is left to write to. *)
Hole(t) ==
    /\ pc[t] = "map"
    /\ Entry(file[t], node[t], Head(place[t])) = NoBlock
    /\ op[t] = "read" \/ FreeBlocks = {}
    /\ node' = [node EXCEPT ![t] = NoBlock]
    /\ place' = [place EXCEPT ![t] = <<>>]
    /\ Return(t)
    /\ UNCHANGED <<setup, fs, bh, stack, pos, busy, panicked>>

(* Mutant: the bit of the new block is not set. *)
MutNewBlock(t) ==
    /\ pc[t] = "map"
    /\ Entry(file[t], node[t], Head(place[t])) = NoBlock
    /\ op[t] = "write"
    /\ FreeBlocks # {}
    /\ bh' = [bh EXCEPT ![t] = Lowest(FreeBlocks)]
    /\ Goto(t, "new_block")
    /\ UNCHANGED <<setup, fs, op, file, place, node, stack, pos, busy, panicked>>

(* new_block takes a block from the map, and waits for its buffer. *)
NewBlock(t) ==
    LET b == Lowest(FreeBlocks) IN
    /\ pc[t] = "map"
    /\ Entry(file[t], node[t], Head(place[t])) = NoBlock
    /\ op[t] = "write"
    /\ FreeBlocks # {}
    /\ zmap' = zmap \cup {b}
    /\ bh' = [bh EXCEPT ![t] = b]
    /\ Goto(t, "new_block")
    /\ UNCHANGED <<setup, i_zone, index, op, file, place, node, stack, pos, busy, panicked>>

(* "new block: count is != 1" if somebody has the buffer; it is cleared,   *)
(* and the block goes into the inode or index whatever is there by now.    *)
NewBlockDone(t) ==
    LET b == bh[t]
        n == node[t]
        k == Head(place[t]) IN
    /\ pc[t] = "new_block"
    /\ panicked' = (panicked \/ HeldByOthers(t, b))
    /\ i_zone' = IF n = NoBlock THEN [i_zone EXCEPT ![file[t]][k] = b] ELSE i_zone
    /\ index' = [c \in Block |-> CASE c = b -> Empty
                                   [] c # b /\ c = n -> [index[c] EXCEPT ![k] = b]
                                   [] OTHER -> index[c]]
    /\ Descend(t, b)
    /\ UNCHANGED <<setup, zmap, op, file, stack, pos, busy>>

(* file_read and file_write have the block and copy, which may fault. *)
BRead(t) ==
    /\ pc[t] = "bread"
    /\ Goto(t, "copy")
    /\ UNCHANGED <<setup, fs, local, panicked>>

Copied(t) ==
    /\ pc[t] = "copy"
    /\ bh' = [bh EXCEPT ![t] = NoBlock]
    /\ Return(t)
    /\ UNCHANGED <<setup, fs, place, node, stack, pos, busy, panicked>>

-----------------------------------------------------------------------------
(* truncate: the places in the order free_ind and free_dind visit them; an *)
(* index block is entered, and left when all under it has been visited.    *)
Index(j) == [n \in 1..PerIndex |-> [do |-> "free", at |-> Append(j, n - 1)]]
Enter(p) == <<[do |-> "enter", at |-> p]>>
Leave(p) == <<[do |-> "leave", at |-> p]>>
Second == <<NDirect + 1>>
Under[j \in 0..PerIndex] ==
    IF j = 0 THEN <<>>
    ELSE Under[j - 1] \o Enter(Append(Second, j - 1)) \o Index(Append(Second, j - 1))
                      \o Leave(Append(Second, j - 1))
Visit == [n \in 1..NDirect |-> [do |-> "free", at |-> <<n - 1>>]]
         \o Enter(<<NDirect>>) \o Index(<<NDirect>>) \o Leave(<<NDirect>>)
         \o Enter(Second) \o Under[PerIndex] \o Leave(Second)

Top(t) == stack[t][Len(stack[t])]
Last(p) == p[Len(p)]
Doing(t, what) == pc[t] = "truncate" /\ pos[t] <= Len(Visit) /\ Visit[pos[t]].do = what
At(t) == Visit[pos[t]].at

(* What the entry for the current place holds; a missing index block has   *)
(* nothing under it.                                                       *)
EntryAt(t) == IF Len(At(t)) = 1 THEN i_zone[file[t]][At(t)[1]]
              ELSE IF Top(t) = NoBlock THEN NoBlock ELSE index[Top(t)][Last(At(t))]

(* free_block, and the entry is cleared; or the block is busy. *)
FreeBlock(t, b, parent) ==
    LET under == \E p \in busy[t] : Len(p) = Len(At(t)) + 1 /\ SubSeq(p, 1, Len(At(t))) = At(t) IN
    IF b = NoBlock
      THEN UNCHANGED <<fs, busy>>
    ELSE IF under \/ HeldByOthers(t, b)
      THEN /\ busy' = [busy EXCEPT ![t] = @ \cup {At(t)}]
           /\ UNCHANGED fs
      ELSE /\ zmap' = zmap \ {b}
           /\ SetEntry(file[t], parent, Last(At(t)), NoBlock)
           /\ UNCHANGED busy

Forward(t) == pos' = [pos EXCEPT ![t] = @ + 1]

(* bread of an index block. *)
EnterIndex(t) ==
    /\ Doing(t, "enter")
    /\ stack' = [stack EXCEPT ![t] = Append(@, EntryAt(t))]
    /\ Forward(t)
    /\ UNCHANGED <<setup, fs, pc, op, file, place, node, bh, busy, panicked>>

FreeData(t) ==
    /\ Doing(t, "free")
    /\ FreeBlock(t, EntryAt(t), IF Len(At(t)) = 1 THEN NoBlock ELSE Top(t))
    /\ Forward(t)
    /\ UNCHANGED <<setup, pc, op, file, place, node, bh, stack, panicked>>

(* brelse of the index block, which is freed unless something under it     *)
(* was busy.                                                               *)
LeaveIndex(t) ==
    LET n == Len(stack[t]) IN
    /\ Doing(t, "leave")
    /\ stack' = [stack EXCEPT ![t] = SubSeq(@, 1, n - 1)]
    /\ FreeBlock(t, Top(t), IF n = 1 THEN NoBlock ELSE stack[t][n - 1])
    /\ Forward(t)
    /\ UNCHANGED <<setup, pc, op, file, place, node, bh, panicked>>

(* Something was busy: schedule(), and all over again. *)
Repeat(t) ==
    /\ pc[t] = "truncate"
    /\ pos[t] > Len(Visit)
    /\ busy[t] # {}
    /\ busy' = [busy EXCEPT ![t] = {}]
    /\ pos' = [pos EXCEPT ![t] = 1]
    /\ UNCHANGED <<setup, fs, pc, op, file, place, node, bh, stack, panicked>>

Truncated(t) ==
    /\ pc[t] = "truncate"
    /\ pos[t] > Len(Visit)
    /\ busy[t] = {}
    /\ pos' = [pos EXCEPT ![t] = 0]
    /\ Return(t)
    /\ UNCHANGED <<setup, fs, place, node, bh, stack, busy, panicked>>

Next ==
    \/ \E k \in setup.calls : Call(k[1], k[2], k[3], k[4])
    \/ \E t \in Task :
          \/ Map(t) \/ ReadIndex(t) \/ Hole(t) \/ NewBlock(t) \/ NewBlockDone(t)
          \/ BRead(t) \/ Copied(t)
          \/ EnterIndex(t) \/ FreeData(t) \/ LeaveIndex(t) \/ Repeat(t) \/ Truncated(t)

-----------------------------------------------------------------------------
(* The entries of a file, in its inode and in its index blocks, that lead  *)
(* to a block: <<file, index block or NoBlock for the inode, number>>.     *)
Leads(e) == Entry(e[1], e[2], e[3])
Of(f, b, S) == {e \in {f} \X {b} \X S : Leads(e) # NoBlock}
Below(f, E) == UNION {Of(f, Leads(e), DOMAIN Empty) : e \in E}
References(f) ==
    LET second == Of(f, NoBlock, {NDirect + 1})
        single == Of(f, NoBlock, {NDirect}) \cup Below(f, second)
    IN  Of(f, NoBlock, DOMAIN i_zone[f]) \cup Below(f, second) \cup Below(f, single)

(* Between calls a block is in use if and only if one entry of one file    *)
(* leads to it: none is lost, none is in two files or freed in use.        *)
Quiet == \A t \in Task : pc[t] = "user"
BlocksHaveOneOwner ==
    Quiet =>
        LET refs == UNION {References(f) : f \in File} IN
        /\ zmap = {Leads(e) : e \in refs}
        /\ Cardinality(zmap) = Cardinality(refs)

(* What file_write copies goes to a block of the file and of no other: to  *)
(* one that is in use and that some entry of the file leads to.            *)
WritesToOwnBlock ==
    \A t \in Task : pc[t] = "copy" /\ op[t] = "write" =>
        /\ bh[t] \in zmap
        /\ \E e \in References(file[t]) : Leads(e) = bh[t]
        /\ \A f \in File \ {file[t]} : \A e \in References(f) : Leads(e) # bh[t]

NoPanic == ~panicked
=============================================================================
