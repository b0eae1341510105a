------------------------------ MODULE MCFiles ------------------------------
(***************************************************************************)
(* Model checking path names and directories, open files, the blocks of    *)
(* files, and the inode table in one run.  Each of these modules abstracts *)
(* from the others, so a behaviour is one of a single part, chosen at the  *)
(* start, while the others stay as they are initialised; their invariants  *)
(* hold of that.                                                           *)
(***************************************************************************)
EXTENDS InodeTable, OpenFiles, Sequences, TLC

CONSTANTS t1, t2, t3, \* tasks
          f1, f2,     \* files
          n1, n2,     \* slots of the inode table
          dir, other, \* inodes
          Parts,      \* the parts to check
          NmSetups

VARIABLES part,
          nm_setup, nm_imap, nm_zmap, nm_mode, nm_i_nlinks, nm_i_count, nm_i_size,
          nm_i_zone, nm_data, nm_target, nm_oops, nm_c,
          fb_setup, fb_zmap, fb_i_zone, fb_index, fb_pc, fb_op, fb_file, fb_place,
          fb_node, fb_bh, fb_stack, fb_pos, fb_busy, fb_panicked

nm_vars == <<nm_setup, nm_imap, nm_zmap, nm_mode, nm_i_nlinks, nm_i_count,
             nm_i_size, nm_i_zone, nm_data, nm_target, nm_oops, nm_c>>
fb_vars == <<fb_setup, fb_zmap, fb_i_zone, fb_index, fb_pc, fb_op, fb_file, fb_place,
             fb_node, fb_bh, fb_stack, fb_pos, fb_busy, fb_panicked>>
fs_vars == <<part, nm_vars, of_vars, fb_vars, vars>>

-----------------------------------------------------------------------------
(* The calls of the path names.                                            *)
A == <<"a">>
B == <<"b">>
AB == <<"a", "b">>
NmCalls(t, ops, paths) == {t} \X ops \X paths \X {<<>>}
Orderly == [calls |-> {}, dirs |-> <<>>, faults |-> FALSE, errors |-> FALSE]

(* One task, with a root directory that is full at the start and directory *)
(* a: every call, on the root and below it.                                *)
Alone == [Orderly EXCEPT !.dirs = <<"a", "c">>,
             !.calls = NmCalls(t1, {"mkdir", "unlink", "rmdir"}, {B, AB})
                       \cup NmCalls(t1, {"rmdir"}, {A})
                       \cup NmCalls(t1, {"excl"}, {B})
                       \cup NmCalls(t1, {"mknod"}, {AB})
                       \cup NmCalls(t1, {"open"}, {<<"b", "">>, <<"a", "..", "b">>})
                       \cup {<<t1, "link", AB, B>>, <<t1, "link", B, AB>>}]

(* Symbolic links to files, directories, nowhere and to each other.        *)
Links == [Orderly EXCEPT
             !.calls = NmCalls(t1, {"open"}, {A, B, AB, <<"b", "b">>})
                       \cup NmCalls(t1, {"creat", "unlink", "mkdir"}, {A, AB})
                       \cup {<<t1, "symlink", B, p>> : p \in {A, <<"a", "">>, AB}}
                       \cup {<<t1, "symlink", A, B>>}]

(* Two tasks in one directory, each with a name of its own.                *)
Separate == [Orderly EXCEPT
             !.calls = NmCalls(t1, {"creat", "mkdir", "unlink", "rmdir"}, {A})
                       \cup NmCalls(t2, {"mknod", "unlink", "creat"}, {B})]

(* A disk that fails, and faults while a name is copied: for one task,     *)
(* also with a link; and for two that create the same name, in a directory *)
(* that has to grow.  The file system does not stay sound, but the         *)
(* references do.                                                          *)
Failing == [Orderly EXCEPT !.faults = TRUE, !.errors = TRUE,
               !.calls = NmCalls(t1, {"mkdir"}, {A, AB}) \cup NmCalls(t1, {"creat"}, {AB})]
FailingLink == [Orderly EXCEPT !.errors = TRUE, !.dirs = <<"a", "c">>,
                   !.calls = {<<t1, "open", B, <<>>>>, <<t1, "symlink", B, <<"a", "">>>>,
                              <<t1, "creat", <<"b", "b">>, <<>>>>, <<t1, "unlink", B, <<>>>>}]
SameName == [Orderly EXCEPT !.faults = TRUE, !.errors = TRUE, !.dirs = <<"c", "d">>,
                !.calls = NmCalls(t1, {"mkdir"}, {A}) \cup NmCalls(t2, {"creat"}, {A})]

(* One task follows a link the other one removes.                          *)
NmShared == {[Orderly EXCEPT !.calls = {<<t1, "symlink", B, A>>, <<t1, "open", B, <<>>>>,
                                        <<t2, "unlink", B, <<>>>>}]}

NmWorks == {Alone, Links, Separate, Failing, FailingLink, SameName}

NM == INSTANCE Namei WITH
    Task <- {t1, t2}, NInode <- 5, NBlock <- 5, PerBlock <- 4, MaxBlocks <- 3,
    Setups <- NmSetups,
    setup <- nm_setup, imap <- nm_imap, zmap <- nm_zmap, mode <- nm_mode,
    i_nlinks <- nm_i_nlinks, i_count <- nm_i_count, i_size <- nm_i_size,
    i_zone <- nm_i_zone, data <- nm_data, target <- nm_target, oops <- nm_oops,
    c <- nm_c

-----------------------------------------------------------------------------
(* What two tasks do with their open files; in the last setup, page faults *)
(* in a path name kill them while they open a file.                        *)
OfWorks == [faults : {FALSE},
            ops : {{"open", "close", "fcntl", "exec"},
                   {"pipe", "close", "fcntl", "fork", "exec", "exit"},
                   {"open", "dup2", "fork"}, {"open", "chdir", "fork", "exit"},
                   {"open", "dup", "close", "pipe", "fork", "exit"}}]
           \cup [faults : {TRUE}, ops : {{"open", "fork", "exit"}}]

SlotSymmetry == Permutations({n1, n2})

-----------------------------------------------------------------------------
(* One task with two files; two tasks each with its own; and, on a device  *)
(* with one file, a task that truncates it while the other reads it or     *)
(* truncates it too.                                                       *)
Transfers(t, ops, file, places) == {t} \X ops \X {file} \X places
Truncates(t, file) == Transfers(t, {"truncate"}, file, {<<0>>})
Deep == {<<0>>, <<1, 0>>, <<2, 0, 0>>}
FbWorks == {
    [full |-> FALSE, calls |-> Transfers(t1, {"write", "read"}, f1, Deep)
                               \cup Transfers(t1, {"write"}, f2, {<<0>>, <<1, 1>>})
                               \cup Truncates(t1, f1)],
    [full |-> FALSE, calls |-> Transfers(t1, {"write"}, f1, {<<0>>, <<2, 0, 0>>})
                               \cup Truncates(t1, f1)
                               \cup Transfers(t2, {"write"}, f2, {<<1, 0>>, <<1, 1>>})],
    [full |-> TRUE,  calls |-> Truncates(t1, f1) \cup Truncates(t2, f1)
                               \cup Transfers(t2, {"read"}, f1, Deep)]}

FB == INSTANCE FileBlocks WITH
    Task <- {t1, t2}, File <- {f1, f2}, NBlock <- 6, NDirect <- 1, PerIndex <- 2,
    Setups <- FbWorks,
    setup <- fb_setup, zmap <- fb_zmap, i_zone <- fb_i_zone, index <- fb_index,
    pc <- fb_pc, op <- fb_op, file <- fb_file, place <- fb_place, node <- fb_node,
    bh <- fb_bh, stack <- fb_stack, pos <- fb_pos, busy <- fb_busy,
    panicked <- fb_panicked

-----------------------------------------------------------------------------
(* The inode table: what the tasks do.                                     *)
Unused == [find |-> {}, child |-> {}, sync |-> {}, create |-> {}, unlink |-> {}, mount |-> {},
          umount |-> {}, change |-> {}, dirs |-> {dir}, blk |-> {}]

(* A file and a directory are shared, created, changed and written back. *)
Syncing == [Unused EXCEPT !.find = {t1, t2} \X {dir, other}, !.sync = {t3}, !.create = {t1}]

(* The file is a block device: iput syncs it. *)
Devices == [Unused EXCEPT !.find = {t1} \X {dir, other} \cup {<<t2, other>>}, !.blk = {other}]

(* A file is created, passed on by fork, and unlinked. *)
Unlinking == [Unused EXCEPT !.find = {t1} \X {dir, other} \cup {<<t2, dir>>},
                           !.child = {t2}, !.unlink = {t1, t2},
                           !.create = {t1}]

(* The removable disk is mounted and unmounted, *)
Mounting == [Unused EXCEPT !.find = {<<t1, dir>>}, !.sync = {t3}, !.mount = {t1, t2},
                          !.umount = {t1}, !.child = {t2}]

(* or changed by one of two tasks that mount it, each where it likes. *)
Changing == [Unused EXCEPT !.find = {<<t1, dir>>, <<t2, other>>}, !.dirs = {dir, other},
                          !.mount = {t1, t2}, !.change = {t1}]

ItWorks == {Syncing, Devices, Unlinking, Mounting, Changing}

(* One task looks up the file another one removes. *)
ItShared == {[Unlinking EXCEPT !.find = {t1, t2} \X {other}]}

ASSUME NM!NameiAssumption /\ FB!FileBlocksAssumption

(* The calls keep the order under which the inode table stays sound. *)
ASSUME \A w \in ItWorks : Careful(w)

-----------------------------------------------------------------------------
FsInit ==
    /\ part \in Parts
    /\ NM!Init /\ OfInit /\ FB!Init /\ Init
    /\ part # "names" => nm_setup = CHOOSE w \in NmSetups : TRUE
    /\ part # "files" => of_setup = CHOOSE w \in OfSetups : TRUE
    /\ part # "blocks" => fb_setup = CHOOSE w \in FbWorks : TRUE
    /\ part # "inodes" => setup = CHOOSE w \in Setups : TRUE

FsNext ==
    \/ part = "names" /\ NM!Next /\ UNCHANGED <<part, of_vars, fb_vars, vars>>
    \/ part = "files" /\ OfNext /\ UNCHANGED <<part, nm_vars, fb_vars, vars>>
    \/ part = "blocks" /\ FB!Next /\ UNCHANGED <<part, nm_vars, of_vars, vars>>
    \/ part = "inodes" /\ Next /\ UNCHANGED <<part, nm_vars, of_vars, fb_vars>>

FsSpec == FsInit /\ [][FsNext]_fs_vars

-----------------------------------------------------------------------------
(* The properties of the parts, see there; those of the open files and the *)
(* inode table are in their modules.                                       *)
NamesSound ==
    part = "names" =>
        /\ NM!RefsExact
        /\ nm_setup \in {Alone, Links, Separate} => NM!FileSystemSound
(* follow_link puts the link while it holds the buffer of its block: if    *)
(* that frees the inode, truncate() waits for the task's own buffer.       *)
NoWaitForItself ==
    \A t \in {t1, t2} : nm_c[t].pc = "follow" =>
        nm_i_count[nm_c[t].ino] > 1 \/ nm_i_nlinks[nm_c[t].ino] > 0

BlocksSound ==
    part = "blocks" => FB!BlocksHaveOneOwner /\ FB!WritesToOwnBlock /\ FB!NoPanic
=============================================================================
