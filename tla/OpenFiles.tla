------------------------------ MODULE OpenFiles ------------------------------
(***************************************************************************)
(* Open files: the descriptors of the tasks (filp[], close_on_exec), the   *)
(* table of open files they share after fork and dup (file_table) and the  *)
(* references both keep to inodes (fs/open.c, fs/fcntl.c, fs/file_table.c, *)
(* sys_pipe, and the loops over the descriptors in fork, exec and exit).   *)
(*                                                                         *)
(* An action runs from one place where the task may sleep to the next:     *)
(* namei and open_namei, get_pipe_inode, and iput.  What these do is       *)
(* modules Namei's and InodeTable's concern; here they return an inode     *)
(* with one more reference, or fail, and iput drops a reference.           *)
(***************************************************************************)
EXTENDS Integers, FiniteSets

CONSTANTS Proc,      \* the tasks; all but init are still to be forked
          init,      \* the task that never exits
          NR_OPEN,   \* descriptors of a task
          NR_FILE,   \* open files in the system
          InodeSlot, \* slots of the inode table
          OfSetups   \* what a behaviour is about: records of
                     \*   ops:    the system calls the tasks make
                     \*   faults: may a task be killed by a fault in a path name?

Fd == 0..(NR_OPEN - 1)
File == 1..NR_FILE
NULL == 0
NoSlot == "none"
Ops == {"open", "close", "dup", "dup2", "fcntl", "pipe", "chdir", "fork", "exec", "exit"}

ASSUME OpenFilesAssumption ==
    /\ init \in Proc /\ IsFiniteSet(Proc)
    /\ NR_OPEN \in Nat \ {0, 1}
    /\ NR_FILE \in Nat \ {0, 1}
    /\ NoSlot \notin InodeSlot
    /\ OfSetups \subseteq [ops : SUBSET Ops, faults : BOOLEAN]

VARIABLES of_setup,       \* a member of OfSetups, chosen at the start
          filp,           \* the files a task's descriptors stand for
          close_on_exec,  \* the descriptors of a task to be closed by exec
          pwd,            \* its working directory
          f_count, f_inode,
          i_count,
          pc,
          fds,            \* the descriptors a call is about
          inode,          \* the inode a call holds a reference to
          after           \* where sys_close goes on

tasks == <<filp, close_on_exec, pwd>>
files == <<f_count, f_inode>>
local == <<fds, inode, after>>
of_vars == <<of_setup, filp, close_on_exec, pwd, f_count, f_inode, i_count, pc, fds, inode, after>>

OfInit ==
    /\ of_setup \in OfSetups
    /\ \E root \in InodeSlot :
          /\ pwd = [t \in Proc |-> IF t = init THEN root ELSE NoSlot]
          /\ i_count = [n \in InodeSlot |-> IF n = root THEN 1 ELSE 0]
    /\ pc = [t \in Proc |-> IF t = init THEN "user" ELSE "unborn"]
    /\ filp = [t \in Proc |-> [fd \in Fd |-> NULL]]
    /\ close_on_exec = [t \in Proc |-> {}]
    /\ f_count = [f \in File |-> 0]
    /\ f_inode = [f \in File |-> NoSlot]
    /\ fds = [t \in Proc |-> {}]
    /\ inode = [t \in Proc |-> NoSlot]
    /\ after = [t \in Proc |-> "user"]

Goto(t, l) == pc' = [pc EXCEPT ![t] = l]
Calls(t, o) == pc[t] = "user" /\ o \in of_setup.ops

OpenFds(t) == {fd \in Fd : filp[t][fd] # NULL}
FreeFds(t) == Fd \ OpenFds(t)
FreeFiles == {f \in File : f_count[f] = 0}
Lowest(S, k) == {x \in S : Cardinality({y \in S : y < x}) < k}

-----------------------------------------------------------------------------
(* Descriptors and files are reserved before the call sleeps. *)
Reserve(t, k, l) ==
    /\ Cardinality(FreeFds(t)) >= k
    /\ Cardinality(FreeFiles) >= k
    /\ LET ds == Lowest(FreeFds(t), k)
           fs == Lowest(FreeFiles, k)
           Pos(x, S) == Cardinality({y \in S : y < x})
       IN  /\ filp' = [filp EXCEPT ![t] = [fd \in Fd |->
                           IF fd \in ds THEN CHOOSE f \in fs : Pos(f, fs) = Pos(fd, ds)
                                        ELSE filp[t][fd]]]
           /\ f_count' = [f \in File |-> IF f \in fs THEN 1 ELSE f_count[f]]
           /\ fds' = [fds EXCEPT ![t] = ds]
    /\ Goto(t, l)

Mine(t) == {filp[t][fd] : fd \in fds[t]}

(* The call failed: it gives back what it reserved. *)
Unreserve(t) ==
    /\ filp' = [filp EXCEPT ![t] = [fd \in Fd |-> IF fd \in fds[t] THEN NULL ELSE @[fd]]]
    /\ f_count' = [f \in File |-> IF f \in Mine(t) THEN 0 ELSE f_count[f]]
    /\ fds' = [fds EXCEPT ![t] = {}]

(* sys_open up to open_namei. *)
SysOpen(t) ==
    /\ Calls(t, "open")
    /\ Reserve(t, 1, "open_namei")
    /\ close_on_exec' = [close_on_exec EXCEPT ![t] = @ \ Lowest(FreeFds(t), 1)]
    /\ UNCHANGED <<of_setup, pwd, f_inode, i_count, inode, after>>

OpenNameiFails(t) ==
    /\ pc[t] = "open_namei"
    /\ Unreserve(t)
    /\ Goto(t, "user")
    /\ UNCHANGED <<of_setup, close_on_exec, pwd, f_inode, i_count, inode, after>>

OpenNamei(t, n) ==
    /\ pc[t] = "open_namei"
    /\ i_count' = [i_count EXCEPT ![n] = @ + 1]
    /\ inode' = [inode EXCEPT ![t] = n]
    /\ Goto(t, "opened")
    /\ UNCHANGED <<of_setup, tasks, files, fds, after>>

(* check_disk_change may have slept; the file is complete. *)
Opened(t) ==
    /\ pc[t] = "opened"
    /\ f_count' = [f \in File |-> IF f \in Mine(t) THEN 1 ELSE f_count[f]]
    /\ f_inode' = [f \in File |-> IF f \in Mine(t) THEN inode[t] ELSE f_inode[f]]
    /\ inode' = [inode EXCEPT ![t] = NoSlot]
    /\ fds' = [fds EXCEPT ![t] = {}]
    /\ Goto(t, "user")
    /\ UNCHANGED <<of_setup, tasks, i_count, after>>

(* check_char_dev refuses: iput, and the descriptor is given back. *)
OpenRefused(t) ==
    /\ pc[t] = "opened"
    /\ i_count[inode[t]] > 0
    /\ i_count' = [i_count EXCEPT ![inode[t]] = @ - 1]
    /\ inode' = [inode EXCEPT ![t] = NoSlot]
    /\ Unreserve(t)
    /\ Goto(t, "user")
    /\ UNCHANGED <<of_setup, close_on_exec, pwd, f_inode, after>>

(* The page of the path name is missing and there is no memory for it, or  *)
(* the address is bad: the fault ends in do_exit, out of the system call.  *)
KilledByFault(t) ==
    /\ of_setup.faults
    /\ t # init
    /\ pc[t] = "open_namei"
    /\ fds' = [fds EXCEPT ![t] = {}]
    /\ Goto(t, "exit")
    /\ UNCHANGED <<of_setup, tasks, files, i_count, inode, after>>

SysPipe(t) ==
    /\ Calls(t, "pipe")
    /\ Reserve(t, 2, "pipe")
    /\ UNCHANGED <<of_setup, close_on_exec, pwd, f_inode, i_count, inode, after>>

PipeFails(t) ==
    /\ pc[t] = "pipe"
    /\ Unreserve(t)
    /\ Goto(t, "user")
    /\ UNCHANGED <<of_setup, close_on_exec, pwd, f_inode, i_count, inode, after>>

MutPipeDone(t, n) ==
    /\ pc[t] = "pipe"
    /\ i_count[n] = 0
    /\ i_count' = [i_count EXCEPT ![n] = 1]
    /\ f_inode' = [f \in File |-> IF f \in Mine(t) THEN n ELSE f_inode[f]]
    /\ fds' = [fds EXCEPT ![t] = {}]
    /\ Goto(t, "user")
    /\ UNCHANGED <<of_setup, tasks, f_count, inode, after>>

(* get_pipe_inode: a free slot, counted twice, "sum of readers/writers". *)
PipeDone(t, n) ==
    /\ pc[t] = "pipe"
    /\ i_count[n] = 0
    /\ i_count' = [i_count EXCEPT ![n] = 2]
    /\ f_inode' = [f \in File |-> IF f \in Mine(t) THEN n ELSE f_inode[f]]
    /\ fds' = [fds EXCEPT ![t] = {}]
    /\ Goto(t, "user")
    /\ UNCHANGED <<of_setup, tasks, f_count, inode, after>>

-----------------------------------------------------------------------------
(* sys_close, on its own, in dup2, in exec and in exit. *)

(* The last descriptor of a file: iput(filp->f_inode), which may sleep. *)
CloseFd(t, fd, then) ==
    LET f == filp[t][fd]
        last == f # NULL /\ f_count[f] = 1 IN
    /\ close_on_exec' = [close_on_exec EXCEPT ![t] = @ \ {fd}]
    /\ filp' = [filp EXCEPT ![t][fd] = NULL]
    /\ f_count' = IF f = NULL THEN f_count ELSE [f_count EXCEPT ![f] = @ - 1]
    /\ after' = [after EXCEPT ![t] = then]
    /\ \/ /\ ~last
          /\ Goto(t, then)
          /\ UNCHANGED inode
       \/ /\ last
          /\ inode' = [inode EXCEPT ![t] = f_inode[f]]
          /\ Goto(t, "iput")
    /\ UNCHANGED <<of_setup, pwd, f_inode, i_count>>

SysClose(t, fd) ==
    /\ Calls(t, "close")
    /\ CloseFd(t, fd, "user")
    /\ UNCHANGED fds

PutInode(t) ==
    /\ pc[t] = "iput"
    /\ inode[t] # NoSlot => i_count[inode[t]] > 0
    /\ i_count' = [n \in InodeSlot |-> IF n = inode[t] THEN i_count[n] - 1 ELSE i_count[n]]
    /\ inode' = [inode EXCEPT ![t] = NoSlot]
    /\ Goto(t, after[t])
    /\ UNCHANGED <<of_setup, tasks, files, fds, after>>

(* The file of a task that was killed in open still has the inode that its *)
(* last user has put.  It is put again, and the iput that then finds no    *)
(* count panics: nothing goes on.                                          *)
IPutPanics(t) ==
    /\ pc[t] \in {"opened", "iput", "chdir"}
    /\ \E n \in {inode[t]} \cup IF pc[t] = "chdir" THEN {pwd[t]} ELSE {} :
          n # NoSlot /\ i_count[n] = 0
    /\ UNCHANGED of_vars

(* dupfd: the lowest free descriptor from arg on. *)
DupFd(t, fd, arg) ==
    LET free == {d \in FreeFds(t) : d >= arg} IN
    /\ IF filp[t][fd] = NULL \/ free = {}
         THEN UNCHANGED <<filp, close_on_exec, f_count>>
         ELSE /\ close_on_exec' = [close_on_exec EXCEPT ![t] = @ \ Lowest(free, 1)]
              /\ filp' = [filp EXCEPT ![t] = [d \in Fd |-> IF d \in Lowest(free, 1) THEN @[fd] ELSE @[d]]]
              /\ f_count' = [f_count EXCEPT ![filp[t][fd]] = @ + 1]
    /\ UNCHANGED <<of_setup, pwd, f_inode, i_count, inode, after>>

(* sys_dup, and fcntl F_DUPFD. *)
SysDup(t, fd, arg) ==
    /\ Calls(t, "dup")
    /\ filp[t][fd] # NULL
    /\ DupFd(t, fd, arg)
    /\ UNCHANGED <<pc, fds>>

(* sys_dup2 closes the new descriptor first, the old one too if it is that. *)
SysDup2(t, old, new) ==
    /\ Calls(t, "dup2")
    /\ CloseFd(t, new, "dup2")
    /\ fds' = [fds EXCEPT ![t] = {old, new}]

(* Of fds one is open now, or none is: the other one is free. *)
Dup2(t) ==
    /\ pc[t] = "dup2"
    /\ IF \E old, new \in fds[t] : filp[t][old] # NULL /\ filp[t][new] = NULL
         THEN \E old, new \in fds[t] :
                 filp[t][old] # NULL /\ filp[t][new] = NULL /\ DupFd(t, old, new)
         ELSE UNCHANGED <<of_setup, filp, close_on_exec, f_count, pwd, f_inode, i_count, inode, after>>
    /\ fds' = [fds EXCEPT ![t] = {}]
    /\ Goto(t, "user")

(* fcntl F_SETFD. *)
SetFd(t, fd) ==
    /\ Calls(t, "fcntl")
    /\ filp[t][fd] # NULL
    /\ \E on \in BOOLEAN :
          close_on_exec' = [close_on_exec EXCEPT ![t] = IF on THEN @ \cup {fd} ELSE @ \ {fd}]
    /\ UNCHANGED <<of_setup, filp, pwd, files, i_count, pc, local>>

-----------------------------------------------------------------------------
(* sys_chdir: namei, then the old directory is put, which may sleep. *)
SysChdir(t, n) ==
    /\ Calls(t, "chdir")
    /\ i_count' = [i_count EXCEPT ![n] = @ + 1]
    /\ inode' = [inode EXCEPT ![t] = n]
    /\ Goto(t, "chdir")
    /\ UNCHANGED <<of_setup, tasks, files, fds, after>>

Chdir(t) ==
    /\ pc[t] = "chdir"
    /\ i_count[pwd[t]] > 0
    /\ i_count' = [i_count EXCEPT ![pwd[t]] = @ - 1]
    /\ pwd' = [pwd EXCEPT ![t] = inode[t]]
    /\ inode' = [inode EXCEPT ![t] = NoSlot]
    /\ Goto(t, "user")
    /\ UNCHANGED <<of_setup, filp, close_on_exec, files, fds, after>>

(* namei found no directory: its inode is put again. *)
ChdirFails(t) ==
    /\ pc[t] = "chdir"
    /\ i_count[inode[t]] > 0
    /\ i_count' = [i_count EXCEPT ![inode[t]] = @ - 1]
    /\ inode' = [inode EXCEPT ![t] = NoSlot]
    /\ Goto(t, "user")
    /\ UNCHANGED <<of_setup, tasks, files, fds, after>>

MutCopyFiles(t, u) ==
    /\ Calls(t, "fork")
    /\ pc[u] = "unborn"
    /\ filp' = [filp EXCEPT ![u] = filp[t]]
    /\ close_on_exec' = [close_on_exec EXCEPT ![u] = close_on_exec[t]]
    /\ pwd' = [pwd EXCEPT ![u] = pwd[t]]
    /\ f_count' = [f \in File |-> f_count[f] + (IF \E fd \in Fd : filp[t][fd] = f THEN 1 ELSE 0)]
    /\ i_count' = [i_count EXCEPT ![pwd[t]] = @ + 1]
    /\ Goto(u, "user")
    /\ UNCHANGED <<of_setup, f_inode, local>>

(* copy_process: the child shares the files, and counts. *)
CopyFiles(t, u) ==
    /\ Calls(t, "fork")
    /\ pc[u] = "unborn"
    /\ filp' = [filp EXCEPT ![u] = filp[t]]
    /\ close_on_exec' = [close_on_exec EXCEPT ![u] = close_on_exec[t]]
    /\ pwd' = [pwd EXCEPT ![u] = pwd[t]]
    /\ f_count' = [f \in File |-> f_count[f] + Cardinality({fd \in Fd : filp[t][fd] = f})]
    /\ i_count' = [i_count EXCEPT ![pwd[t]] = @ + 1]
    /\ Goto(u, "user")
    /\ UNCHANGED <<of_setup, f_inode, local>>

Exec(t) ==
    /\ Calls(t, "exec")
    /\ Goto(t, "exec")
    /\ UNCHANGED <<of_setup, tasks, files, i_count, local>>

ExecClose(t) ==
    /\ pc[t] = "exec"
    /\ \E fd \in Lowest(close_on_exec[t], 1) : CloseFd(t, fd, "exec")
    /\ UNCHANGED fds

ExecDone(t) ==
    /\ pc[t] = "exec"
    /\ close_on_exec[t] = {}
    /\ Goto(t, "user")
    /\ UNCHANGED <<of_setup, tasks, files, i_count, local>>

Exit(t) ==
    /\ Calls(t, "exit")
    /\ t # init
    /\ Goto(t, "exit")
    /\ UNCHANGED <<of_setup, tasks, files, i_count, local>>

(* do_exit: every descriptor, then the directory. *)
ExitClose(t) ==
    /\ pc[t] = "exit"
    /\ \E fd \in Lowest(OpenFds(t), 1) : CloseFd(t, fd, "exit")
    /\ UNCHANGED fds

ExitPut(t) ==
    /\ pc[t] = "exit"
    /\ OpenFds(t) = {}
    /\ inode' = [inode EXCEPT ![t] = pwd[t]]
    /\ pwd' = [pwd EXCEPT ![t] = NoSlot]
    /\ after' = [after EXCEPT ![t] = "zombie"]
    /\ Goto(t, "iput")
    /\ UNCHANGED <<of_setup, filp, close_on_exec, files, i_count, fds>>

(* The father waits for it, and the slot is free for a fork. *)
Release(t) ==
    /\ pc[t] = "zombie"
    /\ after' = [after EXCEPT ![t] = "user"]
    /\ close_on_exec' = [close_on_exec EXCEPT ![t] = {}]
    /\ Goto(t, "unborn")
    /\ UNCHANGED <<of_setup, filp, pwd, files, i_count, fds, inode>>

OfNext ==
    \E t \in Proc :
       \/ SysOpen(t) \/ OpenNameiFails(t) \/ Opened(t) \/ OpenRefused(t) \/ KilledByFault(t)
       \/ SysPipe(t) \/ PipeFails(t) \/ PutInode(t) \/ IPutPanics(t) \/ Dup2(t)
       \/ Chdir(t) \/ ChdirFails(t)
       \/ Exec(t) \/ ExecClose(t) \/ ExecDone(t)
       \/ Exit(t) \/ ExitClose(t) \/ ExitPut(t) \/ Release(t)
       \/ \E n \in InodeSlot : OpenNamei(t, n) \/ PipeDone(t, n) \/ SysChdir(t, n)
       \/ \E u \in Proc : CopyFiles(t, u)
       \/ \E fd \in Fd : SysClose(t, fd) \/ SetFd(t, fd)
       \/ \E fd, d \in Fd : SysDup(t, fd, d) \/ SysDup2(t, fd, d)

OfSpec == OfInit /\ [][OfNext]_of_vars

-----------------------------------------------------------------------------
(* Every file knows how many descriptors stand for it, through fork, dup,  *)
(* exec and exit and through calls that fail half way; and no mark for     *)
(* exec is left for a descriptor that is not open (it would close the next *)
(* file opened there).                                                     *)
DescriptorsExact ==
    /\ \A f \in File : f_count[f] = Cardinality({r \in Proc \X Fd : filp[r[1]][r[2]] = f})
    /\ \A t \in Proc : close_on_exec[t] \subseteq OpenFds(t)

(* A file between sys_open's or sys_pipe's reservation and its inode. *)
HalfOpen == UNION {Mine(t) : t \in {u \in Proc : pc[u] \in {"open_namei", "opened", "pipe"}}}

(* Every inode knows how many open files, working directories and calls    *)
(* under way refer to it: none is freed in use, none is kept for ever.     *)
InodesCounted ==
    \A n \in InodeSlot :
        i_count[n] = Cardinality({f \in File \ HalfOpen : f_count[f] > 0 /\ f_inode[f] = n})
                     + Cardinality({t \in Proc : inode[t] = n})
                     + Cardinality({t \in Proc : pwd[t] = n})

(* A task that is killed while it opens a file keeps what it has reserved, *)
(* and closes it as if it were complete; otherwise all counts are right.   *)
DescriptorsSound == DescriptorsExact /\ (~of_setup.faults => InodesCounted)
=============================================================================
