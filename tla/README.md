# Linux 0.12: specifications, model checking and proofs

This directory holds TLA+ modules for the core of the Linux 0.12 kernel in
`src/`: how tasks sleep and are woken, how the processor is shared, how
processes come and go, how signals reach a program, and how blocks travel
between files, the cache and the disk. Small instances are checked with TLC;
wait queues, scheduler, buffer cache, pipes, request queue, signals and the hard
disk driver are also proved with TLAPS, for every value of their constants.

Files named `*~`, `init/main.s` and `blk_drv/RCS` are backups or generated and
play no part.

## 1. The system

The kernel is not preemptive. A task in the kernel keeps the processor until it
calls `schedule()`; in user mode the clock takes it away. What can interleave
is therefore: tasks, at the places where they sleep; and interrupts (clock,
disk), wherever interrupts are on. `cli()` and `sti()` decide which stretches
an interrupt may split, and every page fault and every allocation can sleep.
The modules put their action boundaries exactly there.

| Component | State | Operations | Works with |
|---|---|---|---|
| Wait queues (`kernel/sched.c`) | the pointer `*p`, `tmp` on each sleeper's stack, task states | `sleep_on`, `interruptible_sleep_on`, `wake_up` | every lock, every sleep |
| Scheduler (`sched.c`, `sys_call.s`) | `current`, `counter`, `priority`, `timeout`, `alarm`, `signal` | `schedule`, `do_timer`, `alarm`, `nice`, `pause`, return to user mode | wait queues, signals, clock |
| Timers (`sched.c`) | `timer_list`, a list of differences | `add_timer`, `do_timer` | floppy driver |
| Signals (`signal.c`, `exit.c`, `sys_call.s`) | `signal`, `blocked`, `sigaction[]`, frames on the user stack, saved registers | `send_sig`, `do_signal`, `sigaction`, `sigsuspend`, restart of calls | every call that waits |
| Processes (`fork.c`, `exit.c`, `signal.c`, `sys.c`) | `task[]`, parent, child and sibling links, pids, groups, sessions, pending signals | `fork`, `exit`, `waitpid`, `kill`, `do_signal`, `setpgid`, `setsid` | scheduler, memory, terminals |
| Buffer cache (`fs/buffer.c`) | per buffer: block, `b_count`, `b_dirt`, `b_uptodate`, `b_lock`; free list | `getblk`, `bread`, `breada`, `brelse`, `sync_dev`, `invalidate_buffers` | request queue, file system |
| Request queue (`blk_drv/ll_rw_blk.c`, `blk.h`) | `request[]`, `current_request` | `make_request`, `ll_rw_page`, `add_request`, `end_request` | cache, swapping, disk interrupts |
| Pipes (`fs/pipe.c`) | a page as a ring, head and tail, two wait queues, counts of ends | `pipe`, `read`, `write`, close | inodes, select |
| Select (`fs/select.c`) | `wait_table`, `timeout` | `do_select`, `add_wait`, `free_wait` | pipes, terminals, scheduler |
| Inode cache (`fs/inode.c`) | `inode_table`: `i_count`, `i_lock`, `i_dirt`, `i_wait` | `iget`, `iput`, `get_empty_inode`, `read_inode`, `write_inode`, `sync_inodes` | cache, wait queues |
| Memory (`mm/`) | `mem_map`, page tables, swap map | `get_free_page`, copy-on-write, sharing, `swap_in`, `swap_out` | fork, exec, page faults |
| Terminals (`chr_drv/`) | three queues per tty, termios, foreground group | `tty_read`, `tty_write`, `copy_to_cooked`, ioctl | signals, groups, interrupts |
| Disk drivers (`blk_drv/hd.c`, `floppy.c`, `ramdisk.c`) | current command, error counts, motor state | request functions, interrupt handlers | request queue, timers |
| Bit maps, super blocks, names, open files, exec (`fs/`) | zone and inode maps, mounts, `file_table` | `new_block`, `mount`, `namei`, `open`, `execve`, ... | inodes, cache |
| Boot, traps, printing, math emulator, user library | | | |

What is hard, and what makes each part correct:

- *Wait queues.* The queue is not a list anywhere in memory: it is threaded
  through the kernel stacks, only its head is ever woken, and a signal can wake
  anyone. Right: the chain holds exactly the sleepers, no wake-up is lost, and
  the lock loops around it are a lock.
- *Scheduler.* Slices are refilled all at once, sleepers keep half of theirs,
  wake-ups switch nothing. Right: only runnable tasks run, slices stay bounded,
  nobody starves, a timeout ends its sleep.
- *Timers.* A timer function may add timers and turn interrupts on inside
  `do_timer`, which the clock then interrupts. Right: no timer fires early (as
  long as none is taken away from a `do_timer`), all fire.
- *Processes.* Exits, adoptions by init and releases relink a doubly linked
  tree in any order; pids are reused; groups lose their connection to the
  terminal. Right: the tree is whole, pids are unique, nobody is left stopped
  in an orphaned group, no exited child is missed.
- *Signals.* A signal may come at every instruction of the way into and out of
  the kernel; masks are changed by handlers, by `sigsuspend` and by `waitpid`, and
  put back by code in user mode; interrupted calls are made again. Right: every
  level of a program runs with its own mask, calls go on or fail for a reason.
- *Buffer cache.* `getblk` sleeps up to three times while others take, dirty or
  create the buffer it is after. Right: one buffer per block, counts count,
  `bread` returns the last contents, no write is lost.
- *Request queue.* Interrupts empty the queue while tasks fill it and wait for
  room. Right: queue and table agree, writes leave room for reads, every
  request is served.
- *Memory.* Pages are shared by fork and by programs that run twice, copied when
  they are written, loaded and swapped in on demand, and every allocation may
  swap another page out and sleep. Right: each task has a memory of its own, and
  no page or swap slot is lost or used twice.
- *Inodes.* `iget` and `iput` sleep and start again; syncs, mounts, umounts and
  changed disks run in between. Right: an inode is in the table once, its count
  is the number of its users, what was stored in it is not lost.
- *Names, open files, blocks.* Every call changes several tables, can fail after
  each step and sleeps in between. Right: references are given back on every
  path, link counts and bit maps fit the directories, no block has two owners.
- *Drivers.* A chain of interrupt handlers, timers and retries works on one
  request; answers come late or not at all. Right: there is always somebody to
  go on, data go where the request says, a request ends.
- *Terminals and consoles.* The keyboard interrupts the calls it types for; the
  ends of a pty wait for each other; escape sequences move a window over video
  memory. Right: text is read as edited, lines are counted, nobody sleeps with a
  reason to be awake, a console is a screen.
- *Pipes and select.* Two sides sleep on each other, ends are closed meanwhile,
  copies can fault. Right: bytes come out once and in order, nobody sleeps with
  a reason to be awake.

`PROJECT.json` lists every component, also those that are not modelled, and
every hazard with the line where it bites.

## 2. Modules

| Module | Models | Built on |
|---|---|---|
| `WakeLock` | abstract: a lock with waiters that are all told when it becomes free | |
| `SleepOn` | `__sleep_on`, `wake_up` and the lock loops | refines `WakeLock` |
| `SleepOnProofs` | theorems about `SleepOn` | `SleepOn`, TLAPS |
| `Scheduler` | `schedule`, `do_timer`, return from system calls | |
| `SchedulerProofs` | theorems about `Scheduler` | `Scheduler`, TLAPS |
| `ProcessTree` | `fork`, `exit`, `waitpid`, signals, groups, sessions | |
| `ProcessTreeProofs` | theorems about `ProcessTree` | `ProcessTree`, TLAPS |
| `AddressSpaces` | abstract: every task has a memory of its own | |
| `Memory` | `mm/`: page tables, sharing, copying, demand loading, swapping | refines `AddressSpaces` |
| `Signals`, `MCSignals` | masks, handlers, interrupted calls | |
| `SignalsProofs` | theorems about `Signals` | `Signals`, TLAPS |
| `BufferCache`, `MCBufferCache` | the cache, with requests as pairs of buffer and command | |
| `BufferCacheProofs` | theorems about `BufferCache` | `BufferCache`, TLAPS |
| `InodeTable` | `inode_table`, mounts, changed disks | |
| `Namei` | directories, link counts, bit maps: the calls of `namei.c` | |
| `OpenFiles` | descriptors, `file_table`, counts of inodes and pipes | |
| `FileBlocks` | `bmap` and `truncate` | |
| `MCFiles` | one run of the four above | `InodeTable`, `Namei`, `OpenFiles`, `FileBlocks` |
| `FileProofs` | theorems about descriptors and the inode table | `OpenFiles`, `InodeTable`, TLAPS |
| `Pipe` | a pipe with its readers and writers | |
| `Select` | `do_select` on the ends of a pipe | `Pipe` |
| `PipeProofs` | theorems about `Pipe` and `Select` | `Select`, TLAPS |
| `Timer` | `add_timer`, the timer part of `do_timer` | |
| `RequestQueue` | `make_request`, the elevator, `end_request` | |
| `HardDisk` | `hd.c` with its controller | |
| `DriverProofs` | theorems about these three | `Timer`, `RequestQueue`, `HardDisk`, TLAPS |
| `MCDrivers` | one run of `Timer`, `RequestQueue` and `HardDisk` | `Timer`, `RequestQueue`, `HardDisk` |
| `Floppy` | `floppy.c` with its controller and motors | |
| `Screen` | abstract: a screen with cursor, scrolling region and control functions | |
| `Console` | `con_write` and video memory | refines `Screen` |
| `Terminals` | `tty_io.c`, `pty.c`, serial lines | |
| `MCDevices` | one run of `Memory` and the three above | `Memory`, `Floppy`, `Console`, `Terminals` |

Names are those of the source wherever TLA+ allows. Operators called `Mut...`
stand next to the definition they are a wrong version of: each property of each
run has one that breaks it, which shows that the property can fail.

Many modules have a constant `Setups`: records that say what a behaviour is
about (which calls the tasks make, what may fail, how much memory there is),
one of them chosen at the start. It keeps the state space small without leaving
a call out: the union of the set-ups of a run has them all. The combining
modules `MCFiles`, `MCDrivers` and `MCDevices` go one step further: a behaviour
is one of a single part, the others stay as they were initialised.

### SleepOn and WakeLock

`head` is `*p`, `tmp[t]` the local variable of `__sleep_on` on the stack of
`t`. `Sleep` is the call up to `schedule()`; `WakeHead` is a sleeper that finds
somebody else at the head and hands its wake-up on; `Leave` and `Resleep` are a
sleeper that is the head, leaves, wakes the next, and finds the lock free or
taken. `Take` and `Unlock` are `lock_buffer` without waiting and
`unlock_buffer`. `queue` is a history variable: who went to sleep, in order.
`WakeLock` is what callers rely on: one owner, and a waiter gets on when the
lock is free. The other modules use this result: a sleep for a lock is a guard
`~b_lock` there, and queues that are simply woken are sets.

### Scheduler

One action per way into `schedule()`: the clock in user mode (`Tick`), the end
of a system call (`SystemCallReturn`), a sleep, and `pause` of task 0. Time is
kept as the ticks left to each timeout and alarm.

### ProcessTree

A `task_struct` is a record in `proc`, known by its page; `task` is the table.
`waitpid` is one action per pass over the list of children (`Scan`) and a wake-up
in between. `do_exit` is one action, from `TASK_ZOMBIE` on: what it does before
that (closing files) is in `OpenFiles`. `Spec` has a `fork`
that does not sleep. `SwapSpec` has the one under memory pressure:
`get_free_page` sleeps between `find_empty_process` and the use of its result.
Pids are only compared for equality, so of the unused numbers nobody remembers
the least stands for all. Signals have default actions; the terminal's
foreground group is any group there is. Init gets no signals but `SIGCHLD` and
does not exit. An empty entry of `task[]` matches no pid and no group (the code
reads through the NULL pointer).

### Signals

One task, and whoever sends it signals. `regs` are the registers the program will
run with, `frames` what `do_signal` has put on the user's stack (the old mask,
whether it is to be restored, the registers), `mode` where the task is: in the
program, in a call, asleep, or on its way out through `ret_from_sys_call`, where
signals are looked at. A call that was interrupted returns `ERESTARTSYS` or
`ERESTARTNOINTR`, which `do_signal` turns into `EINTR` or into the call again
(`eip` back to `int80`). `sigsuspend` keeps its state in the registers `ebx` and
`ecx` while it is made again. `view` is a history with one entry for the program
and one for each handler: the mask it set, the mask that should be in force now,
its call and the signals that were taken during it. The set-up of a behaviour
says which calls, masks and actions the program uses and which signals are sent.

### AddressSpaces and Memory

`AddressSpaces` says what a program sees: the value it last stored in each page
of its memory; `fork` copies the memory, `exec` replaces it, and a task may be
killed for want of memory. `Memory` has the machine: `mem_map`, page directory
and table entries, the swap map, `last_page` swapping. Each possible sleep (the
read of a page from disk or swap device, `get_free_page` writing one out) is an
action boundary; `k[t]` is what the task remembers across it. A program has one
page table and two pages. Which page `swap_out` takes is left open. The
contents of free pages are forgotten. Kernel writes to user memory (`read`) are
`verify_area`, perhaps a sleep, and a write the processor does not stop.

### BufferCache

`pc` steps from one possible sleep to the next: looking for a hit, waiting for
it, choosing the best buffer, waiting for it, writing it out, claiming it. Of
the contents of a block the model keeps whether they are the latest
(`fresh`, `dfresh`). `CleanMeansSaved`, a part of `NothingLost`, says that
outside of a pending write a buffer that is not dirty agrees with the disk.

### InodeTable

`inode_table` is a function of slots with `i_count`, `i_dirt`, `i_lock`,
`i_mount` and a version number as contents; `sb` is the super block of one
removable disk. `iget` is `IGet` (its reservation of an empty slot, which the
code takes before the search), waiting, `IGetAgain`, `ReadInode`; `iput` goes
round by `IPutAgain`, `IPutSynced` and `IPutWritten` after its sleeps. The set-ups: files and
directories that are created and synced; block devices; unlinking with a fork;
mounting while another task syncs; changing the disk.

`Careful` says in which set-ups the table stays sound, because programs keep an
order which the kernel does not. `InodesSound` and `NothingLost` are about those,
and an `ASSUME` of `MCFiles` checks that the set-ups of the run are among them.
Outside, TLC shows that the code itself fails (section 5): another task looks up a
file that is removed (`InodeFreed.cfg`); the disks are synced while an inode is
freed; two tasks unmount; a path walks into the directory a disk is on while
another task unmounts it. One clause is needed by the proof alone: that nobody
unlinks while there are block devices, whose `iput` syncs all inodes. TLC found no
violation without it on the small instance.

### Namei, OpenFiles, FileBlocks

`Namei` has blocks of directories with four entries, inodes with link counts
and the two bit maps. A path is a name in a directory the task holds. A call
sleeps where it reads a block or copies a name, and fails where it runs out of
blocks, inodes or entries. With `errors` in the set-up every `bread` may fail:
`find_entry` and `add_entry` end at an unreadable first block and skip a later
one, `follow_link` gives both inodes back. A link that is followed keeps the
buffer of its block (`link`) until the path in it has been looked up. `OpenFiles` has `filp`, `f_count`, `f_inode` and
`i_count`, with two descriptors for each task and three files. `sys_open` and
`sys_pipe` are one action that reserves descriptors and files, and one for each
way their sleep can end. A page fault in a path may kill the task there: the file it
had reserved is closed with whatever inode it last had, and `iput` panics if that one
is free (`IPutPanics`, after which nothing happens any more). That is the only way for
`DescriptorsSound` not to have `i_count` exact, and it says so. `FileBlocks`
has one file of one direct block, two blocks in the indirect one and four in the
double indirect one; `truncate` finds buffers busy and starts again.

### Timer, RequestQueue, HardDisk

`list` is the list of timers in order with its differences as stored; what was
asked for is history (`due`). `do_timer` is four steps (`at`: it reads
`next_timer`, counts it down, tests it, takes it off and calls its function) and
each `do_timer` under way remembers the entry it has read (`held`). It enters
with interrupts off, but `hd_times_out` and timer functions turn them on (`sti`),
`add_timer` among them; from there the clock may tick inside it, and a device
interrupt may add a timer, between any two steps. When a `do_timer` uses an entry
that another one has taken, it has gone `astray`: then it fires the next timer
early, or follows a null pointer, which is what `timer_race` shows. `NeverEarly`
and `OnTime` are about all behaviours up to there. `add_timer` forgets to take a
new head's time off the old head, so that timers behind it fire late, and can be
put off for ever while new ones come: `OnTime` is stated for the timers this
cannot touch (`alone`), `AllTimersFire` says that all pending timers fire once
no more are added.

`queue` is `current_request` and its successors, `used` the occupied entries.
`"none"` is the window in `make_request` between finding no entry and going to
sleep, with interrupts on. `ll_rw_page` takes the same way with no buffer.

In `HardDisk`, `outer` is the place that the functions have reached which run
with interrupts on: `do_hd_request` called by the task that makes the first
request (after `sti()` in `ll_rw_blk.c`), and `hd_times_out`, whose `printk`
turns them on. `func` is the handler that runs, perhaps on top of it, `do_hd` the
handler of the next interrupt, `hd_timeout` whether the clock watches. The
controller answers, fails, or stays silent (`disk`); what it was told before the
driver gave up may be answered `late`, between any two steps of `outer`.
`hd_out` waits until the controller is ready and panics if it does not become
so. `Crashes` is what follows when an error is counted of a request that is gone
(through NULL, `LateAnswer.cfg`). A handler is taken to be faster than the
controller with the command it has just been given.

### Floppy

As `HardDisk`, with the motors (`mon_timer`, `moff_timer`), the selection in
`current_DOR`, the track each head is on, and tasks in `floppy_change` that want
another drive selected. `outer` is the function that a task's `do_fd_request` has
come to, or `floppy_interrupt`, which is entered through a trap gate; `call` is
the timer function or second interrupt that runs on top of it, between any two
of its steps except inside the `cli` of `add_timer`. Each byte sent to the
controller may find it not ready (`Sends`): then the reset is asked for again.
The controller is taken not to interrupt astray while the bytes of a command are
sent or its answer waits to be read; and a timer function that runs on top of
another is not modelled.

### Screen and Console

`Screen` is a terminal as its user knows it: cells, a cursor, a scrolling
region, a saved cursor. `Console` has the characters of video memory (`mem`),
the window of each console in it (`origin`, `scr_end`, `pos`), the state of the
escape sequence, and `frames`: the calls of `con_write` under way, of which an
interrupt can add one. `ScreenOf(k)` is the refinement mapping: the window
read row by row. Every character, whatever sequence it belongs to, is one step
of every console's screen or none.

### Terminals

`s` has the three queues of each terminal, `secondary->data`, `stopped`, and
who sleeps on which queue. `Cook` is `copy_to_cooked`, `Output` is `tty->write`
for each kind of terminal; they call each other (echo, pty), so they are
functions of the whole of `s`, and a handler applies them in one step. Tasks
stop at the places where they sleep, between two characters of
`tty_write`, where the keyboard may interrupt, and in `tty_read` where
interrupts are on: between the parts of `GETCH` (`Read` reads the character at the
tail, `Take` moves the tail and counts the line, `Give` stores it in the program,
where a page fault may sleep). `keys`, `got`, `sent` and `out` are
histories.

### Pipe and Select

Bytes carry their number modulo twice the page, which tells all of them apart.
For the tasks in `Faulting` a copy may be put off by a page fault *after* head
or tail have moved; `StreamIntact` holds until that happens and the run shows
that everything else holds afterwards too. `Select` adds tasks on `i_wait` with
a time limit. `free_wait` does not leave a queue before those have left who
came onto it later: `after` has them, `SelectWaits` wakes them, and `FreeWait`
leaves the queue and wakes the others. Readers that a signal wakes leave the
queue at once: among each other they follow `__sleep_on`, which `SleepOn` has.

## 3. Runs

| Run | Instance | Shows |
|---|---|---|
| `sleep_on` | 3 tasks, all mixes of loops, signals | `Chain`, `NoLostWakeup`, `LastInFirstOut`, refinement of `WakeLock` (with its liveness) |
| `scheduler` | 2 tasks and task 0, priorities up to 2, delay 0 | `SliceBounded`, `OnlyRunnableRuns`, `NoStarvation`, `TimeoutEndsSleep` |
| `process_tree` | 5 slots: task 0, init, 3 more; 2 job-control calls | `TreeOK`, `UniquePids`, `OrphanedJobsGoOn`, `WaitReturns` |
| `cache` | 2 tasks, 2 buffers, 3 blocks | `References`, `NothingLost`, `BreadReturnsContents`, `HeldBufferKeepsBlock` |
| `signals` | one program, 7 signals, handlers nested twice, 4 set-ups | `MaskKept`, `CallsGoOn`, `KillEnds` |
| `files` | names: 2 tasks, 5 inodes and 5 blocks; descriptors: 2 each, 3 files; 6 blocks; inodes: 3 tasks, 3 inodes, one disk | `NamesSound`; `DescriptorsSound`; `BlocksSound`; `InodesSound`, `NothingLost` |
| `select` | 2 readers (one selects), 1 writer, page of 3 bytes | `StreamIntact`, `NobodyWaitsForEachOther`, `ReadersAndWritersWake`, `SelectorsReturn` |
| `drivers` | 3 timers, `do_timer` in `do_timer`; 2 tasks, 3 entries; 1 drive, requests of 2 sectors, 3 errors, late answers | `TimersOnTime`, `AllTimersFire`; `Elevator`, `RequestsServed`; `SomeoneGoesOn`, `EndsRightly`, `EveryRequestEnds` |
| `devices` | 2 consoles of 3 lines; queues of 3 characters; 2 floppy drives; 2 tasks, 2 programs, 7 pages (or 4, or 2), 2 swap slots (or none) | `ImplementsScreen`; `TerminalsSound`; `FloppySound`; `PagesAccounted`, refinement of `AddressSpaces` (`OwnMemory`) |
| `memory_panic` | violation | `NoPanic`: a page is freed twice |
| `timer_race` | violation | `TakesTheHead`: `do_timer` takes a timer off that has not expired |
| `raw_restart` | violation | `NoRawRestart`: a program sees `ERESTARTNOINTR` |

Bounds, and why they are enough to be interesting:

- *Three tasks on a queue* give a head, a middle and an end, so that every
  hand-over (from a task woken out of turn to the head, from the head to the
  next) happens with somebody left behind. The proofs need no bound.
- *Two buffers, three blocks, two tasks*: every claim evicts, two tasks compete
  for one buffer and one block, and a task can find its victim taken, dirty,
  locked, or its block brought in by the other. Deadlock is not checked in
  `cache`: two `breada` calls can take all buffers and wait for each other, as
  they can in the code with too few buffers.
- *Two pages and a table for each task, seven frames*: nothing is short; four
  frames: every allocation swaps; two frames and no swap device: tasks are
  killed. Deadlock is not checked because all tasks may have been killed.
- *Three inodes*: a directory, a file and a device or mount point, with three
  slots, so that `get_empty_inode` reuses slots at once.
- *Four entries to a directory block, five blocks and inodes*: directories grow
  into a second block (into a third when the second cannot be read), and both
resources run out. Creations that extend a
  directory are made by one task at a time (see section 5).
- *Three request entries* leave two for writes. An instance with three blocks
  for both tasks gives the same result and takes longer. `RequestsServed`
  includes that a wait for an entry ends, for the wake-ups that come.
- *Three errors before a request is given up* (seven in the source), so that
  resets and recalibrations happen in between; a partition of two blocks has a
  last one, whose second sector `do_hd_request` refuses to retry. The run
  has one drive, the theorems any number up to two. No request comes to an empty
  queue while the driver still resets or recalibrates (`busy`, section 5).
- *Handlers nested twice* (`MaxDepth`): a handler interrupts a handler that
  interrupted a call, so that a mask is put back onto one that was itself pushed.
  The proofs need no bound. Deadlock is not checked: a task may wait for a signal
  that nobody sends.
- *A page of three bytes* is the smallest ring in which a piece can end at the
  end of the page with bytes before and after it. *Queues of three characters*
  for terminals let every queue fill up, and a writer sleep.
- *Three lines of two columns with one line to spare* make the window of a
  console slide once and be copied back; two consoles lie next to each other.
- *Five slots* give a task with two children that exits next to other children
  of init. Calls of `kill`, `setpgid` and `setsid` are limited to `MaxJobs`, and
  once one is made there are at most `JobTasks` tasks: a shell and one job,
  which is what an orphaned group takes. Deadlock is not checked since a task
  whose stop nobody undoes may be the only one left besides a waiting init.
- *Timers* with delays 0, 1 and 3 give equal times, insertion at the front, in
  the middle and at the end.
- The largest pid, nested interrupts, lateness and priorities have the named
  bounds `MaxPid`, `MaxNested`, `MaxLate`, `MaxPriority`; parameters of an escape
  sequence `MaxPar`; what is typed `most`.

Fairness:

- *Tasks that can run do run* (weak fairness of the steps of a task in the
  kernel). The scheduler run shows this of the scheduler itself (`NoStarvation`),
  given that the clock ticks.
- *The clock ticks* (strong fairness of `Tick`, `IdleTick`): a tick is only
  possible in user mode or in task 0 and a task may enter the kernel again
  before it comes, but the clock does not wait for a convenient time for ever.
- *The disk answers or times out* (weak fairness of `EndRequest`, and in
  `HardDisk` of the handlers and of the clock that watches the controller). In
  `Timer` the clock ticks and `do_timer` goes on. Each of these is about the part
  of a combined run that the behaviour is about, and is void in the others.
- *A task that is woken runs, and leaves the kernel* (`KernelStep` and
  `ScheduleWakes` in `Signals`); the clock interrupts a program that computes
  (`Interrupt`), so that it comes by `do_signal`.
- *Holders of a lock release it*; *jiffies pass every timeout*.
- Nothing is assumed of programs: no task must read, write, exit or wait.

## 4. Proofs

TLAPS proves, for every value of the constants:

`SleepOnProofs` (any set of tasks). The inductive invariant is

    Inv == TypeOK /\ Chain /\ LockOwner /\ AwakeIsRunning /\ NoLostWakeup

`Chain` relates `head`, every `tmp` and the history `queue`: the head is the
last of the queue, each `tmp` points to the one before, and the queue has every
sleeper once. It is needed for everything else: that the task which leaves is
the head (`YoungestLeavesFirst`), that the task it wakes is asleep, that the
warning `*P = NULL` is never printed (`WarningNeverPrinted`).
`NoLostWakeup` is inductive only together with `Chain` (a task that leaves a
free lock wakes the new head) and `AwakeIsRunning`. From `Inv`:
`ChainHolds`, `WakeupsReachTheHead`, `LocksAreExclusive`,
`WarningNeverPrinted`, `YoungestLeavesFirst`, and `LockRefinement`: every step
is a step of `WakeLock` or a stutter. The only assumption is that NULL is not a
task.

`SchedulerProofs` (any set of tasks, any bound on priorities, any delays):

    Inv == TypeOK /\ SliceBounded /\ OnlyRunnableRuns /\ UserHasTicks

`RefillBound` is the arithmetic: `c/2 + p` is at most `2 * MaxPriority` if `c`
is. `ScheduleKeeps` states what `schedule()` does from wherever it is called,
and is used for each of its callers. `UserHasTicks` says that a task in user
mode has ticks left; without it `do_timer`'s `--counter` could not be bounded
from below. From `Inv`: `SlicesStayBounded`, `RunningMeansRunnable`,
`UserModeHasTicks`.

`BufferCacheProofs` (any tasks, buffers and blocks). Two invariants:

    RInv == Types /\ (\A t \in Task : Local(t)) /\ OnlyOneOfItsKind
            /\ CountsReferences /\ Locks /\ Blocks /\ Ops
    DInv == RInv /\ (Faultless => Data)

`RInv` gives `ReferencesHold` and the action property `HeldBuffersStay`. Its parts
need each other: that a held buffer keeps its block needs its count, the count
needs to know what each task holds where it is (`Local`), and that a buffer is
written by one request only needs the owner of its lock (`Locks`). `b_count` is
the cardinality of a set of references; the lemmas on counting say how it changes
when one task's reference does. `DInv` gives `ContentsNotLost` and
`BreadIsRight`, under the hypothesis `WritesApart`: no behaviour has both
`block_write` of whole blocks and reads. It is necessary (`CacheBlockWrite.cfg`),
and the set-ups of the run keep to it. As in the run, the two say nothing once the
disk has failed.

`PipeProofs` (any page size and counts, any readers, writers and selecting tasks):

    Inv == STypeOK /\ Sleepers /\ ValidData /\ StreamIntact /\ NobodyWaitsForEachOther

`ValidData` says which byte is at which place of the ring between tail and head;
without it nothing follows about what a reader gets. `Sleepers` says in which
loops those on the two queues are. From it `RingIsRight`, `StreamIsIntact` and
`OneSideWaits`. The arithmetic of the ring (remainders less than a turn off,
pieces that end at the end of the page) is in lemmas of its own.

`DriverProofs`, the queue (any number of entries and blocks, any tasks, with paging
or without):

    QueueInv == QueueTypes /\ EntriesAreQueued /\ QueuedIsLocked /\ Callers /\ Pagers
                /\ WritesBelow /\ Sweeps

`Elevator` says of a queue without paging requests that it turns around at most
once. That is not inductive: `add_request` puts paging requests in front of the
block requests that wait, and when they have been served what is left must still
be in order. `Sweeps` therefore speaks of every run of block requests that
reaches the end of the queue. `Callers` says that
tasks on their way to an entry have their own buffer locked, so that no buffer is
queued twice. From it `ElevatorWorks`.

The hard disk (any number of requests, any `MAX_ERRORS`, any partition, one or
two drives, any of the commands failing or unanswered):

    DriverInv == DriverTypes /\ SameSector /\ Interrupted /\ SomeoneGoesOn /\ EndsRightly

`DriverTypes` contains what a request half done looks like (`RequestOK`). `SameSector`
says that the controller is at the sector the request goes on with when
`read_intr` or `write_intr` takes or gives the next one, also after a retry.
`Interrupted` says how far a late answer can go while the task that makes a
request, or `hd_times_out`, has not come to its command yet: the handlers end, or
get to the first `SPECIFY` after a reset. The hypothesis `Settled` leaves out what the run leaves
out: a request that comes to an empty queue before a reset is over (`busy`). From it `DriverGoesOn`, `RequestsEndRightly`.

The timers (any number of entries, any delays, `do_timer` inside itself to any
depth):

    Lasts(l)  == each difference behind the head is at least 0, the sum of the
                 differences up to a timer is at least what is left of its time, and
                 a timer that is alone is the head with its jiffies exact
    TimersInv == Lasts(list) /\ nested, sti, at, astray in their ranges
                 /\ list # <<>> => /\ head >= -nested
                                   /\ the innermost do_timer is to count => head >= 1 - nested
                                   /\ nested = 0 => head > 0

What the list promises is about sums, and the sum over a list is a recursive
function. Its value for every list would take an induction; what the steps need
does not: two functions with the defining equation agree, and there is one
(`SumsAgree`, `SumsExist`), two lists with equal stretches grow alike over them
(`GrowAlike`). Each is shown from the least place where it would fail, since
numbers have least elements (`LeastOf`). `TimerGoesIn` says where `add_timer` puts the
new timer: where the rest of its time is still positive, so that its sum is exactly
the time asked for and no other sum goes down. The second part of `TimersInv` is about
`do_timer` inside `do_timer`: the head is as far below zero as there are calls that
have counted it down and not taken it off yet, and each fires all that has expired
before it returns. All this is about behaviours in which none has gone `astray`. From it
`TimersFireOnTime`.

`SignalsProofs` (any set-ups within the rules `Careful`, handlers to any depth):

    Inv == Types /\ States /\ Actions /\ Masks /\ Stack /\ Calls /\ SuspendOK
           /\ InForce /\ Interrupts

`InForce` is `MaskKept` at every place and not only in user mode (in `waitpid`,
`SIGCHLD` is let through; in the first half of `sigsuspend`, the old mask is
still in force). `Stack` says that each frame holds what the level below has to
get back, its interrupted call included. `Interrupts` says that the signal for
which a call gave up is still pending when `do_signal` looks: `send_sig` of
`SIGCONT` takes stop signals back and the reverse, and `sigaction` takes ignored
ones back. It is this part that fails for programs outside the rules: `Careful`
asks that masks given to `sigaction` and `sigsuspend` leave out `SIGKILL` and
`SIGSTOP` (the kernel does not take them out there), and that a program which can
be stopped and continued blocks both kinds of signals together where it waits and
does not ignore `SIGCONT`. `RawRestart.cfg` and `KillBlocked.cfg` show what
happens otherwise; `MCSignals` has an `ASSUME` that its set-ups keep to the rules.
From `Inv`: `MasksAreKept`, `CallsAreResumed`.

`FileProofs`, the descriptors (any tasks, descriptors, files and inodes, any calls):

    FilesInv == FilesTypeOK /\ (\A t \in Proc : TaskOK(t)) /\ DescriptorsSound

`DescriptorsSound` counts references: `f_count` is the number of descriptors that
stand for a file, `i_count` the number of files, directories and calls that use an
inode. A task that sleeps in `open` or `pipe` has files in descriptors that have no
inode yet. `Reserved`, a part of `TaskOK`, says that such a file is in the one
descriptor of the task that opens it, that `exec` does not close it, and that no other
descriptor stands for it: otherwise the call would, when it goes on, give an inode to a
file somebody closed. `fork` cannot spread such a file, since a task forks only while
it is not in `open`. The counts are cardinalities; `Takes` and the lemmas on
counting say how they change when one descriptor, one file or one task's inode does,
and `ForkKeeps` counts all descriptors of a father again for his child. From it
`FilesInvariant` and `FilesSafety`.

The inode table (any tasks, slots and inodes, any set-ups):

    TableInv == Careful(setup) =>
        TableTypeOK /\ ~panicked /\ SuperOK /\ Apart /\ LockedBy
        /\ (\A t \in Task : CallOK(t)) /\ (\A s \in Slot : SlotOK(s))
        /\ (\A i \in Inode : InodeOK(i)) /\ OneSlot

`CallOK` says for every place where a task sleeps in `iget`, `iput`, `sync_inodes`,
`mount`, `umount` or `invalidate_inodes` what it still has when it goes on: its
reference, and when it reads, writes or frees the inode the lock (which `LockedBy` and
`Apart` make its own) and the only reference (`Sole`). `SlotOK` is exact counting,
that a slot nobody uses is clean and unlocked, and that an inode that is not being
read has what was last stored in it; `InodeOK` is the same for an inode that is not in
memory, which `iget` relies on when it reads it. That an inode is in memory once
(`OneSlot`) needs all of these: `iget` sleeps for an inode that it finds locked, then
searches again, and reads into its reserved slot only if nobody has brought the inode in
meanwhile; between its search and the locking of the slot nobody gets in, since
`get_empty_inode` meets no slot it must wait for (the last part of `NothingLost`).
Every action is one of a few kinds (it changes one slot: `Touch`; gives up a reference:
`Puts`; goes on with the synchronisation: `Syncs`), and one lemma for each kind says
what it leaves to the other tasks. From `TableInv`: `TableInvariant`, `InodesSafety`,
`StoredNotLost`.

`ProcessTreeProofs` (any number of slots and pages of `task_struct`s, any largest
pid):

    Inv == TypeOK /\ ~panic /\ TableOK /\ InitOK(proc) /\ NoForks /\ Zombies
           /\ UniquePids /\ Tree

That the lists of children are whole is not inductive: the links around a task say
nothing about the others on its list. `Tree` therefore numbers the tasks. Each has a
`rank` that is higher than those of its older siblings; `p_osptr` is the highest
sibling below, `p_ysptr` the lowest above, `p_cptr` the highest child. A second
number, `depth`, grows from parent to child, so that every task descends from init:
init has children while anybody else is there to exit, which `do_exit` needs
(it links the orphans to init's youngest child). `fork` gives the new task the
highest rank; `exit` raises the ranks of the children above all others, since
their list goes in front of init's; `release` leaves the ranks alone (`ForkKeeps`,
`ExitTree`, `ReapTree`). `Zombies` says that who has exited has no children: the
task that `waitpid` frees is nobody's parent. `ChildrenAre` shows that a walk from
`p_cptr` along `p_osptr` meets every child, in the order of ranks: if it missed one
it would never end, and there are only so many tasks. All other changes to
`task_struct`s, the signals on the way through `do_exit` included, are shown to keep
links, pids and tables (`Moved`). From `Inv`: `TreeIsWhole`, `PidsAreUnique`.

`OrphansAreTold` (the action property `OrphanedJobsGoOn`) follows the tables that
`do_exit` goes through one after the other (`ExitGoes`). A group is not orphaned as
long as it has a `Keeper`, a member whose parent is in another group of the same
session. If children of the exiting task were keepers, adopting the last of them
leaves the group orphaned, and the test in `do_exit` right after the adoption sees
it (`Hangup`). If only the exiting task itself was, the group is tested before any
child is moved. From then on nobody in it stops (`Calm`: the later signals of the same
exit stop nobody), so the group ends with nobody stopped (`OrphansGoOn`). All other
steps let nobody exit (`NobodyExits`).

The three are theorems of `Spec`, where `fork` does not sleep; under `SwapSpec` two
forks may choose the same slot and pid (`ForkRace.cfg`, section 5).

The invariants were checked with TLC on the instances of the runs before they
were proved. Assumptions on constants are named `...Assumption` in the modules
that declare them; they say that counts are numbers of the size the code has and
that NULL is none of the tasks, buffers or blocks.

Only model-checked:

- all liveness properties and the fairness part of `ImplementsWakeLock`: the
  provers do not do `ENABLED` and fairness;
- the refinements of `AddressSpaces` and `Screen`, the invariants of `Console` and
  `Terminals`, which compute with recursive operators the provers do not read,
  and those of `Floppy`, where the proofs on lost data and on counts went first;
- `PagesAccounted`: that a page is used as often as `mem_map` says is a count over the
  tables of all tasks, like the counts of `FileProofs` but changed by two tasks at once
  (`fork`, `try_to_share`) and through entries read before a sleep; not proved so far;
- `NamesSound` and `BlocksSound`: the names of a path and the blocks under an indirect
  block are data of arbitrary depth; what links and trees of blocks are for all of them
  needs induction over data.

## 5. What the models showed

Checked by a run that expects the violation:

- `memory_panic` (`NoPanic`): `free_page_tables` or `swap_in` can free a page
  that is free, and `free_page` panics (`mm/memory.c:282` and the stale entries
  re-read around it).
- `timer_race` (`TakesTheHead`): `do_timer` tests `next_timer` and then takes it off
  with interrupts on; a second `do_timer` in between fires the tested timer, and the
  first one takes the next one before its time or follows NULL (`sched.c:410-415`).
- `raw_restart` (`NoRawRestart`): a program that ignores `SIGCONT` is stopped in
  `sigsuspend` and continued; `send_sig` takes the stop signal back, `do_signal` has
  nothing to do, and the program gets `ERESTARTNOINTR`, which "should never be
  seen by user programs".

Reproducible with a configuration that is beside these and no listed run:

| Configuration, module | Property | What happens |
|---|---|---|
| `CacheBlockWrite.cfg`, `MCBufferCache` | `BreadReturnsContents` | `block_write` of a whole block gets the buffer without reading it and copies from user space, which may sleep, before the buffer is complete; a reader sees the half (`fs/block_dev.c:46-63`) |
| `RequestLost.cfg`, `MCDrivers` | `NoSleepWhenFree` | the last request ends between "no entry free" and `sleep_on(&wait_for_request)`; the task sleeps although entries are free (`ll_rw_blk.c:154-161`) |
| `ForkRace.cfg`, `ProcessTree` | `AuditPtree` | two forks that sleep in `get_free_page` choose the same slot and pid (`fork.c:94-100,170-184`) |
| `FloppyLate.cfg`, `MCDevices` | `UsesCurrent` | `reset_interrupt` or a handler uses `CURRENT` after a late interrupt (`floppy.c:481`) |
| `ConsoleNested.cfg`, `MCDevices` | `NothingStale` | the keyboard interrupt echoes through `con_write` while `con_write` runs for a task; the outer call goes on with the count of characters it took before |
| `KillBlocked.cfg`, `MCSignals` | `KillEnds` | the `sa_mask` of a handler has `SIGKILL`, which `sigaction` does not take out: the task is not killed while the handler runs (`signal.c:132-135`) |
| `LateAnswer.cfg`, `MCDrivers` | `TimesOutHasRequest` | the answer comes while `hd_times_out` prints its message, with interrupts on, and ends the only request; `hd_times_out` counts an error of no request (`hd.c:343-346`) |
| `SelectStuck.cfg`, `Select` | `SignalEndsSelect` | a reader of an empty pipe has come onto the queue after a task in `select`: `free_wait` wakes it until it leaves, it finds nothing and comes back, and so on for ever; a signal does not end the `select` (`select.c:75`, "should be free of race-conditions", line 27) |
| `LinkFreed.cfg`, `MCFiles` | `NoWaitForItself` | a link is unlinked while another task follows it: `follow_link` puts the last reference with the buffer of the link's block held, and `truncate` waits for that buffer, its own, for ever (`namei.c:274`, `bitmap.c:83`) |
| `EraseRead.cfg`, `MCDevices` | `TextAsEdited` | a line longer than the queue is being typed: the keyboard erases the character that `GETCH` has read before the tail moves on (`tty_io.c:311`); the empty queue becomes a full one |
| `InodeFreed.cfg`, `MCFiles` | `NoPanic` | a task waits in `iget` for an inode that is being removed; `free_inode` finds a count above one (`bitmap.c:154`) |
| `WriterForgotten.cfg`, `MCDevices` | `WritersWoken` | a writer asleep on a stopped console is not woken when output goes on (`tty_io.c`) |

Met while modelling. The models do what the code does, or leave out the case
named here:

*Cache, select, signals.* `breada` waits for a second buffer while it keeps one,
and returns to its first buffer by a variable it has overwritten; `b_next` of a
removed buffer is followed; woken waiters of `buffer_wait` may find nothing;
`file_write` marks a buffer dirty after its count is given back. `do_select`
does not return at its timeout when it put itself on a queue; a select for
writing waits on a queue readers do not wake. A new first timer delays those
behind it. `SIGKILL` and `SIGCONT` clear the exit code of a task that has exited;
`kill(0)` and `waitpid` treat `SIGCHLD` of other children as theirs. A failed
paging request is not reported (`blk.h:130-133`).

*Signals.* A `SIGCHLD` with the default action, which is to do nothing, makes a
read fail with `EINTR` (`signal.c:172-173,186-188`). `sigaction` with a NULL action
reads one from address 0. A task that waits interruptibly with a pending `SIGKILL`
that is blocked goes round its loop without sleeping. `sigsuspend` blocks what it is
told, `SIGKILL` included (`signal.c:68`).

*Memory.* `execve` replaces `current->executable` before it frees the old pages
and may sleep in between, so another task may share the old program's pages
(`exec.c:392-404`). The copy made by `un_wp_page` is not marked dirty
(`memory.c:287`) and can be dropped by `swap_out`. A write by the kernel to an
absent page of a shared program goes to the shared page (`memory.c:339`, against
the comment at `fork.c:23-27`). `verify_area` checks before a sleep what is used
after it. `try_to_share` reads an entry again after `get_free_page`
(`memory.c:401-417`).

*Inodes.* An `iget` that waits for a mounted root while it is unmounted panics
(`super.c:212-214`, `inode.c:343`); of two `umount` of one device the second
`iput`s a free inode (`super.c:216`). `free_inode` clears a slot that
`sync_inodes` holds locked (`inode.c:209-211`, `bitmap.c:168`), and
`get_empty_inode` clears a wait queue somebody may be on (`inode.c:253`). An inode
of a removed disk that is made dirty later is never written, and
`get_empty_inode` loops for ever (`inode.c:251`).

*Files.* Two creations that extend a directory at the same time both add its new
block (`inode.c:96-97`, `namei.c:216`): one name and one block are lost; so do two
writers at the end of a file, and a writer during `truncate`. A name whose inode
is free leads to a NULL inode (`namei.c:396-401`). `rmdir` checks emptiness and
then sleeps (`namei.c:734-752`); two `unlink` of one name count twice.
`mkdir` whose `bread` fails loses its block because the mode is not set yet
(`namei.c:607-612`, `truncate.c:80`). `empty_dir` keeps a buffer
(`namei.c:658-661`). `add_entry` copies the name after it chose the entry and may
sleep (`namei.c:180-182,234`). A task killed by a fault in the path of `open`
closes a file without an inode, or with the one an earlier user of the file left in
`f_inode`: that one's count goes down once too often, or `iput` panics. Two appending writers
overwrite each other, as the comment at `file_dev.c:65-68` admits.

*Drivers.* After an error on the second sector of a partition's last block
`do_hd_request` finds the rest of the request beyond the end and gives it up
(`hd.c:367-370`). A request that comes to an empty queue while the driver still resets
or recalibrates is started by its task, with interrupts on, and by the handler of that
answer as well (`ll_rw_blk.c:94-96`), and so is a write that the controller refuses at
once: sectors are moved twice, or by a command given in the middle of another. The
models leave both out (`busy`, `WriteRefused`). Handlers use `CURRENT`
after `end_request` may have emptied the queue (`hd.c:268-269,290`,
`floppy.c:274`). The floppy resets and recalibrates without end while
recalibration fails; a refused request leaves the new `current_drive` with the
old `current_track`; `floppy_change` can miss a wake-up (`floppy.c:159-165`);
`ticks_to_floppy_on` turns interrupts on inside `floppy_on`'s `cli`
(`sched.c:282,289`); there is no time-out for a lost interrupt.

*Terminals.* The writer of a stopped console is not woken by `^Q` or `TCOON`, in
spite of the header of `tty_io.c` (lines 8-9). The echo adds to the write queue without a check, and a
queue one character overfull is an empty one; so do two writers, since
`get_fs_byte` comes between check and `PUTCH`, and the keyboard races
`tty_write`'s `PUTCH` (`tty_io.c:372`). `cr_flag` is one variable for all terminals
(`tty_io.c:341`). `IXON` is set in `c_lflag` and tested in `c_iflag`
(`tty_io.c:46,428`), so `^S` is off at first. A line as long as the queue is
not delivered before more comes (`tty_io.c:131,297`). A reader that empties its
queue does not move what waits in `read_q`. The hang-up of a pty does not
wake the slave's reader, and `tty_read` leaves with interrupts off
(`tty_io.c:304-305`). Echo on both ends of a pty recurses. A change to raw mode
does not wake the reader, and a flush does not wake the writer of a pty.
`rs_write` ignores `stopped`. A pty's writer goes on only at the reader's next
call.

Simplifications of the models that bear on these: in `Console` the behaviour ends
its account of a console once the nested call has happened (`TakeStale`).
`Terminals` treats `copy_to_cooked` and `con_write` as one step each (`Console`
has the nesting), wait queues as sets, and ties `ISIG` to canonical mode.
`InodeTable` counts a read of an inode as one wait; its look-ups during
`unlink` and `umount` are private to one task, except in `InodeFreed.cfg`.
`Memory` runs one page table for each task and takes paging requests in order.

## 6. Not modelled, and why

- *User and group ids, resource limits, times, host names* (`sys.c`): single
  assignments and comparisons with no second actor. Groups and sessions are in
  `ProcessTree`.
- *`execve`'s argument pages and `#!` lines*: string copies; the exchange of
  memory is in `Memory`.
- *Kernel `malloc`*: a bucket is changed with interrupts off except around
  `get_free_page`; not reached.
- *`mktime`, `vsprintf`, `printk`*: pure conversions.
- *Math emulator*: arithmetic on 80-bit numbers, beyond what TLC enumerates.
- *Boot, set-up, traps' assembly entries, user library, build tool*: run once with
  nothing concurrent, or outside the kernel.
- *Ram disk*: copies at once; as far as the queue goes it is a `RequestQueue`
  whose answers come at once.
