------------------------------- MODULE Memory -------------------------------
(***************************************************************************)
(* Paged memory (mm/memory.c, mm/swap.c, mm/page.s; copy_mem and           *)
(* verify_area of kernel/fork.c, the memory part of do_execve in           *)
(* fs/exec.c): page tables, the use counts mem_map, copy-on-write, pages   *)
(* shared between tasks that run the same executable, demand loading and   *)
(* swapping.                                                               *)
(*                                                                         *)
(* The kernel runs until it sleeps: cpu is the task inside it, and user    *)
(* programs and other tasks take steps while it is NoTask.  A task sleeps  *)
(* while a page is read or written (bread_page, read_swap_page,            *)
(* write_swap_page); paging requests are served in the order they are made *)
(* (add_request, module RequestQueue), so that a page written to swap can  *)
(* be read back from the moment its request is queued.                     *)
(*                                                                         *)
(* An address space is a page of the executable and a stack page, with one *)
(* page table.  Where swap_out last stopped is left open.                  *)
(***************************************************************************)
EXTENDS Naturals, FiniteSets, TLC

CONSTANTS Task, NoTask,
          Prog, NoProg,   \* the executables, and the NULL inode
          NFrames,        \* pages of physical memory
          Zero, Args,     \* contents: a cleared page, the arguments of exec
          NSlots,         \* pages on the swap device
          Setups          \* what the system is asked to do, see setup

ASSUME MemoryAssumption ==
    /\ NoTask \notin Task /\ NoProg \notin Prog
    /\ NSlots \in Nat /\ NFrames \in Nat
    /\ IsFiniteSet(Task)

VPage == {"data", "stack"}
Frame == 1..NFrames
NoFrame == 0
Slot == 1..NSlots
USED == 100

VARIABLES setup,       \* a member of Setups, chosen at the start:
                       \*   start, table: the executable and page table of each task;
                       \*   frames, slots: the pages of main memory and on the swap device;
                       \*   write, fork, kernel: the tasks that do this; exec: with the program
                       \*   present, sleeps, preempt, closes: see the actions that use them
          pg_dir,      \* pg_dir[t]: the page that is the page table of the task
          pte,         \* pte[t][v]: its entry for the page
          mem_map,     \* how often each page is in use
          page,        \* the contents of each page
          swap_bitmap, \* the free pages of the swap device
          swap,        \* the contents of its pages
          executable,  \* the executable each task runs
          k,           \* k[t]: where in the kernel a task is, and its local variables
          cpu,         \* the task that runs in the kernel, NoTask for none
          panicked

tables == <<pg_dir, pte>>
swapping == <<swap_bitmap, swap>>
memory == <<mem_map, page, panicked>>
vars == <<setup, tables, memory, swapping, executable, k, cpu>>

(* The contents of a memory just after exec. *)
Image(p) == [v \in VPage |-> IF v = "data" THEN p ELSE Args]

Absent == [at |-> "nowhere"]
InMemory(f, rw, dirty) == [at |-> "memory", frame |-> f, rw |-> rw, dirty |-> dirty]
InSwap(s) == [at |-> "swap", slot |-> s]

Present(t, v) == pte[t][v].at = "memory"

(* The local variables: back is where a page fault returns to, held a page *)
(* in hand, out a page that is being written to swap.                      *)
User == [pc |-> "user", back |-> "user", v |-> "data", held |-> NoFrame, out |-> NoFrame,
         old |-> NoFrame, who |-> NoTask, todo |-> {}, prog |-> NoProg]

Go(t, fields) == k' = [k EXCEPT ![t] = fields @@ @] /\ cpu' = t
Sleep(t, fields) == k' = [k EXCEPT ![t] = fields @@ @] /\ cpu' = NoTask

Runs(t) == cpu = t /\ ~panicked
Idle == cpu = NoTask /\ ~panicked

At(t, pc) == Runs(t) /\ k[t].pc = pc
Woken(t, pc) == Idle /\ k[t].pc = pc /\ k[t].out = NoFrame

(* The end of a page fault or call, in the program or in what it hit. *)
Return(t, back, v) ==
    /\ k' = [k EXCEPT ![t] = [User EXCEPT !.pc = back, !.v = IF back = "user" THEN "data" ELSE v]]
    /\ cpu' = IF back = "user" THEN NoTask ELSE t

Finish(t) == Return(t, k[t].back, k[t].v)

InUser(t) == Idle /\ k[t].pc = "user" /\ executable[t] # NoProg

(* mem_init: pages that are not main memory are marked USED. *)
Init ==
    /\ setup \in Setups
    /\ executable = setup.start
    /\ pg_dir = setup.table
    /\ pte = [t \in Task |-> [v \in VPage |-> Absent]]
    /\ mem_map = [f \in Frame |-> CASE f > setup.frames -> USED
                                    [] f <= setup.frames /\ \E t \in Task : f = pg_dir[t] -> 1
                                    [] OTHER -> 0]
    /\ page = [f \in Frame |-> Zero]
    /\ swap_bitmap = 1..setup.slots
    /\ swap = [s \in Slot |-> Zero]
    /\ k = [t \in Task |-> User]
    /\ cpu = NoTask
    /\ panicked = FALSE

-----------------------------------------------------------------------------
(* get_free_page and swap_out *)

FreeFrames == {f \in Frame : mem_map[f] = 0}

(* The page get_free_page takes, the last one that is free. *)
GetFreePage == CHOOSE f \in FreeFrames : \A g \in FreeFrames : g <= f

(* A step of t that begins with get_free_page at pc. *)
GotPage(t, pc) == At(t, pc) /\ FreeFrames # {}

Use(f) == mem_map' = [mem_map EXCEPT ![f] = 1]

(* mem_map after n[f] calls of free_page for each page f.                   *)
Freed(n) == [f \in Frame |-> IF n[f] > mem_map[f] THEN 0 ELSE mem_map[f] - n[f]]

(* The contents of a free page are forgotten here, before get_free_page    *)
(* clears it.                                                              *)
FreePages(n) ==
    /\ mem_map' = Freed(n)
    /\ page' = [f \in Frame |-> IF Freed(n)[f] = 0 THEN Zero ELSE page[f]]
    /\ panicked' = (\E f \in Frame : n[f] > mem_map[f])

FreePage(g) == FreePages([f \in Frame |-> IF f = g THEN 1 ELSE 0])

Getting == {"unwp", "share_table", "load", "anonymous", "put_table", "swap_in",
            "copy_table", "copy_swap", "exec_args"}

NoFreePage(t) == Runs(t) /\ k[t].pc \in Getting /\ FreeFrames = {}

(* The pages try_to_swap_out just drops. *)
Clean(e) == ~e.dirty

(* The pages it writes to the swap device: those with one user. *)
Writable(e) == e.dirty /\ mem_map[e.frame] = 1 /\ swap_bitmap # {}

Victims == {tv \in Task \X VPage : /\ Present(tv[1], tv[2])
                                   /\ \/ Clean(pte[tv[1]][tv[2]])
                                      \/ Writable(pte[tv[1]][tv[2]])}

DropPage(t) ==
    /\ NoFreePage(t)
    /\ \E tv \in Victims :
          LET e == pte[tv[1]][tv[2]] IN
          /\ Clean(e)
          /\ pte' = [pte EXCEPT ![tv[1]][tv[2]] = Absent]
          /\ FreePage(e.frame)
    /\ UNCHANGED <<setup, pg_dir, swapping, executable, k, cpu>>

MutSwapEntry(s) == Absent

(* The entry of a page that has gone to the swap device. *)
SwapEntry(s) == InSwap(s)

WritePage(t) ==
    /\ NoFreePage(t)
    /\ \E tv \in Victims, s \in swap_bitmap :
          LET e == pte[tv[1]][tv[2]] IN
          /\ ~Clean(e)
          /\ \A r \in swap_bitmap : s <= r
          /\ swap_bitmap' = swap_bitmap \ {s}
          /\ swap' = [swap EXCEPT ![s] = page[e.frame]]
          /\ pte' = [pte EXCEPT ![tv[1]][tv[2]] = SwapEntry(s)]
          /\ Sleep(t, [out |-> e.frame])
    /\ UNCHANGED <<setup, pg_dir, memory, executable>>

Written(t) ==
    /\ Idle /\ k[t].out # NoFrame
    /\ FreePage(k[t].out)
    /\ Go(t, [out |-> NoFrame])
    /\ UNCHANGED <<setup, tables, swapping, executable>>

OutOfMemory(t, pcs) == NoFreePage(t) /\ k[t].pc \in pcs /\ Victims = {}

-----------------------------------------------------------------------------
(* free_page_tables of all of the address space of t; extra is one more    *)
(* page given back.                                                        *)
InTables(t, extra) ==
    [f \in Frame |-> Cardinality({v \in VPage : Present(t, v) /\ pte[t][v].frame = f})
                        + (IF f = pg_dir[t] THEN 1 ELSE 0) + (IF f = extra THEN 1 ELSE 0)]

FreeSlots(t) ==
    LET freed == {s \in Slot : \E v \in VPage : pte[t][v] = InSwap(s)} IN
    /\ swap_bitmap' = swap_bitmap \cup freed
    /\ swap' = [s \in Slot |-> IF s \in freed THEN Zero ELSE swap[s]]

FreePageTables(t, extra) ==
    /\ FreePages(InTables(t, extra))
    /\ FreeSlots(t)
    /\ pg_dir' = [pg_dir EXCEPT ![t] = NoFrame]
    /\ pte' = [pte EXCEPT ![t] = [v \in VPage |-> Absent]]

(* do_exit, as far as memory goes. *)
Leave(t) ==
    /\ FreePageTables(t, k[t].held)
    /\ executable' = [executable EXCEPT ![t] = NoProg]
    /\ k' = [k EXCEPT ![t] = User]
    /\ cpu' = NoTask
    /\ UNCHANGED setup

(* A task ends; the first one, init, does not. *)
Exit(t) ==
    /\ InUser(t)
    /\ \E u \in Task \ {t} : executable[u] # NoProg
    /\ Leave(t)

(* oom: no page for something that cannot do without.  put_page's caller   *)
(* frees the page it could not use.                                        *)
Oom(t) ==
    /\ OutOfMemory(t, {"unwp", "share_table", "load", "anonymous", "put_table", "swap_in"})
    /\ Leave(t)

-----------------------------------------------------------------------------
(* un_wp_page does not copy a page with one user. *)
Sole(f) == mem_map[f] = 1

(* un_wp_page, as far as its get_free_page. *)
UnWp(t, v, back) ==
    LET f == pte[t][v].frame IN
    IF Sole(f)
    THEN pte' = [pte EXCEPT ![t][v].rw = TRUE] /\ Return(t, back, v)
    ELSE Go(t, [pc |-> "unwp", v |-> v, back |-> back, old |-> f]) /\ UNCHANGED pte

(* The rest of un_wp_page.  mem_map is an unsigned char, and not checked.  *)
UnWpCopy(t) ==
    /\ GotPage(t, "unwp")
    /\ LET new == GetFreePage
           old == k[t].old IN
       /\ mem_map' = [mem_map EXCEPT ![new] = 1, ![old] = (@ + 255) % 256]
       /\ page' = [page EXCEPT ![new] = page[old]]
       /\ pte' = [pte EXCEPT ![t][k[t].v] = InMemory(new, TRUE, FALSE)]
    /\ Finish(t)
    /\ UNCHANGED <<setup, pg_dir, swapping, executable, panicked>>

(* A program writes a page that is write-protected: page_fault, do_wp_page. *)
WpFault(t, v) ==
    /\ InUser(t) /\ t \in setup.write
    /\ Present(t, v) /\ ~pte[t][v].rw
    /\ UnWp(t, v, "retry")
    /\ UNCHANGED <<setup, pg_dir, memory, swapping, executable>>

Write(t, v) ==
    /\ page' = [page EXCEPT ![pte[t][v].frame] = t]
    /\ pte' = [pte EXCEPT ![t][v].dirty = TRUE]

(* The write is tried again, at once unless the program is preempted. *)
Retry(t) ==
    /\ At(t, "retry")
    /\ \/ Write(t, k[t].v)
       \/ setup.preempt /\ UNCHANGED <<page, pte>>
    /\ Return(t, "user", k[t].v)
    /\ UNCHANGED <<setup, pg_dir, mem_map, swapping, executable, panicked>>

(* A program writes to a page it may write. *)
UserWrite(t, v) ==
    /\ InUser(t) /\ t \in setup.write
    /\ Present(t, v) /\ pte[t][v].rw
    /\ Write(t, v)
    /\ UNCHANGED <<setup, pg_dir, mem_map, swapping, executable, k, cpu, panicked>>

-----------------------------------------------------------------------------
MutShareable(t, p, v) == p # t /\ executable[p] = executable[t] /\ Present(p, v)

(* try_to_share: the page of p that t may use, present and clean. *)
Shareable(t, p, v) ==
    /\ p # t
    /\ executable[p] = executable[t]
    /\ Present(p, v) /\ ~pte[p][v].dirty

(* `*from_page &= ~2' of an entry of any kind. *)
WriteProtect(e) ==
    CASE e.at = "memory" -> [e EXCEPT !.rw = FALSE]
      [] e.at = "swap" /\ e.slot >= 2 -> InSwap(2 * (e.slot \div 2))
      [] OTHER -> Absent

(* The end of try_to_share: f is what phys_addr was. *)
ShareEntry(t, p, v, f) ==
    LET e == WriteProtect(pte[p][v]) IN
    /\ pte' = [pte EXCEPT ![p][v] = e, ![t][v] = e]
    /\ mem_map' = [mem_map EXCEPT ![f] = @ + 1]

(* share_page: some task's page is used, if there is one. *)
SharePage(t, v, back) ==
    \E p \in Task :
       /\ Shareable(t, p, v)
       /\ IF pg_dir[t] # NoFrame
          THEN ShareEntry(t, p, v, pte[p][v].frame) /\ Return(t, back, v)
          ELSE /\ Go(t, [pc |-> "share_table", v |-> v, back |-> back,
                         who |-> p, old |-> pte[p][v].frame])
               /\ UNCHANGED <<pte, mem_map>>

(* do_no_page, as far as its first get_free_page. *)
NoPage(t, v, back) ==
    LET get(pc) == Go(t, [pc |-> pc, v |-> v, back |-> back]) /\ UNCHANGED <<pte, mem_map>> IN
    CASE pte[t][v].at = "swap" -> get("swap_in")
      [] pte[t][v].at = "nowhere" /\ v = "stack" -> get("anonymous")
      [] pte[t][v].at = "nowhere" /\ v = "data" ->
            IF \E p \in Task : Shareable(t, p, v) THEN SharePage(t, v, back) ELSE get("load")

(* A program reads or writes a page that is not there. *)
NoPageFault(t, v) ==
    /\ InUser(t)
    /\ ~Present(t, v)
    /\ NoPage(t, v, "user")
    /\ UNCHANGED <<setup, pg_dir, page, swapping, executable, panicked>>

(* try_to_share, when it had to get a page for the table first. *)
ShareTable(t) ==
    /\ GotPage(t, "share_table")
    /\ pg_dir' = [pg_dir EXCEPT ![t] = GetFreePage]
    /\ LET v == k[t].v
           e == WriteProtect(pte[k[t].who][v]) IN
       /\ pte' = [pte EXCEPT ![k[t].who][v] = e, ![t][v] = e]
       /\ mem_map' = [mem_map EXCEPT ![GetFreePage] = 1, ![k[t].old] = @ + 1]
    /\ Finish(t)
    /\ UNCHANGED <<setup, page, swapping, executable, panicked>>

(* bread_page ... *)
Load(t) ==
    /\ GotPage(t, "load")
    /\ Use(GetFreePage)
    /\ Sleep(t, [pc |-> "loading", held |-> GetFreePage])
    /\ UNCHANGED <<setup, tables, page, swapping, executable, panicked>>

(* put_page; it may need a page for the page table first. *)
PutPage(t, f) ==
    IF pg_dir[t] # NoFrame
    THEN pte' = [pte EXCEPT ![t][k[t].v] = InMemory(f, TRUE, FALSE)] /\ Finish(t)
    ELSE Go(t, [pc |-> "put_table", held |-> f]) /\ UNCHANGED pte

Loaded(t) ==
    /\ Woken(t, "loading")
    /\ page' = [page EXCEPT ![k[t].held] = Image(executable[t])["data"]]
    /\ PutPage(t, k[t].held)
    /\ UNCHANGED <<setup, pg_dir, mem_map, swapping, executable, panicked>>

(* get_empty_page: a cleared page. *)
Anonymous(t) ==
    /\ GotPage(t, "anonymous")
    /\ Use(GetFreePage)
    /\ PutPage(t, GetFreePage)
    /\ UNCHANGED <<setup, pg_dir, page, swapping, executable, panicked>>

PutTable(t) ==
    /\ GotPage(t, "put_table")
    /\ Use(GetFreePage)
    /\ pg_dir' = [pg_dir EXCEPT ![t] = GetFreePage]
    /\ pte' = [pte EXCEPT ![t][k[t].v] = InMemory(k[t].held, TRUE, FALSE)]
    /\ Finish(t)
    /\ UNCHANGED <<setup, page, swapping, executable, panicked>>

(* swap_in: read_swap_page ... *)
SwapIn(t) ==
    /\ GotPage(t, "swap_in")
    /\ Use(GetFreePage)
    /\ Sleep(t, [pc |-> "swapping_in", held |-> GetFreePage])
    /\ UNCHANGED <<setup, tables, page, swapping, executable, panicked>>

(* The page has no copy any more: it counts as written to. *)
SwappedInDirty == TRUE

SwappedIn(t) ==
    /\ Woken(t, "swapping_in")
    /\ LET s == pte[t][k[t].v].slot IN
       /\ page' = [page EXCEPT ![k[t].held] = swap[s]]
       /\ swap' = [swap EXCEPT ![s] = Zero]
       /\ swap_bitmap' = swap_bitmap \cup {s}
       /\ pte' = [pte EXCEPT ![t][k[t].v] = InMemory(k[t].held, TRUE, SwappedInDirty)]
    /\ Finish(t)
    /\ UNCHANGED <<setup, pg_dir, mem_map, executable, panicked>>

-----------------------------------------------------------------------------
(* copy_mem and copy_page_tables.  The new task c is in the task table     *)
(* from the start, and todo are the pages still to be copied.              *)
Fork(t, c) ==
    /\ t \in setup.fork
    /\ InUser(t)
    /\ executable[c] = NoProg
    /\ executable' = [executable EXCEPT ![c] = executable[t]]
    /\ IF pg_dir[t] = NoFrame THEN UNCHANGED <<k, cpu>>
       ELSE /\ k' = [k EXCEPT ![t].pc = "copy_table", ![t].who = c, ![t].todo = VPage,
                              ![c].pc = "new"]
            /\ cpu' = t
    /\ UNCHANGED <<setup, tables, memory, swapping>>

CopyTable(t) ==
    /\ GotPage(t, "copy_table")
    /\ Use(GetFreePage)
    /\ pg_dir' = [pg_dir EXCEPT ![k[t].who] = GetFreePage]
    /\ Go(t, [pc |-> "copy"])
    /\ UNCHANGED <<setup, pte, page, panicked, swapping, executable>>

(* The page that comes next. *)
Copying(t) == IF "data" \in k[t].todo THEN "data" ELSE "stack"

Copied(t) == Go(t, [pc |-> "copy", held |-> NoFrame, todo |-> k[t].todo \ {Copying(t)}])

(* `this_page &= ~2': both entries of a copied page are write-protected. *)
SharedEntry(e) == WriteProtect(e)

CopyPage(t) ==
    /\ At(t, "copy") /\ k[t].todo # {}
    /\ LET v == Copying(t)
           e == pte[t][v] IN
       CASE e.at = "nowhere" -> Copied(t) /\ UNCHANGED <<pte, mem_map>>
         [] e.at = "memory" ->
               /\ pte' = [pte EXCEPT ![t][v] = SharedEntry(e), ![k[t].who][v] = SharedEntry(e)]
               /\ mem_map' = [mem_map EXCEPT ![e.frame] = @ + 1]
               /\ Copied(t)
         [] e.at = "swap" -> Go(t, [pc |-> "copy_swap"]) /\ UNCHANGED <<pte, mem_map>>
    /\ UNCHANGED <<setup, pg_dir, page, panicked, swapping, executable>>

CopySwap(t) ==
    /\ GotPage(t, "copy_swap")
    /\ Use(GetFreePage)
    /\ Sleep(t, [pc |-> "copy_read", held |-> GetFreePage])
    /\ UNCHANGED <<setup, tables, page, swapping, executable, panicked>>

(* The new task gets the page on the swap device, the old one the copy. *)
CopyRead(t) ==
    /\ Woken(t, "copy_read")
    /\ LET e == pte[t][Copying(t)] IN
       /\ page' = [page EXCEPT ![k[t].held] = swap[e.slot]]
       /\ pte' = [pte EXCEPT ![k[t].who][Copying(t)] = e,
                             ![t][Copying(t)] = InMemory(k[t].held, TRUE, TRUE)]
    /\ Copied(t)
    /\ UNCHANGED <<setup, pg_dir, mem_map, swapping, executable, panicked>>

ForkDone(t) ==
    /\ At(t, "copy") /\ k[t].todo = {}
    /\ k' = [k EXCEPT ![t] = User, ![k[t].who] = User]
    /\ cpu' = NoTask
    /\ UNCHANGED <<setup, tables, memory, swapping, executable>>

(* No page: what has been copied is freed, and there is no new task. *)
ForkFails(t) ==
    /\ OutOfMemory(t, {"copy_table", "copy_swap"})
    /\ FreePageTables(k[t].who, NoFrame)
    /\ executable' = [executable EXCEPT ![k[t].who] = NoProg]
    /\ k' = [k EXCEPT ![t] = User, ![k[t].who] = User]
    /\ cpu' = NoTask
    /\ UNCHANGED setup

-----------------------------------------------------------------------------
(* do_execve, by a program that has a page table, as all do that have run. *)
(* copy_strings puts the arguments into a new page ... *)
Exec(t, p) ==
    /\ <<t, p>> \in setup.exec
    /\ InUser(t) /\ pg_dir[t] # NoFrame
    /\ Go(t, [pc |-> "exec_args", prog |-> p])
    /\ UNCHANGED <<setup, tables, memory, swapping, executable>>

ExecFails(t) ==
    /\ OutOfMemory(t, {"exec_args"})
    /\ Finish(t)
    /\ UNCHANGED <<setup, tables, memory, swapping, executable>>

(* ... and at the point of no return the executable changes.  The task may *)
(* sleep in sys_close if files are to be closed on exec: closes.           *)
ExecArgs(t) ==
    /\ GotPage(t, "exec_args")
    /\ Use(GetFreePage)
    /\ page' = [page EXCEPT ![GetFreePage] = Args]
    /\ executable' = [executable EXCEPT ![t] = k[t].prog]
    /\ LET next == [pc |-> "closing", held |-> GetFreePage, prog |-> executable[t]] IN
       Go(t, next) \/ (setup.closes /\ Sleep(t, next))
    /\ UNCHANGED <<setup, tables, swapping, panicked>>

(* Then the old memory goes, and put_dirty_page maps the arguments: it     *)
(* needs a table, and at least the page of the old one is free.            *)
ExecFree(t) ==
    /\ At(t, "closing") \/ Woken(t, "closing")
    /\ LET map == Freed(InTables(t, NoFrame))
           free == {f \in Frame : map[f] = 0}
           table == CHOOSE f \in free : \A g \in free : g <= f IN
       /\ mem_map' = [map EXCEPT ![table] = 1]
       /\ page' = [f \in Frame |-> IF map[f] = 0 THEN Zero ELSE page[f]]
       /\ panicked' = (\E f \in Frame : InTables(t, NoFrame)[f] > mem_map[f])
       /\ pg_dir' = [pg_dir EXCEPT ![t] = table]
       /\ pte' = [pte EXCEPT ![t] = [v \in VPage |-> IF v = "data" THEN Absent
                                                     ELSE InMemory(k[t].held, TRUE, TRUE)]]
    /\ FreeSlots(t)
    /\ Return(t, "user", "data")
    /\ UNCHANGED <<setup, executable>>

-----------------------------------------------------------------------------
(* A system call that writes to user memory, as read does: verify_area     *)
(* with write_verify, perhaps some sleep, then a write by the kernel,      *)
(* which the processor does not stop at a write-protected page.            *)
(* present: the caller has already used the page.                          *)
SystemCall(t, v) ==
    /\ t \in setup.kernel
    /\ setup.present => Present(t, v)
    /\ InUser(t)
    /\ IF Present(t, v) /\ ~pte[t][v].rw
       THEN UnWp(t, v, "verified")
       ELSE Go(t, [pc |-> "verified", v |-> v]) /\ UNCHANGED pte
    /\ UNCHANGED <<setup, pg_dir, memory, swapping, executable>>

(* What is between verify_area and the write may sleep: sleeps. *)
Verified(t) ==
    /\ At(t, "verified")
    /\ Go(t, [pc |-> "store"]) \/ (setup.sleeps /\ Sleep(t, [pc |-> "store"]))
    /\ UNCHANGED <<setup, tables, memory, swapping, executable>>

KernelWrite(t) ==
    /\ At(t, "store") \/ Woken(t, "store")
    /\ LET v == k[t].v IN
       IF Present(t, v)
       THEN Write(t, v) /\ Return(t, "user", v) /\ UNCHANGED mem_map
       ELSE NoPage(t, v, "store") /\ UNCHANGED page
    /\ UNCHANGED <<setup, pg_dir, swapping, executable, panicked>>

-----------------------------------------------------------------------------
Program(t) ==
    \/ \E v \in VPage : \/ NoPageFault(t, v)
                        \/ WpFault(t, v)
                        \/ UserWrite(t, v)
                        \/ SystemCall(t, v)
    \/ \E c \in Task : Fork(t, c)
    \/ \E p \in Prog : Exec(t, p)
    \/ Exit(t)

Kernel(t) ==
    \/ DropPage(t) \/ WritePage(t) \/ Written(t) \/ Oom(t)
    \/ UnWpCopy(t) \/ ShareTable(t) \/ Load(t) \/ Loaded(t)
    \/ Anonymous(t) \/ PutTable(t) \/ SwapIn(t) \/ SwappedIn(t)
    \/ CopyTable(t) \/ CopyPage(t) \/ CopySwap(t) \/ CopyRead(t) \/ ForkDone(t) \/ ForkFails(t)
    \/ ExecFails(t) \/ ExecArgs(t) \/ ExecFree(t)
    \/ Retry(t) \/ Verified(t) \/ KernelWrite(t)

Next == \E t \in Task : Program(t) \/ Kernel(t)

Spec == Init /\ [][Next]_vars

-----------------------------------------------------------------------------
(* The uses of a page: page tables, entries, and pages in a task's hand. *)
Uses(f) ==
    Cardinality({t \in Task : pg_dir[t] = f})
    + Cardinality({tv \in Task \X VPage :
                     Present(tv[1], tv[2]) /\ pte[tv[1]][tv[2]].frame = f})
    + Cardinality({t \in Task : k[t].held = f}) + Cardinality({t \in Task : k[t].out = f})

(* mem_map counts the uses of each page, and a page of the swap device     *)
(* that is taken belongs to one entry, but for the one a fork copies: no   *)
(* page of memory or swap space is lost, or given out while it is in use.  *)
PagesAccounted ==
    /\ \A f \in 1..setup.frames : mem_map[f] = Uses(f)
    /\ \A s \in 1..setup.slots :
          Cardinality({tv \in Task \X VPage : pte[tv[1]][tv[2]] = InSwap(s)})
            = IF s \in swap_bitmap THEN 0 ELSE 1

(* memory.c panics "trying to free free page" if a use count is wrong. *)
NoPanic == ~panicked

(* What a program would find in its memory. *)
RunsNow(t) == CASE k[t].pc = "new" -> NoProg
                [] k[t].pc = "closing" -> k[t].prog
                [] OTHER -> executable[t]

Sees(t, v) ==
    IF RunsNow(t) = NoProg THEN NoProg
    ELSE CASE Present(t, v) -> page[pte[t][v].frame]
           [] pte[t][v].at = "swap" -> swap[pte[t][v].slot]
           [] pte[t][v].at = "nowhere" -> IF v = "data" THEN RunsNow(t) ELSE Zero

(* Each task has a memory of its own, whatever is shared, copied late,     *)
(* loaded on demand or on the swap device.                                 *)
Abstract == INSTANCE AddressSpaces WITH
               runs <- [t \in Task |-> RunsNow(t)],
               mem <- [t \in Task |-> [v \in VPage |-> Sees(t, v)]]
OwnMemory == Abstract!ASpec
=============================================================================
