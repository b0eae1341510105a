------------------------- MODULE ProcessTreeProofs -------------------------
(***************************************************************************)
(* Proofs about the process tree, for tables of any size: the lists of     *)
(* children are whole whatever fork, exit, adoption by init and release do *)
(* in whatever order, nothing panics, no two tasks have the same pid, and  *)
(* an exit leaves nobody stopped in a group it orphans.                    *)
(*                                                                         *)
(* The lists are described by ranks: a task has a higher rank than its     *)
(* older siblings, those behind it in the list.  p_osptr is then the       *)
(* highest of the lower siblings, p_ysptr the lowest of the higher ones,   *)
(* and p_cptr the highest of all children.  depth makes the parents a tree *)
(* whose root is init.                                                     *)
(***************************************************************************)
EXTENDS ProcessTree, FiniteSetTheorems, WellFoundedInduction, TLAPS

Tables == [Proc -> TaskStruct]
Live == InTable \cup {0}

(* The table has every task once, and no task_struct that is free. *)
TableOK ==
    /\ task[0] = 0 /\ task[InitTask] = InitTask
    /\ \A m, n \in Slot : task[m] = task[n] /\ task[m] # NULL => m = n
    /\ \A p \in Proc : p \in Live <=> proc[p].state # "free"

(* Init gets no signals but SIGCHLD, and stays. *)
InitOK(ps) ==
    /\ ps[InitTask].p_pptr = 0 /\ ps[InitTask].pid = 1 /\ ps[InitTask].pgrp = 0
    /\ ps[InitTask].signal \subseteq {"SIGCHLD"}
    /\ ps[InitTask].state # "TASK_ZOMBIE"

NoForks == new = [p \in Proc |-> NoFork]

(* A task that has exited has no children any more. *)
Zombies == \A p \in InTable : proc[p].state = "TASK_ZOMBIE" => proc[p].p_cptr = NULL

TopOf(rank, S, o) == IF S = {} THEN o = NULL ELSE o \in S /\ \A q \in S : rank[q] <= rank[o]
BottomOf(rank, S, y) == IF S = {} THEN y = NULL ELSE y \in S /\ \A q \in S : rank[q] >= rank[y]
Lower(rank, p) == {q \in Kids(proc[p].p_pptr) : rank[q] < rank[p]}
Higher(rank, p) == {q \in Kids(proc[p].p_pptr) : rank[q] > rank[p]}

Rooted(depth) ==
    /\ \A p \in InTable \ {InitTask} :
          proc[p].p_pptr \in InTable /\ depth[proc[p].p_pptr] < depth[p]
    /\ depth[InitTask] = 0

Ranked(rank) ==
    /\ \A p, q \in InTable : proc[p].p_pptr = proc[q].p_pptr /\ rank[p] = rank[q] => p = q
    /\ \A t \in Live : TopOf(rank, Kids(t), proc[t].p_cptr)
    /\ \A p \in InTable : /\ TopOf(rank, Lower(rank, p), proc[p].p_osptr)
                          /\ BottomOf(rank, Higher(rank, p), proc[p].p_ysptr)

Tree == /\ \E depth \in [Proc -> Nat] : Rooted(depth)
        /\ \E m \in Nat : \E rank \in [Proc -> 0..m] : Ranked(rank)

Inv == TypeOK /\ ~panic /\ TableOK /\ InitOK(proc) /\ NoForks /\ Zombies /\ UniquePids /\ Tree

-----------------------------------------------------------------------------
LEMMA Constants ==
    /\ Proc \subseteq Nat /\ 0 \in Proc /\ InitTask \in Proc /\ InitTask # 0
    /\ Slot \subseteq Nat /\ 0 \in Slot /\ InitTask \in Slot
    /\ NULL \notin Proc
BY ProcessAssumption DEF Proc, Slot, InitTask

LEMMA InTableIs == ASSUME TypeOK PROVE InTable \subseteq Proc /\ Live \subseteq Proc
BY Constants DEF TypeOK, InTable, Live

(* Every set of numbers has a least one. *)
LEMMA LeastOf == ASSUME NEW S \in SUBSET Nat, S # {} PROVE \E n \in S : \A m \in S : n <= m
<1>1. \E n \in S : \A m \in S : ~(<<m, n>> \in OpToRel(<, Nat))
  BY NatLessThanWellFounded, WFMin
<1>2. \E n \in S : \A m \in S : ~(m < n)
  BY <1>1 DEF OpToRel
<1>. QED BY <1>2

(* Counting up from a. *)
LEMMA UpTo ==
    ASSUME NEW a \in Nat, NEW N \in Nat, NEW G, a \in a..N => a \in G,
           \A n \in a..N : n # a /\ n - 1 \in G => n \in G
    PROVE  \A n \in a..N : n \in G
<1> DEFINE S == (a..N) \ G
<1> SUFFICES ASSUME S # {} PROVE FALSE
  OBVIOUS
<1>1. PICK n \in S : \A k \in S : n <= k
  <2>1. S \in SUBSET Nat
    OBVIOUS
  <2>. QED BY <2>1, LeastOf
<1>2. n \in a..N /\ n \notin G /\ n # a
  OBVIOUS
<1>3. n - 1 \in a..N /\ ~(n <= n - 1)
  BY <1>2
<1>4. n - 1 \in G
  BY <1>1, <1>3
<1>. QED BY <1>2, <1>4

(* A function can be defined by steps. *)
Stepwise(a, N, X, base, step) ==
    \E f \in [a..N -> X] : f[a] = base /\ \A n \in a..N : n # a => f[n] = step[n][f[n - 1]]

LEMMA Steps ==
    ASSUME NEW a \in Nat, NEW N \in Nat, a <= N, NEW X, NEW base \in X, NEW step \in [Nat -> [X -> X]]
    PROVE  Stepwise(a, N, X, base, step)
<1> DEFINE Good(k) == \E f \in [a..k -> X] :
                         f[a] = base /\ \A n \in a..k : n # a => f[n] = step[n][f[n - 1]]
           S == {k \in a..N : Good(k)}
<1>1. Good(a)
  <2>1. a..a = {a}
    OBVIOUS
  <2>2. [n \in a..a |-> base] \in [a..a -> X]
    OBVIOUS
  <2>. QED BY <2>1, <2>2
<1>2. ASSUME NEW k \in a..N, k # a, Good(k - 1) PROVE Good(k)
  <2>1. PICK f \in [a..(k - 1) -> X] :
               f[a] = base /\ \A n \in a..(k - 1) : n # a => f[n] = step[n][f[n - 1]]
    BY <1>2
  <2>2. k \in Nat /\ k - 1 \in a..(k - 1) /\ k \notin a..(k - 1) /\ a \in a..(k - 1)
        /\ a..k = a..(k - 1) \cup {k}
    BY <1>2
  <2> DEFINE g == [n \in a..k |-> IF n = k THEN step[k][f[k - 1]] ELSE f[n]]
  <2>3. step[k][f[k - 1]] \in X
    BY <2>1, <2>2
  <2>4. g \in [a..k -> X]
    BY <2>1, <2>2, <2>3
  <2>5. g[a] = base
    BY <1>2, <2>1, <2>2
  <2>6. ASSUME NEW n \in a..k, n # a PROVE g[n] = step[n][g[n - 1]]
    <3>1. n - 1 \in a..k /\ n - 1 # k /\ n - 1 \in a..(k - 1)
      BY <1>2, <2>6
    <3>2. g[n - 1] = f[n - 1]
      BY <3>1
    <3>3. CASE n = k
      BY <2>2, <3>2, <3>3
    <3>4. CASE n # k
      <4>1. n \in a..(k - 1)
        BY <2>2, <3>4
      <4>. QED BY <2>1, <2>6, <3>2, <3>4, <4>1
    <3>. QED BY <3>3, <3>4
  <2> HIDE DEF g
  <2>. QED BY <2>4, <2>5, <2>6
<1> HIDE DEF Good
<1>3. \A n \in a..N : n \in S
  <2>1. a \in S
    BY <1>1
  <2>2. \A n \in a..N : n # a /\ n - 1 \in S => n \in S
    BY <1>2
  <2> HIDE DEF S
  <2>. QED BY <2>1, <2>2, UpTo
<1>4. Good(N)
  BY <1>3
<1>. QED BY <1>4 DEF Good, Stepwise

-----------------------------------------------------------------------------
(* What happens to a table when some tasks get signals and those in S get  *)
(* init for their parent.                                                  *)
Moved(ps, qs, S) ==
    /\ qs \in Tables
    /\ \A p \in Proc :
          /\ qs[p].pid = ps[p].pid
          /\ qs[p].p_cptr = ps[p].p_cptr /\ qs[p].p_ysptr = ps[p].p_ysptr /\ qs[p].p_osptr = ps[p].p_osptr
          /\ qs[p].p_pptr = IF p \in S THEN InitTask ELSE ps[p].p_pptr
          /\ qs[p].state = "free" <=> ps[p].state = "free"
          /\ qs[p].state = "TASK_ZOMBIE" <=> ps[p].state = "TASK_ZOMBIE"
    /\ InitTask \notin S /\ InitOK(ps) => InitOK(qs)

LEMMA MovedNone == ASSUME NEW ps \in Tables PROVE Moved(ps, ps, {})
BY DEF Moved

LEMMA MovedTwice ==
    ASSUME NEW ps, NEW qs, NEW rs, NEW S, NEW T, Moved(ps, qs, S), Moved(qs, rs, T)
    PROVE  Moved(ps, rs, S \cup T)
<1>1. rs \in Tables /\ (InitTask \notin S \cup T /\ InitOK(ps) => InitOK(rs))
  BY DEF Moved
<1>2. ASSUME NEW p \in Proc
      PROVE  /\ rs[p].pid = ps[p].pid
             /\ rs[p].p_cptr = ps[p].p_cptr /\ rs[p].p_ysptr = ps[p].p_ysptr /\ rs[p].p_osptr = ps[p].p_osptr
             /\ rs[p].p_pptr = IF p \in S \cup T THEN InitTask ELSE ps[p].p_pptr
             /\ rs[p].state = "free" <=> ps[p].state = "free"
             /\ rs[p].state = "TASK_ZOMBIE" <=> ps[p].state = "TASK_ZOMBIE"
  BY <1>2 DEF Moved
<1>. QED BY <1>1, <1>2 DEF Moved

(* Groups and sessions stay too, and nobody is stopped. *)
Calm(ps, qs) ==
    \A p \in Proc : /\ qs[p].pgrp = ps[p].pgrp /\ qs[p].session = ps[p].session
                    /\ qs[p].state = "TASK_STOPPED" => ps[p].state = "TASK_STOPPED"

Carried(ps, qs, S) == Moved(ps, qs, S) /\ Calm(ps, qs)

LEMMA CarriedNone == ASSUME NEW ps \in Tables PROVE Carried(ps, ps, {})
BY MovedNone DEF Carried, Calm

LEMMA CarriedTwice ==
    ASSUME NEW ps, NEW qs, NEW rs, NEW S, NEW T, Carried(ps, qs, S), Carried(qs, rs, T)
    PROVE  Carried(ps, rs, S \cup T)
BY MovedTwice DEF Carried, Calm

(* send_sig *)
SameTask(r, s) ==
    /\ s \in TaskStruct
    /\ s.pid = r.pid
    /\ s.p_pptr = r.p_pptr /\ s.p_cptr = r.p_cptr /\ s.p_ysptr = r.p_ysptr /\ s.p_osptr = r.p_osptr
    /\ s.state = "free" <=> r.state = "free"
    /\ s.state = "TASK_ZOMBIE" <=> r.state = "TASK_ZOMBIE"

LEMMA SentIs ==
    ASSUME NEW r \in TaskStruct, NEW sig \in Signals
    PROVE  SameTask(r, Sent(r, sig))
<1> DEFINE cont == IF sig \notin {"SIGKILL", "SIGCONT"} THEN r
                   ELSE [r EXCEPT !.state = IF @ = "TASK_STOPPED" THEN "TASK_RUNNING" ELSE @,
                                  !.exit_code = "0",
                                  !.signal = @ \ {"SIGSTOP"}]
           stop == IF sig # "SIGSTOP" THEN cont ELSE [cont EXCEPT !.signal = @ \ {"SIGCONT"}]
           sent == [stop EXCEPT !.signal = @ \cup {sig}]
<1>1. SameTask(r, cont)
  <2>1. CASE sig \notin {"SIGKILL", "SIGCONT"}
    BY <2>1 DEF SameTask
  <2>2. CASE sig \in {"SIGKILL", "SIGCONT"}
    <3> DEFINE st == IF r.state = "TASK_STOPPED" THEN "TASK_RUNNING" ELSE r.state
               sg == r.signal \ {"SIGSTOP"}
    <3>1. cont = [r EXCEPT !.state = st, !.exit_code = "0", !.signal = sg]
      BY <2>2 DEF TaskStruct
    <3>2. st \in States /\ "0" \in Codes /\ sg \in SUBSET Signals
      BY DEF TaskStruct, States, Codes
    <3>3. (st = "free" <=> r.state = "free") /\ (st = "TASK_ZOMBIE" <=> r.state = "TASK_ZOMBIE")
      OBVIOUS
    <3> HIDE DEF st, sg, cont
    <3>4. /\ cont \in TaskStruct
          /\ cont.pid = r.pid /\ cont.pgrp = r.pgrp /\ cont.session = r.session /\ cont.leader = r.leader
          /\ cont.p_pptr = r.p_pptr /\ cont.p_cptr = r.p_cptr
          /\ cont.p_ysptr = r.p_ysptr /\ cont.p_osptr = r.p_osptr
          /\ cont.state = st
      BY <3>1, <3>2 DEF TaskStruct
    <3>. QED BY <3>3, <3>4 DEF SameTask
  <2>. QED BY <2>1, <2>2
<1> HIDE DEF cont
<1>2. SameTask(r, stop)
  <2>1. CASE sig # "SIGSTOP"
    BY <1>1, <2>1
  <2>2. CASE sig = "SIGSTOP"
    BY <1>1, <2>2 DEF SameTask, TaskStruct
  <2>. QED BY <2>1, <2>2
<1> HIDE DEF stop
<1>3. SameTask(r, sent)
  BY <1>2 DEF SameTask, TaskStruct
<1>. QED BY <1>3 DEF Sent, sent, stop, cont

LEMMA SentStops ==
    ASSUME NEW r \in TaskStruct, NEW sig
    PROVE  /\ Sent(r, sig).pgrp = r.pgrp /\ Sent(r, sig).session = r.session
           /\ Sent(r, sig).state = "TASK_STOPPED" => r.state = "TASK_STOPPED" /\ sig \notin {"SIGKILL", "SIGCONT"}
<1> DEFINE cont == IF sig \notin {"SIGKILL", "SIGCONT"} THEN r
                   ELSE [r EXCEPT !.state = IF @ = "TASK_STOPPED" THEN "TASK_RUNNING" ELSE @,
                                  !.exit_code = "0",
                                  !.signal = @ \ {"SIGSTOP"}]
           stop == IF sig # "SIGSTOP" THEN cont ELSE [cont EXCEPT !.signal = @ \ {"SIGCONT"}]
           sent == [stop EXCEPT !.signal = @ \cup {sig}]
           Fields == {"state", "pid", "pgrp", "session", "leader", "signal", "exit_code",
                      "p_pptr", "p_cptr", "p_ysptr", "p_osptr"}
<1>1. DOMAIN r = Fields
  BY DEF TaskStruct
<1>2. /\ DOMAIN cont = Fields /\ cont.pgrp = r.pgrp /\ cont.session = r.session
      /\ cont.state = "TASK_STOPPED" => r.state = "TASK_STOPPED" /\ sig \notin {"SIGKILL", "SIGCONT"}
  <2>1. CASE sig \notin {"SIGKILL", "SIGCONT"}
    BY <1>1, <2>1
  <2>2. CASE sig \in {"SIGKILL", "SIGCONT"}
    BY <1>1, <2>2
  <2>. QED BY <2>1, <2>2
<1> HIDE DEF cont
<1>3. DOMAIN stop = Fields /\ stop.pgrp = cont.pgrp /\ stop.session = cont.session /\ stop.state = cont.state
  BY <1>2
<1> HIDE DEF stop
<1>4. sent.pgrp = stop.pgrp /\ sent.session = stop.session /\ sent.state = stop.state
  BY <1>3
<1>. QED BY <1>2, <1>3, <1>4 DEF Sent, sent, stop, cont

LEMMA KillPgMoves ==
    ASSUME TypeOK, NEW ps \in Tables, NEW g \in Nat, NEW sig \in Signals
    PROVE  Carried(ps, KillPg(ps, g, sig), {})
<1> DEFINE qs == KillPg(ps, g, sig)
<1>1. \A p \in Proc : qs[p] = IF p \in InTable /\ ps[p].pgrp = g /\ g > 0 THEN Sent(ps[p], sig) ELSE ps[p]
  BY DEF KillPg
<1>2. ASSUME NEW p \in Proc PROVE SameTask(ps[p], qs[p])
  <2>1. ps[p] \in TaskStruct
    BY DEF Tables
  <2>2. SameTask(ps[p], ps[p])
    BY <2>1 DEF SameTask
  <2>3. SameTask(ps[p], Sent(ps[p], sig))
    BY <2>1, SentIs
  <2>. QED BY <1>1, <2>2, <2>3
<1>3. qs \in Tables
  <2>1. qs = [p \in Proc |-> qs[p]]
    BY DEF KillPg
  <2>2. \A p \in Proc : qs[p] \in TaskStruct
    BY <1>2 DEF SameTask
  <2> HIDE DEF qs
  <2>. QED BY <2>1, <2>2 DEF Tables
<1>4. ASSUME InitOK(ps) PROVE InitOK(qs)
  <2>1. ~(ps[InitTask].pgrp = g /\ g > 0)
    BY <1>4 DEF InitOK
  <2>2. qs[InitTask] = ps[InitTask]
    BY <1>1, <2>1, Constants
  <2>. QED BY <1>4, <2>2 DEF InitOK
<1> HIDE DEF qs
<1>5. \A p \in Proc :
          /\ qs[p].pid = ps[p].pid
          /\ qs[p].p_cptr = ps[p].p_cptr /\ qs[p].p_ysptr = ps[p].p_ysptr /\ qs[p].p_osptr = ps[p].p_osptr
          /\ qs[p].p_pptr = ps[p].p_pptr
          /\ qs[p].state = "free" <=> ps[p].state = "free"
          /\ qs[p].state = "TASK_ZOMBIE" <=> ps[p].state = "TASK_ZOMBIE"
  BY <1>2 DEF SameTask
<1>6. Moved(ps, qs, {})
  BY <1>3, <1>4, <1>5 DEF Moved
<1>7. Calm(ps, qs)
  BY <1>1, SentStops DEF Calm, Tables
<1>. QED BY <1>6, <1>7 DEF qs, Carried

LEMMA HangupMoves ==
    ASSUME TypeOK, NEW ps \in Tables, NEW g \in Nat
    PROVE  Carried(ps, Hangup(ps, g), {})
<1>1. "SIGHUP" \in Signals /\ "SIGCONT" \in Signals
  BY DEF Signals
<1> DEFINE qs == KillPg(ps, g, "SIGHUP")
<1>2. Carried(ps, qs, {})
  BY <1>1, KillPgMoves
<1> HIDE DEF qs
<1>3. Carried(qs, KillPg(qs, g, "SIGCONT"), {})
  BY <1>1, <1>2, KillPgMoves DEF Carried, Moved
<1>4. Carried(ps, KillPg(qs, g, "SIGCONT"), {})
  <2>1. {} \cup {} = {}
    OBVIOUS
  <2>. QED BY <1>2, <1>3, <2>1, CarriedTwice
<1>. QED BY <1>4, CarriedNone DEF Hangup, qs

(* A change to one task. *)
LEMMA OneMoves ==
    ASSUME NEW ps \in Tables, NEW p \in Proc, NEW r, SameTask(ps[p], r),
           p = InitTask => r.pgrp = ps[p].pgrp /\ r.signal \subseteq ps[p].signal \cup {"SIGCHLD"}
    PROVE  Moved(ps, [ps EXCEPT ![p] = r], {})
<1> DEFINE qs == [ps EXCEPT ![p] = r]
<1>1. qs \in Tables /\ \A q \in Proc : qs[q] = IF q = p THEN r ELSE ps[q]
  BY DEF SameTask, Tables
<1>2. ASSUME InitOK(ps) PROVE InitOK(qs)
  <2>1. CASE p = InitTask
    BY <1>1, <1>2, <2>1 DEF InitOK, SameTask
  <2>2. CASE p # InitTask
    BY <1>1, <1>2, <2>2, Constants DEF InitOK
  <2>. QED BY <2>1, <2>2
<1> HIDE DEF qs
<1>3. Moved(ps, qs, {})
  BY <1>1, <1>2 DEF Moved, SameTask
<1>. QED BY <1>3 DEF qs

(* SIGCHLD *)
LEMMA ParentToldMoves ==
    ASSUME NEW ps \in Tables, NEW p \in Proc
    PROVE  Carried(ps, [ps EXCEPT ![p].signal = @ \cup {"SIGCHLD"}], {})
<1> DEFINE r == [ps[p] EXCEPT !.signal = @ \cup {"SIGCHLD"}]
<1>1. ps[p] \in TaskStruct
  BY DEF Tables
<1>2. /\ SameTask(ps[p], r) /\ r.pgrp = ps[p].pgrp /\ r.signal = ps[p].signal \cup {"SIGCHLD"}
      /\ r.session = ps[p].session /\ r.state = ps[p].state
  BY <1>1 DEF SameTask, TaskStruct, Signals
<1>3. [ps EXCEPT ![p].signal = @ \cup {"SIGCHLD"}] = [ps EXCEPT ![p] = r]
  OBVIOUS
<1> HIDE DEF r
<1>4. Calm(ps, [ps EXCEPT ![p] = r])
  BY <1>2 DEF Calm, Tables
<1>. QED BY <1>2, <1>3, <1>4, OneMoves DEF Carried

(* A child is adopted. *)
LEMMA AdoptedMoves ==
    ASSUME TypeOK, NEW ps \in Tables, NEW t \in Proc, NEW c \in Proc
    PROVE  /\ Carried(ps, Adopted(t, ps, c), {c})
           /\ \E told : /\ Carried(ps, told, {c})
                       /\ Adopted(t, ps, c) = IF ps[c].pgrp # ps[t].pgrp /\ ps[c].session = ps[t].session
                                              THEN Hangup(told, ps[c].pgrp) ELSE told
<1> DEFINE moved == [ps EXCEPT ![c].p_pptr = InitTask]
           told == IF moved[c].state = "TASK_ZOMBIE"
                   THEN [moved EXCEPT ![InitTask].signal = @ \cup {"SIGCHLD"}] ELSE moved
<1>1. ps[c] \in TaskStruct /\ ps[InitTask] \in TaskStruct
  BY Constants DEF Tables
<1>2. Carried(ps, moved, {c})
  <2>1. [ps[c] EXCEPT !.p_pptr = InitTask] \in TaskStruct
    BY <1>1, Constants DEF TaskStruct
  <2>2. moved \in Tables
    BY <2>1 DEF Tables
  <2>3. \A p \in Proc : moved[p] = IF p = c THEN [ps[c] EXCEPT !.p_pptr = InitTask] ELSE ps[p]
    BY DEF Tables
  <2>4. /\ [ps[c] EXCEPT !.p_pptr = InitTask].p_pptr = InitTask
        /\ \A f \in {"pid", "p_cptr", "p_ysptr", "p_osptr", "state"} :
              [ps[c] EXCEPT !.p_pptr = InitTask][f] = ps[c][f]
    BY <1>1 DEF TaskStruct
  <2>5. InitTask # c => moved[InitTask] = ps[InitTask]
    BY <2>3, Constants
  <2> HIDE DEF moved
  <2>6. Moved(ps, moved, {c})
    BY <2>2, <2>3, <2>4, <2>5 DEF Moved, InitOK
  <2>7. Calm(ps, moved)
    BY <1>1, <2>3 DEF Calm, TaskStruct
  <2>. QED BY <2>6, <2>7 DEF Carried
<1> HIDE DEF moved
<1>3. Carried(moved, told, {})
  <2>1. moved \in Tables
    BY <1>2 DEF Carried, Moved
  <2>2. CASE moved[c].state # "TASK_ZOMBIE"
    BY <2>1, <2>2, CarriedNone
  <2>3. CASE moved[c].state = "TASK_ZOMBIE"
    BY <2>1, <2>3, ParentToldMoves, Constants
  <2>. QED BY <2>2, <2>3
<1> HIDE DEF told
<1>4. told \in Tables /\ ps[c].pgrp \in Nat
  BY <1>1, <1>3, ProcessAssumption DEF Carried, Moved, TaskStruct
<1>5. Carried(ps, told, {c})
  <2>1. {c} \cup {} = {c}
    OBVIOUS
  <2>. QED BY <1>2, <1>3, <2>1, CarriedTwice
<1>6. Carried(ps, Hangup(told, ps[c].pgrp), {c})
  <2>1. {c} \cup {} = {c}
    OBVIOUS
  <2>2. Carried(told, Hangup(told, ps[c].pgrp), {})
    BY <1>4, HangupMoves
  <2>. QED BY <1>5, <2>1, <2>2, CarriedTwice
<1>7. Adopted(t, ps, c) = IF ps[c].pgrp # ps[t].pgrp /\ ps[c].session = ps[t].session
                         THEN Hangup(told, ps[c].pgrp) ELSE told
  BY DEF Adopted, told, moved
<1>. QED BY <1>5, <1>6, <1>7

(* The loop goes through a table for each child. *)
AdoptedInTurn(t, ps, kids, adopted) ==
    /\ adopted[0] = ps
    /\ \A n \in 1..Len(kids) : adopted[n] = Adopted(t, adopted[n - 1], kids[n])
    /\ \A n \in 0..Len(kids) : Carried(ps, adopted[n], {kids[k] : k \in 1..n})

LEMMA AllAdoptedMoves ==
    ASSUME TypeOK, NEW ps \in Tables, NEW t \in Proc, NEW kids \in Seq(Proc)
    PROVE  \E adopted : AdoptedInTurn(t, ps, kids, adopted) /\ AllAdopted(t, ps, kids) = adopted[Len(kids)]
<1> DEFINE L == Len(kids)
           Eq(g) == g = [n \in 0..L |-> IF n = 0 THEN ps ELSE Adopted(t, g[n - 1], kids[n])]
           step == [n \in Nat |-> [qs \in Tables |-> IF n \in 1..L THEN Adopted(t, qs, kids[n]) ELSE qs]]
           adopted == CHOOSE g : Eq(g)
<1>1. L \in Nat /\ 0 \in 0..L /\ \A n \in 1..L : kids[n] \in Proc
  OBVIOUS
<1>2. AllAdopted(t, ps, kids) = adopted[L]
  BY DEF AllAdopted
<1> HIDE DEF L
<1>3. step \in [Nat -> [Tables -> Tables]]
  BY <1>1, AdoptedMoves DEF Carried, Moved
<1>4. PICK f \in [0..L -> Tables] : f[0] = ps /\ \A n \in 0..L : n # 0 => f[n] = step[n][f[n - 1]]
  <2> HIDE DEF step
  <2>1. 0 \in Nat /\ 0 <= L /\ L \in Nat /\ ps \in Tables
    BY <1>1
  <2>2. Stepwise(0, L, Tables, ps, step)
    BY <1>3, <2>1, Steps
  <2>. QED BY <2>2 DEF Stepwise
<1>5. Eq(f)
  <2>1. ASSUME NEW n \in 0..L PROVE f[n] = IF n = 0 THEN ps ELSE Adopted(t, f[n - 1], kids[n])
    <3>1. CASE n = 0
      BY <1>4, <3>1
    <3>2. CASE n # 0
      <4>1. n \in Nat /\ n \in 1..L /\ n - 1 \in 0..L
        BY <1>1, <3>2
      <4>2. f[n - 1] \in Tables /\ f[n] = step[n][f[n - 1]]
        BY <1>4, <3>2, <4>1
      <4>. QED BY <3>2, <4>1, <4>2
    <3>. QED BY <3>1, <3>2
  <2>2. f = [n \in 0..L |-> f[n]]
    BY <1>4
  <2>. QED BY <2>1, <2>2
<1>6. Eq(adopted)
  BY <1>5
<1> HIDE DEF adopted, step
<1>7. \A n \in 0..L : adopted[n] = IF n = 0 THEN ps ELSE Adopted(t, adopted[n - 1], kids[n])
  BY <1>6
<1> DEFINE Sofar(n) == {kids[k] : k \in 1..n}
           Good(n) == Carried(ps, adopted[n], Sofar(n))
<1>8. Good(0)
  <2>1. Sofar(0) = {}
    OBVIOUS
  <2>2. adopted[0] = ps
    BY <1>1, <1>7
  <2>. QED BY <2>1, <2>2, CarriedNone
<1>9. ASSUME NEW n \in 1..L, Good(n - 1) PROVE Good(n)
  <2>1. n \in 0..L /\ n # 0 /\ 1..n = 1..(n - 1) \cup {n}
    BY <1>1
  <2>2. adopted[n] = Adopted(t, adopted[n - 1], kids[n])
    BY <1>7, <2>1
  <2>3. adopted[n - 1] \in Tables
    BY <1>9 DEF Carried, Moved
  <2>4. Carried(adopted[n - 1], adopted[n], {kids[n]})
    BY <1>1, <2>2, <2>3, AdoptedMoves
  <2>5. Sofar(n) = Sofar(n - 1) \cup {kids[n]}
    BY <2>1
  <2>. QED BY <1>9, <2>4, <2>5, CarriedTwice
<1> HIDE DEF Good
<1> DEFINE S == {n \in 0..L : Good(n)}
<1>10. \A n \in 0..L : n \in S
  <2>1. 0 \in S
    BY <1>1, <1>8
  <2>2. \A n \in 0..L : n # 0 /\ n - 1 \in S => n \in S
    BY <1>1, <1>9
  <2> HIDE DEF S
  <2>. QED BY <1>1, <2>1, <2>2, UpTo
<1>11. \A n \in 0..L : Carried(ps, adopted[n], {kids[k] : k \in 1..n})
  BY <1>10 DEF Good
<1>12. adopted[0] = ps /\ \A n \in 1..L : adopted[n] = Adopted(t, adopted[n - 1], kids[n])
  BY <1>1, <1>7
<1>13. AdoptedInTurn(t, ps, kids, adopted)
  BY <1>11, <1>12 DEF AdoptedInTurn, L
<1>. QED BY <1>2, <1>13 DEF L

-----------------------------------------------------------------------------
(* Who is next to whom. *)
Sorted(rank, m) == Inv /\ m \in Nat /\ rank \in [Proc -> 0..m] /\ Ranked(rank)

LEMMA RankIs ==
    ASSUME NEW m, NEW rank, Sorted(rank, m)
    PROVE  \A p \in Proc : rank[p] \in Nat /\ rank[p] <= m
BY DEF Sorted

LEMMA KidsIs ==
    ASSUME TypeOK
    PROVE  \A t : /\ Kids(t) \subseteq InTable /\ Kids(t) \subseteq Proc
                  /\ \A c \in Kids(t) : proc[c].p_pptr = t
BY InTableIs DEF Kids

(* The parents of tasks are tasks, and nobody is his own. *)
LEMMA ParentsIs ==
    ASSUME Inv
    PROVE  /\ InitTask \in InTable /\ 0 \notin InTable
           /\ \A p \in InTable : proc[p].p_pptr \in Live /\ proc[p].p_pptr # p
           /\ \A p \in InTable : proc[p].p_pptr = 0 <=> p = InitTask
<1>1. InitTask \in InTable /\ 0 \notin InTable
  <2>1. \A nr \in Slot \ {0} : task[nr] # 0
    BY Constants DEF Inv, TableOK
  <2>. QED BY <2>1, Constants DEF Inv, TableOK, InTable
<1>2. PICK depth \in [Proc -> Nat] : Rooted(depth)
  BY DEF Inv, Tree
<1>3. ASSUME NEW p \in InTable, p # InitTask
      PROVE  proc[p].p_pptr \in InTable /\ proc[p].p_pptr # p
  <2>1. proc[p].p_pptr \in InTable /\ depth[proc[p].p_pptr] < depth[p]
    BY <1>2, <1>3 DEF Rooted
  <2>2. p \in Proc /\ depth[p] \in Nat
    BY <1>2, InTableIs DEF Inv
  <2>. QED BY <2>1, <2>2
<1>4. proc[InitTask].p_pptr = 0
  BY DEF Inv, InitOK
<1>. QED BY <1>1, <1>3, <1>4, Constants DEF Live

(* While there is a task besides it, init has children. *)
LEMMA InitHasKids ==
    ASSUME Inv, NEW p \in InTable, p # InitTask
    PROVE  Kids(InitTask) # {}
<1> SUFFICES ASSUME Kids(InitTask) = {} PROVE FALSE
  OBVIOUS
<1>1. PICK depth \in [Proc -> Nat] : Rooted(depth)
  BY DEF Inv, Tree
<1> DEFINE S == {depth[q] : q \in InTable \ {InitTask}}
<1>2. S \subseteq Nat /\ S # {}
  BY <1>1, InTableIs DEF Inv
<1>3. PICK n \in S : \A k \in S : n <= k
  BY <1>2, LeastOf
<1>4. PICK q \in InTable \ {InitTask} : n = depth[q]
  BY <1>3
<1> DEFINE u == proc[q].p_pptr
<1>5. u \in InTable /\ depth[u] < depth[q]
  BY <1>1, <1>4 DEF Rooted
<1>6. u # InitTask
  BY <1>4 DEF Kids
<1>7. depth[u] \in S /\ depth[u] \in Nat /\ n \in Nat
  BY <1>2, <1>3, <1>5, <1>6
<1> HIDE DEF S
<1>. QED BY <1>3, <1>4, <1>5, <1>7

(* p_osptr and p_ysptr are each other's inverse. *)
LEMMA Mirror ==
    ASSUME NEW m, NEW rank, Sorted(rank, m), NEW p \in InTable, NEW q \in Proc
    PROVE  /\ proc[p].p_osptr = q => /\ q \in Kids(proc[p].p_pptr) /\ q # p
                                     /\ rank[q] < rank[p] /\ proc[q].p_ysptr = p
           /\ proc[p].p_ysptr = q => /\ q \in Kids(proc[p].p_pptr) /\ q # p
                                     /\ rank[q] > rank[p] /\ proc[q].p_osptr = p
<1> DEFINE t == proc[p].p_pptr
<1>1. p \in Kids(t) /\ p \in Proc /\ q # NULL
  BY InTableIs, Constants DEF Kids, Sorted, Inv
<1>2. /\ TopOf(rank, Lower(rank, p), proc[p].p_osptr)
      /\ BottomOf(rank, Higher(rank, p), proc[p].p_ysptr)
  BY DEF Sorted, Ranked
<1>3. ASSUME NEW x \in Kids(t), NEW y \in Kids(t), rank[x] = rank[y] PROVE x = y
  BY <1>3 DEF Kids, Sorted, Ranked
<1>4. ASSUME proc[p].p_osptr = q
      PROVE  q \in Kids(t) /\ q # p /\ rank[q] < rank[p] /\ proc[q].p_ysptr = p
  <2>1. q \in Lower(rank, p) /\ \A x \in Lower(rank, p) : rank[x] <= rank[q]
    BY <1>1, <1>2, <1>4 DEF TopOf
  <2>2. q \in Kids(t) /\ rank[q] < rank[p] /\ q \in InTable /\ proc[q].p_pptr = t
    BY <2>1 DEF Lower, Kids
  <2>3. BottomOf(rank, Higher(rank, q), proc[q].p_ysptr)
    BY <2>2 DEF Sorted, Ranked
  <2>4. p \in Higher(rank, q)
    BY <1>1, <2>2, RankIs DEF Higher
  <2> DEFINE y == proc[q].p_ysptr
  <2>5. y \in Higher(rank, q) /\ rank[p] >= rank[y]
    BY <2>3, <2>4 DEF BottomOf
  <2>6. y \in Kids(t) /\ rank[y] > rank[q] /\ y \in Proc
    BY <2>2, <2>5, KidsIs DEF Higher, Sorted, Inv
  <2>7. ~(rank[y] < rank[p])
    <3>1. ASSUME rank[y] < rank[p] PROVE rank[y] <= rank[q]
      BY <2>1, <2>6, <3>1 DEF Lower
    <3>. QED BY <1>1, <2>6, <3>1, RankIs
  <2>8. rank[y] = rank[p]
    BY <1>1, <2>5, <2>6, <2>7, RankIs
  <2>9. y = p
    BY <1>1, <1>3, <2>6, <2>8
  <2>. QED BY <1>1, <2>2, <2>9, RankIs
<1>5. ASSUME proc[p].p_ysptr = q
      PROVE  q \in Kids(t) /\ q # p /\ rank[q] > rank[p] /\ proc[q].p_osptr = p
  <2>1. q \in Higher(rank, p) /\ \A x \in Higher(rank, p) : rank[x] >= rank[q]
    BY <1>1, <1>2, <1>5 DEF BottomOf
  <2>2. q \in Kids(t) /\ rank[q] > rank[p] /\ q \in InTable /\ proc[q].p_pptr = t
    BY <2>1 DEF Higher, Kids
  <2>3. TopOf(rank, Lower(rank, q), proc[q].p_osptr)
    BY <2>2 DEF Sorted, Ranked
  <2>4. p \in Lower(rank, q)
    BY <1>1, <2>2, RankIs DEF Lower
  <2> DEFINE y == proc[q].p_osptr
  <2>5. y \in Lower(rank, q) /\ rank[p] <= rank[y]
    BY <2>3, <2>4 DEF TopOf
  <2>6. y \in Kids(t) /\ rank[y] < rank[q] /\ y \in Proc
    BY <2>2, <2>5, KidsIs DEF Lower, Sorted, Inv
  <2>7. ~(rank[y] > rank[p])
    <3>1. ASSUME rank[y] > rank[p] PROVE rank[y] >= rank[q]
      BY <2>1, <2>6, <3>1 DEF Higher
    <3>. QED BY <1>1, <2>6, <3>1, RankIs
  <2>8. rank[y] = rank[p]
    BY <1>1, <2>5, <2>6, <2>7, RankIs
  <2>9. y = p
    BY <1>1, <1>3, <2>6, <2>8
  <2>. QED BY <1>1, <2>2, <2>9, RankIs
<1>. QED BY <1>4, <1>5

-----------------------------------------------------------------------------
(* The walk along a list: p_cptr, then p_osptr. *)
Older(ps) == [c \in Proc \cup {NULL} |-> IF c = NULL THEN NULL ELSE ps[c].p_osptr]
Walk(first, older) ==
    CHOOSE walk : walk = [n \in 1..NPages |-> IF n = 1 THEN first ELSE older[walk[n - 1]]]

LEMMA LinksAre == \A ps, t : Links(ps, t) = Walk(ps[t].p_cptr, Older(ps))
BY DEF Links, Walk, Older

LEMMA WalkIs ==
    ASSUME NEW first \in Proc \cup {NULL}, NEW older \in [Proc \cup {NULL} -> Proc \cup {NULL}]
    PROVE  /\ Walk(first, older)[1] = first
           /\ \A n \in 2..NPages : Walk(first, older)[n] = older[Walk(first, older)[n - 1]]
<1> DEFINE X == Proc \cup {NULL}
           step == [n \in Nat |-> older]
           Eq(w) == w = [n \in 1..NPages |-> IF n = 1 THEN first ELSE older[w[n - 1]]]
<1>1. NPages \in Nat /\ NPages > 2
  BY ProcessAssumption
<1>2. step \in [Nat -> [X -> X]]
  OBVIOUS
<1>3. PICK f \in [1..NPages -> X] : f[1] = first /\ \A n \in 1..NPages : n # 1 => f[n] = step[n][f[n - 1]]
  <2>1. 1 \in Nat /\ 1 <= NPages /\ first \in X
    BY <1>1
  <2> HIDE DEF X, step
  <2>2. Stepwise(1, NPages, X, first, step)
    BY <1>1, <1>2, <2>1, Steps
  <2>. QED BY <2>2 DEF Stepwise
<1>4. Eq(f)
  <2>1. \A n \in 1..NPages : f[n] = IF n = 1 THEN first ELSE older[f[n - 1]]
    BY <1>1, <1>3
  <2>2. f = [n \in 1..NPages |-> f[n]]
    BY <1>3
  <2>. QED BY <2>1, <2>2
<1>5. Eq(Walk(first, older))
  BY <1>4 DEF Walk
<1>6. 1 \in 1..NPages /\ \A n \in 2..NPages : n \in 1..NPages /\ n # 1
  BY <1>1
<1>. QED BY <1>5, <1>6

(* Two tables with the same links have the same lists. *)
LEMMA SameChildren ==
    ASSUME NEW ps, NEW qs, NEW t \in Proc,
           \A p \in Proc : qs[p].p_cptr = ps[p].p_cptr /\ qs[p].p_osptr = ps[p].p_osptr
    PROVE  Children(qs, t) = Children(ps, t)
<1>1. Older(qs) = Older(ps)
  <2>1. \A c \in Proc \cup {NULL} : (IF c = NULL THEN NULL ELSE qs[c].p_osptr)
                                    = (IF c = NULL THEN NULL ELSE ps[c].p_osptr)
    OBVIOUS
  <2>. QED BY <2>1 DEF Older
<1>2. Links(qs, t) = Links(ps, t)
  BY <1>1, LinksAre
<1>. QED BY <1>2 DEF Children

(* The list of a task's children has each of them once, the youngest first *)
(* and the oldest last.                                                    *)
Listed(rank, t, kids) ==
    /\ kids \in Seq(Proc)
    /\ \A n \in 1..Len(kids) : kids[n] \in Kids(t)
    /\ \A c \in Kids(t) : \E n \in 1..Len(kids) : kids[n] = c
    /\ \A j, n \in 1..Len(kids) : j < n => rank[kids[j]] > rank[kids[n]]
    /\ Len(kids) > 0 => kids[1] = proc[t].p_cptr

LEMMA ChildrenAre ==
    ASSUME NEW m, NEW rank, Sorted(rank, m), NEW t \in Live
    PROVE  Listed(rank, t, Children(proc, t))
<1> DEFINE walk == Links(proc, t)
           W == 1..NPages
<1>1. /\ TypeOK /\ NPages \in Nat /\ NPages > 2 /\ t \in Proc /\ Kids(t) \subseteq Proc /\ Kids(t) \subseteq InTable
      /\ NULL \notin Proc
  BY ProcessAssumption, InTableIs, KidsIs, Constants DEF Sorted, Inv
<1>2. \A p \in Proc : proc[p].p_cptr \in Proc \cup {NULL} /\ proc[p].p_osptr \in Proc \cup {NULL}
  BY <1>1 DEF TypeOK, TaskStruct
<1>3. Older(proc) \in [Proc \cup {NULL} -> Proc \cup {NULL}]
  BY <1>2 DEF Older
<1>4. walk[1] = proc[t].p_cptr /\ \A n \in 2..NPages : walk[n] = Older(proc)[walk[n - 1]]
  <2>1. walk = Walk(proc[t].p_cptr, Older(proc))
    BY LinksAre
  <2>2. proc[t].p_cptr \in Proc \cup {NULL}
    BY <1>1, <1>2
  <2> HIDE DEF walk
  <2>. QED BY <1>3, <2>1, <2>2, WalkIs
<1> HIDE DEF walk
<1>5. TopOf(rank, Kids(t), walk[1])
  BY <1>4 DEF Sorted, Ranked
<1>6. ASSUME NEW c \in Kids(t)
      PROVE  TopOf(rank, {q \in Kids(t) : rank[q] < rank[c]}, Older(proc)[c])
  <2>1. c \in InTable /\ proc[c].p_pptr = t /\ c \in Proc /\ c # NULL
    BY <1>1 DEF Kids
  <2>2. TopOf(rank, Lower(rank, c), proc[c].p_osptr)
    BY <2>1 DEF Sorted, Ranked
  <2>. QED BY <2>1, <2>2 DEF Lower, Older
<1>7. Older(proc)[NULL] = NULL
  BY DEF Older
(* One step. *)
<1>8. ASSUME NEW n \in W, n # 1, walk[n - 1] \in Kids(t) \cup {NULL}
      PROVE  /\ walk[n] \in Kids(t) \cup {NULL}
             /\ walk[n] # NULL => walk[n - 1] # NULL /\ rank[walk[n - 1]] > rank[walk[n]]
             /\ walk[n - 1] # NULL => TopOf(rank, {q \in Kids(t) : rank[q] < rank[walk[n - 1]]}, walk[n])
  <2>1. n \in 2..NPages
    BY <1>1, <1>8
  <2>2. walk[n] = Older(proc)[walk[n - 1]]
    BY <1>4, <2>1
  <2>3. CASE walk[n - 1] = NULL
    BY <1>7, <2>2, <2>3
  <2>4. CASE walk[n - 1] \in Kids(t)
    <3> DEFINE c == walk[n - 1]
               S == {q \in Kids(t) : rank[q] < rank[c]}
    <3>1. TopOf(rank, S, walk[n])
      BY <1>6, <2>2, <2>4
    <3>2. c \in Proc /\ c # NULL
      BY <1>1, <2>4
    <3>3. CASE S = {}
      <4>1. walk[n] = NULL
        BY <3>1, <3>3 DEF TopOf
      <4>. QED BY <3>1, <3>2, <4>1
    <3>4. CASE S # {}
      <4>1. walk[n] \in S
        BY <3>1, <3>4 DEF TopOf
      <4>2. walk[n] \in Kids(t) /\ rank[walk[n]] < rank[c]
        BY <4>1
      <4>3. rank[walk[n]] \in Nat /\ rank[c] \in Nat
        BY <1>1, <3>2, <4>2, RankIs
      <4>. QED BY <3>1, <3>2, <4>2, <4>3
    <3>. QED BY <3>3, <3>4
  <2>. QED BY <1>8, <2>3, <2>4
<1>9. \A n \in W : walk[n] \in Kids(t) \cup {NULL}
  <2> DEFINE G == {n \in W : walk[n] \in Kids(t) \cup {NULL}}
  <2>1. 1 \in G
    BY <1>1, <1>5 DEF TopOf
  <2>2. \A n \in W : n # 1 /\ n - 1 \in G => n \in G
    BY <1>8
  <2>3. 1 \in Nat
    OBVIOUS
  <2> HIDE DEF G
  <2>4. \A n \in W : n \in G
    BY <1>1, <2>1, <2>2, <2>3, UpTo
  <2>. QED BY <2>4 DEF G
(* Several steps. *)
<1>10. ASSUME NEW j \in W
       PROVE  \A n \in j..NPages : n # j /\ walk[n] # NULL => walk[j] # NULL /\ rank[walk[j]] > rank[walk[n]]
  <2> DEFINE G == {n \in j..NPages : n # j /\ walk[n] # NULL => walk[j] # NULL /\ rank[walk[j]] > rank[walk[n]]}
  <2>1. j \in j..NPages => j \in G
    OBVIOUS
  <2>2. ASSUME NEW n \in j..NPages, n # j, n - 1 \in G PROVE n \in G
    <3> SUFFICES ASSUME walk[n] # NULL PROVE walk[j] # NULL /\ rank[walk[j]] > rank[walk[n]]
      OBVIOUS
    <3>1. n \in W /\ n # 1 /\ n - 1 \in W /\ n - 1 \in j..NPages
      BY <1>1, <2>2
    <3>2. walk[n - 1] # NULL /\ rank[walk[n - 1]] > rank[walk[n]]
      BY <1>8, <1>9, <3>1
    <3>3. CASE n - 1 = j
      BY <3>2, <3>3
    <3>4. CASE n - 1 # j
      <4>1. walk[j] # NULL /\ rank[walk[j]] > rank[walk[n - 1]]
        BY <2>2, <3>2, <3>4
      <4>2. rank[walk[j]] \in Nat /\ rank[walk[n - 1]] \in Nat /\ rank[walk[n]] \in Nat
        BY <1>1, <1>9, <3>1, <3>2, <4>1, RankIs
      <4>. QED BY <3>2, <4>1, <4>2
    <3>. QED BY <3>3, <3>4
  <2> HIDE DEF G
  <2>3. \A n \in j..NPages : n \in G
    <3>1. j \in Nat
      BY <1>1
    <3>. QED BY <1>1, <2>1, <2>2, <3>1, UpTo
  <2>. QED BY <2>3 DEF G
(* Where it ends. *)
<1>11. PICK L \in 0..NPages : {n \in W : walk[n] # NULL} = 1..L
  <2> DEFINE S == {n \in 1..(NPages + 1) : n \in W => walk[n] = NULL}
  <2>1. S \in SUBSET Nat /\ NPages + 1 \in S
    BY <1>1
  <2>2. PICK e \in S : \A n \in S : e <= n
    BY <2>1, LeastOf
  <2>3. e \in 1..(NPages + 1) /\ (e \in W => walk[e] = NULL)
    BY <2>2
  <2>4. e - 1 \in 0..NPages
    BY <1>1, <2>3
  <2>5. ASSUME NEW n \in 1..(e - 1) PROVE n \in W /\ walk[n] # NULL
    <3>1. n \in W /\ n \in 1..(NPages + 1) /\ ~(e <= n)
      BY <1>1, <2>3
    <3>. QED BY <2>2, <3>1
  <2>6. ASSUME NEW n \in W, walk[n] # NULL PROVE n \in 1..(e - 1)
    <3>1. n # e
      BY <2>3, <2>6
    <3>2. ASSUME n > e PROVE FALSE
      <4>1. e \in W /\ n \in e..NPages
        BY <1>1, <2>3, <3>2
      <4>. QED BY <1>10, <2>3, <2>6, <3>1, <4>1
    <3>. QED BY <1>1, <2>3, <3>1, <3>2
  <2>. QED BY <2>4, <2>5, <2>6
<1> DEFINE kids == [n \in 1..L |-> walk[n]]
<1>12. Children(proc, t) = kids
  <2>1. Cardinality(1..L) = L
    <3>1. L \in Int /\ 1 \in Int
      BY <1>1
    <3>2. Cardinality(1..L) = IF 1 > L THEN 0 ELSE L - 1 + 1
      BY <3>1, FS_Interval
    <3>. QED BY <1>1, <3>2
  <2>. QED BY <1>11, <2>1 DEF Children, walk
<1>13. \A n \in 1..L : n \in W /\ walk[n] \in Kids(t) /\ walk[n] \in Proc
  BY <1>1, <1>9, <1>11
<1>14. kids \in Seq(Proc) /\ Len(kids) = L /\ \A n \in 1..L : kids[n] = walk[n]
  BY <1>1, <1>13
<1>15. \A j, n \in 1..L : j < n => rank[walk[j]] > rank[walk[n]]
  <2> SUFFICES ASSUME NEW j \in 1..L, NEW n \in 1..L, j < n PROVE rank[walk[j]] > rank[walk[n]]
    OBVIOUS
  <2>1. j \in W /\ n \in j..NPages /\ n # j /\ walk[n] # NULL
    BY <1>1, <1>11
  <2>. QED BY <1>10, <2>1
(* A child that it missed would have all tasks before it. *)
<1>16. ASSUME NEW c \in Kids(t) PROVE \E n \in 1..L : walk[n] = c
  <2> SUFFICES ASSUME \A n \in 1..L : walk[n] # c PROVE FALSE
    OBVIOUS
  <2>0. c \in Proc /\ c # NULL /\ rank[c] \in Nat
    BY <1>1, RankIs
  <2>1. \A n \in W : walk[n] # c
    BY <1>11, <2>0
  <2> DEFINE G == {n \in W : walk[n] \in Kids(t) /\ rank[walk[n]] > rank[c]}
  <2>2. 1 \in G
    <3>1. walk[1] \in Kids(t) /\ rank[c] <= rank[walk[1]]
      BY <1>5 DEF TopOf
    <3>2. rank[walk[1]] # rank[c]
      <4>1. walk[1] # c
        BY <1>1, <2>1
      <4>. QED BY <3>1, <4>1 DEF Kids, Sorted, Ranked
    <3>3. rank[walk[1]] \in Nat
      BY <1>1, <3>1, RankIs
    <3>. QED BY <1>1, <2>0, <3>1, <3>2, <3>3
  <2>3. ASSUME NEW n \in W, n # 1, n - 1 \in G PROVE n \in G
    <3>1. TopOf(rank, {q \in Kids(t) : rank[q] < rank[walk[n - 1]]}, walk[n])
      <4>1. walk[n - 1] \in Kids(t) /\ walk[n - 1] # NULL
        BY <1>1, <2>3
      <4>. QED BY <1>8, <2>3, <4>1
    <3>2. c \in {q \in Kids(t) : rank[q] < rank[walk[n - 1]]}
      <4>1. rank[walk[n - 1]] \in Nat
        BY <1>1, <2>3, RankIs
      <4>. QED BY <2>0, <2>3, <4>1
    <3>3. walk[n] \in Kids(t) /\ rank[c] <= rank[walk[n]]
      BY <3>1, <3>2 DEF TopOf
    <3>4. rank[walk[n]] # rank[c]
      <4>1. walk[n] # c
        BY <2>1
      <4>. QED BY <3>3, <4>1 DEF Kids, Sorted, Ranked
    <3>5. rank[walk[n]] \in Nat
      BY <1>1, <3>3, RankIs
    <3>. QED BY <2>0, <3>3, <3>4, <3>5
  <2>4. \A n \in W : n \in G
    <3>1. 1 \in Nat
      OBVIOUS
    <3> HIDE DEF G
    <3>. QED BY <1>1, <2>2, <2>3, <3>1, UpTo
  <2>5. \A n \in W : walk[n] \in Proc \ {c} /\ walk[n] # NULL
    BY <1>1, <2>1, <2>4
  <2>6. \A j, n \in W : j # n => walk[j] # walk[n]
    <3>1. ASSUME NEW j \in W, NEW n \in W, j < n PROVE walk[j] # walk[n]
      <4>1. n \in j..NPages /\ n # j
        BY <1>1, <3>1
      <4>2. rank[walk[j]] > rank[walk[n]]
        BY <1>10, <2>5, <4>1
      <4>3. rank[walk[j]] \in Nat
        BY <2>5, RankIs
      <4>. QED BY <4>2, <4>3
    <3>2. \A j, n \in W : j # n => j < n \/ n < j
      BY <1>1
    <3>. QED BY <3>1, <3>2
  <2> DEFINE f == [n \in W |-> walk[n]]
  <2>7. f \in [W -> Proc \ {c}] /\ \A j, n \in W : j # n => f[j] # f[n]
    BY <2>5, <2>6
  <2>8. /\ IsFiniteSet(W) /\ Cardinality(W) = NPages
        /\ IsFiniteSet(Proc) /\ Cardinality(Proc) = NPages
    <3>1. 1 \in Int /\ NPages \in Int /\ 0 \in Int /\ NPages - 1 \in Int
      BY <1>1
    <3>2. IsFiniteSet(W) /\ Cardinality(W) = IF 1 > NPages THEN 0 ELSE NPages - 1 + 1
      BY <3>1, FS_Interval
    <3>3. IsFiniteSet(Proc) /\ Cardinality(Proc) = IF 0 > NPages - 1 THEN 0 ELSE NPages - 1 - 0 + 1
      BY <3>1, FS_Interval DEF Proc
    <3>. QED BY <1>1, <3>2, <3>3
  <2>9. IsFiniteSet(Proc \ {c}) /\ Cardinality(Proc \ {c}) = NPages - 1
    BY <2>0, <2>8, FS_RemoveElement
  <2> HIDE DEF f
  <2>10. \E j, n \in W : j # n /\ f[j] = f[n]
    <3> DEFINE T == Proc \ {c}
    <3>1. Cardinality(T) < Cardinality(W)
      BY <1>1, <2>8, <2>9
    <3>2. IsFiniteSet(W) /\ IsFiniteSet(T) /\ f \in [W -> T]
      BY <2>7, <2>8, <2>9
    <3> HIDE DEF T, W
    <3>. QED BY <3>1, <3>2, FS_PigeonHole
  <2>. QED BY <2>7, <2>10
<1>17. L > 0 => kids[1] = proc[t].p_cptr
  BY <1>1, <1>4, <1>14
<1> HIDE DEF kids
<1>. QED BY <1>12, <1>13, <1>14, <1>15, <1>16, <1>17 DEF Listed

-----------------------------------------------------------------------------
NobodyExits ==
    \A p \in Proc : proc'[p].state = "TASK_ZOMBIE" => proc[p].state = "TASK_ZOMBIE"

(* A step that changes neither the table nor the links. *)
LEMMA Kept ==
    ASSUME Inv, TypeOK', ~panic', task' = task, new' = new, Moved(proc, proc', {})
    PROVE  Inv' /\ NobodyExits
<1>1. InTable' = InTable /\ Live' = Live /\ Live \subseteq Proc /\ 0 \in Live /\ InTable \subseteq Live
  BY InTableIs DEF Inv, InTable, Live
<1>2. \A p \in Proc :
          /\ proc'[p].pid = proc[p].pid /\ proc'[p].p_pptr = proc[p].p_pptr
          /\ proc'[p].p_cptr = proc[p].p_cptr /\ proc'[p].p_ysptr = proc[p].p_ysptr
          /\ proc'[p].p_osptr = proc[p].p_osptr
          /\ proc'[p].state = "free" <=> proc[p].state = "free"
          /\ proc'[p].state = "TASK_ZOMBIE" <=> proc[p].state = "TASK_ZOMBIE"
  BY DEF Moved
<1>3. InitOK(proc') /\ NoForks'
  BY DEF Moved, Inv, NoForks
<1>4. TableOK'
  BY <1>1, <1>2 DEF Inv, TableOK
<1>5. Zombies'
  BY <1>1, <1>2 DEF Inv, Zombies
<1>6. UniquePids'
  <2>1. Made' = Made
    BY <1>1 DEF Made
  <2>2. Made \cup {0} \subseteq Proc
    BY <1>1 DEF Made
  <2>. QED BY <1>2, <2>1, <2>2 DEF Inv, UniquePids
<1>7. \A t : Kids(t)' = Kids(t)
  BY <1>1, <1>2 DEF Kids
<1>8. Tree'
  <2>1. PICK depth \in [Proc -> Nat] : Rooted(depth)
    BY DEF Inv, Tree
  <2>2. PICK m \in Nat : \E rank \in [Proc -> 0..m] : Ranked(rank)
    BY DEF Inv, Tree
  <2>3. PICK rank \in [Proc -> 0..m] : Ranked(rank)
    BY <2>2
  <2>4. Rooted(depth)'
    BY <1>1, <1>2, <2>1 DEF Rooted
  <2>5. \A p \in InTable : Lower(rank, p)' = Lower(rank, p) /\ Higher(rank, p)' = Higher(rank, p)
    BY <1>1, <1>2, <1>7 DEF Lower, Higher
  <2>6. Ranked(rank)'
    BY <1>1, <1>2, <1>7, <2>3, <2>5 DEF Ranked
  <2>. QED BY <2>1, <2>2, <2>3, <2>4, <2>6 DEF Tree
<1>9. NobodyExits
  BY <1>2 DEF NobodyExits
<1>. QED BY <1>3, <1>4, <1>5, <1>6, <1>8, <1>9 DEF Inv

(* A step of a task that is there. *)
LEMMA RunsIs ==
    ASSUME Inv, NEW t \in Proc, Runs(t)
    PROVE  t \in InTable /\ t \in Live /\ proc[t] \in TaskStruct
<1>1. t \in Live /\ t # 0
  BY DEF Runs, Inv, TableOK
<1>. QED BY <1>1 DEF Live, Inv, TypeOK

(* Nothing but the task_structs changes, and perhaps the number of calls. *)
LEMMA OnlyMoved ==
    ASSUME Inv, Moved(proc, proc', {}), jobs' \in 0..MaxJobs,
           UNCHANGED <<task, last_pid, pc, arg, new, panic>>
    PROVE  Inv' /\ NobodyExits
<1>1. TypeOK'
  BY DEF Moved, Tables, Inv, TypeOK
<1>. QED BY <1>1, Kept DEF Inv

LEMMA JobCallIs == ASSUME Inv, JobCall PROVE jobs' \in 0..MaxJobs
<1>1. jobs \in Nat /\ MaxJobs \in Nat
  BY ProcessAssumption DEF Inv, TypeOK
<1>. QED BY <1>1 DEF JobCall

LEMMA KillKeeps ==
    ASSUME Inv, NEW p \in InTable \ {InitTask}, NEW sig \in {"SIGKILL", "SIGSTOP", "SIGCONT"}, Kill(p, sig)
    PROVE  Inv' /\ NobodyExits
<1>1. /\ p \in Proc /\ proc \in Tables /\ proc[p] \in TaskStruct /\ sig \in Signals
      /\ TypeOK /\ proc[p].pgrp \in Nat
  BY InTableIs, ProcessAssumption DEF Inv, TypeOK, Tables, Signals, TaskStruct
<1>2. CASE proc' = [proc EXCEPT ![p] = Sent(proc[p], sig)]
  <2>1. Moved(proc, proc', {})
    BY <1>1, <1>2, SentIs, OneMoves
  <2>. QED BY <2>1, OnlyMoved, JobCallIs DEF Kill
<1>3. CASE proc' = KillPg(proc, proc[p].pgrp, sig)
  <2>1. Moved(proc, proc', {})
    BY <1>1, <1>3, KillPgMoves DEF Carried
  <2>. QED BY <2>1, OnlyMoved, JobCallIs DEF Kill
<1>. QED BY <1>2, <1>3 DEF Kill

LEMMA IgnoreSignalKeeps == ASSUME Inv, NEW t \in Proc, IgnoreSignal(t) PROVE Inv' /\ NobodyExits
<1>1. proc \in Tables /\ proc[t] \in TaskStruct /\ jobs \in 0..MaxJobs
  BY DEF Inv, TypeOK, Tables
<1>2. PICK sig : proc' = [proc EXCEPT ![t].signal = @ \ {sig}]
  BY DEF IgnoreSignal
<1> DEFINE r == [proc[t] EXCEPT !.signal = @ \ {sig}]
<1>3. SameTask(proc[t], r) /\ r.pgrp = proc[t].pgrp /\ r.signal \subseteq proc[t].signal
  BY <1>1 DEF SameTask, TaskStruct
<1>4. proc' = [proc EXCEPT ![t] = r]
  BY <1>2
<1> HIDE DEF r
<1>5. Moved(proc, proc', {})
  BY <1>1, <1>3, <1>4, OneMoves
<1>. QED BY <1>1, <1>5, OnlyMoved DEF IgnoreSignal

LEMMA StopBySignalKeeps == ASSUME Inv, NEW t \in Proc, StopBySignal(t) PROVE Inv' /\ NobodyExits
<1>1. /\ proc \in Tables /\ proc[t] \in TaskStruct /\ jobs \in 0..MaxJobs
      /\ t \in InTable /\ proc[t].state = "TASK_RUNNING"
  BY RunsIs DEF Inv, TypeOK, Tables, StopBySignal, Runs
<1> DEFINE father == proc[t].p_pptr
           r == [proc[t] EXCEPT !.state = "TASK_STOPPED", !.exit_code = "SIGSTOP", !.signal = {}]
           stopped == [proc EXCEPT ![t] = r]
<1>2. father \in Proc /\ father # t
  BY <1>1, ParentsIs, InTableIs DEF Inv
<1>3. SameTask(proc[t], r) /\ r.pgrp = proc[t].pgrp /\ r.signal = {}
  BY <1>1 DEF SameTask, TaskStruct, States, Codes, Signals
<1>4. Moved(proc, stopped, {})
  <2> HIDE DEF r
  <2>. QED BY <1>1, <1>3, OneMoves
<1>5. proc' = [stopped EXCEPT ![father].signal = @ \cup {"SIGCHLD"}]
  BY <1>1, <1>2 DEF StopBySignal, Tables
<1> HIDE DEF stopped
<1>6. Moved(stopped, proc', {})
  <2>1. stopped \in Tables
    BY <1>4 DEF Moved
  <2> HIDE DEF father
  <2>. QED BY <1>2, <1>5, <2>1, ParentToldMoves DEF Carried
<1>7. Moved(proc, proc', {})
  <2>1. {} \cup {} = {}
    OBVIOUS
  <2>. QED BY <1>4, <1>6, <2>1, MovedTwice
<1>. QED BY <1>1, <1>7, OnlyMoved DEF StopBySignal

LEMMA SetPgidKeeps ==
    ASSUME Inv, NEW t \in Proc, t # 0, NEW p \in InTable,
           NEW g \in (Groups \cup {proc[p].pid}) \ {0}, SetPgid(t, p, g)
    PROVE  Inv' /\ NobodyExits
<1>1. p \in Proc /\ proc \in Tables /\ proc[p] \in TaskStruct /\ InTable \subseteq Proc
  BY InTableIs DEF Inv, TypeOK, Tables
<1>2. g \in 0..MaxPid
  BY <1>1, ProcessAssumption DEF Groups, Tables, TaskStruct
<1>3. p # InitTask
  BY DEF SetPgid, Inv, InitOK
<1> DEFINE r == [proc[p] EXCEPT !.pgrp = g]
<1>4. SameTask(proc[p], r)
  BY <1>1, <1>2 DEF SameTask, TaskStruct
<1>5. proc' = [proc EXCEPT ![p] = r]
  BY DEF SetPgid
<1> HIDE DEF r
<1>6. Moved(proc, proc', {})
  BY <1>1, <1>3, <1>4, <1>5, OneMoves
<1>. QED BY <1>6, OnlyMoved, JobCallIs DEF SetPgid

LEMMA SetSidKeeps == ASSUME Inv, NEW t \in Proc, SetSid(t) PROVE Inv' /\ NobodyExits
<1>1. proc \in Tables /\ proc[t] \in TaskStruct
  BY DEF Inv, TypeOK, Tables
<1> DEFINE r == [proc[t] EXCEPT !.session = proc[t].pid, !.pgrp = proc[t].pid, !.leader = TRUE]
<1>2. SameTask(proc[t], r)
  BY <1>1 DEF SameTask, TaskStruct
<1>3. proc' = [proc EXCEPT ![t] = r] /\ t # InitTask
  BY <1>1 DEF SetSid, Tables
<1> HIDE DEF r
<1>4. Moved(proc, proc', {})
  BY <1>1, <1>2, <1>3, OneMoves
<1>. QED BY <1>4, OnlyMoved, JobCallIs DEF SetSid

-----------------------------------------------------------------------------
(* waitpid: the children it reports are children. *)
LEMMA ReportedIs ==
    ASSUME Inv, NEW t \in Live, NEW a, NEW n \in FirstReported(t, a)
    PROVE  Children(proc, t)[n] \in Kids(t)
<1>1. PICK m \in Nat : \E rank \in [Proc -> 0..m] : Ranked(rank)
  BY DEF Inv, Tree
<1>2. PICK rank \in [Proc -> 0..m] : Ranked(rank)
  BY <1>1
<1>3. Sorted(rank, m)
  BY <1>1, <1>2 DEF Sorted
<1> DEFINE kids == Children(proc, t)
<1>4. n \in DOMAIN kids
  BY DEF FirstReported, Reported, Asked
<1> HIDE DEF kids
<1>5. Listed(rank, t, kids)
  BY <1>3, ChildrenAre DEF kids
<1>6. kids \in Seq(Proc)
  BY <1>5 DEF Listed
<1>7. n \in 1..Len(kids)
  BY <1>4, <1>6
<1>8. kids[n] \in Kids(t)
  BY <1>5, <1>7 DEF Listed
<1>. QED BY <1>8 DEF kids

Args == [pid : -MaxPid..MaxPid, option : Options]

LEMMA WaitReturnIs ==
    ASSUME Inv, NEW t \in Proc, WaitReturn(t)
    PROVE  /\ pc' \in [Proc -> {"user", "wait", "fork_page", "fork_mem"}]
           /\ arg' \in [Proc -> Args]
<1>1. NoArg \in Args
  BY ProcessAssumption DEF NoArg, Args, Options
<1>. QED BY <1>1 DEF WaitReturn, Inv, TypeOK, Args

LEMMA ReportStoppedKeeps ==
    ASSUME Inv, NEW t \in Proc, NEW p \in InTable, ReportStopped(t, p), UNCHANGED <<last_pid, new, jobs>>
    PROVE  Inv' /\ NobodyExits
<1>1. p \in Proc /\ proc \in Tables /\ proc[p] \in TaskStruct
  BY InTableIs DEF Inv, TypeOK, Tables
<1> DEFINE r == [proc[p] EXCEPT !.exit_code = "0"]
<1>2. SameTask(proc[p], r) /\ r.pgrp = proc[p].pgrp /\ r.signal = proc[p].signal
  BY <1>1 DEF SameTask, TaskStruct, Codes
<1>3. proc' = [proc EXCEPT ![p] = r]
  BY DEF ReportStopped
<1> HIDE DEF r
<1>4. Moved(proc, proc', {})
  BY <1>1, <1>2, <1>3, OneMoves
<1>5. TypeOK' /\ ~panic' /\ task' = task
  BY <1>4, WaitReturnIs DEF ReportStopped, Moved, Tables, Inv, TypeOK, Args
<1>. QED BY <1>4, <1>5, Kept

LEMMA ReportNoneKeeps ==
    ASSUME Inv, NEW t \in Proc, Runs(t), NEW a \in Args, ReportNone(t, a), UNCHANGED <<last_pid, new, jobs>>
    PROVE  Inv' /\ NobodyExits
<1>1. proc \in Tables /\ proc[t] \in TaskStruct /\ proc[t].state = "TASK_RUNNING" /\ ~panic
  BY RunsIs DEF Inv, TypeOK, Tables, Runs
<1>2. CASE WaitReturn(t) /\ UNCHANGED proc
  <2>1. Moved(proc, proc', {})
    BY <1>1, <1>2, MovedNone
  <2>2. TypeOK' /\ ~panic' /\ task' = task
    BY <1>1, <1>2, WaitReturnIs DEF ReportNone, Tables, Inv, TypeOK, Args
  <2>. QED BY <2>1, <2>2, Kept
<1>3. CASE /\ proc' = [proc EXCEPT ![t].state = "TASK_INTERRUPTIBLE"]
           /\ pc' = [pc EXCEPT ![t] = "wait"]
           /\ arg' = [arg EXCEPT ![t] = a]
  <2> DEFINE r == [proc[t] EXCEPT !.state = "TASK_INTERRUPTIBLE"]
  <2>1. SameTask(proc[t], r) /\ r.pgrp = proc[t].pgrp /\ r.signal = proc[t].signal
    BY <1>1 DEF SameTask, TaskStruct, States
  <2>2. proc' = [proc EXCEPT ![t] = r]
    BY <1>3
  <2> HIDE DEF r
  <2>3. Moved(proc, proc', {})
    BY <1>1, <2>1, <2>2, OneMoves
  <2>4. pc' \in [Proc -> {"user", "wait", "fork_page", "fork_mem"}] /\ arg' \in [Proc -> Args]
    BY <1>3 DEF Inv, TypeOK, Args
  <2>5. TypeOK' /\ ~panic' /\ task' = task
    BY <1>1, <2>3, <2>4 DEF ReportNone, Moved, Tables, Inv, TypeOK, Args
  <2>. QED BY <2>3, <2>5, Kept
<1>. QED BY <1>2, <1>3 DEF ReportNone

LEMMA WaitWokenKeeps == ASSUME Inv, NEW t \in Proc, WaitWoken(t) PROVE Inv' /\ NobodyExits
<1>1. proc \in Tables /\ proc[t] \in TaskStruct /\ proc[t].state = "TASK_INTERRUPTIBLE"
  BY DEF Inv, TypeOK, Tables, WaitWoken
<1> DEFINE r == [proc[t] EXCEPT !.state = "TASK_RUNNING"]
<1>2. SameTask(proc[t], r) /\ r.pgrp = proc[t].pgrp /\ r.signal = proc[t].signal
  BY <1>1 DEF SameTask, TaskStruct, States
<1>3. proc' = [proc EXCEPT ![t] = r]
  BY DEF WaitWoken
<1> HIDE DEF r
<1>4. Moved(proc, proc', {})
  BY <1>1, <1>2, <1>3, OneMoves
<1>5. pc' \in [Proc -> {"user", "wait", "fork_page", "fork_mem"}] /\ arg' \in [Proc -> Args]
  <2>1. CASE WaitReturn(t)
    BY <2>1, WaitReturnIs
  <2>2. CASE UNCHANGED <<pc, arg>>
    BY <2>2 DEF Inv, TypeOK, Args
  <2>. QED BY <2>1, <2>2 DEF WaitWoken
<1>6. TypeOK' /\ ~panic' /\ task' = task /\ new' = new
  BY <1>4, <1>5 DEF WaitWoken, Moved, Tables, Inv, TypeOK, Args
<1>. QED BY <1>4, <1>6, Kept

-----------------------------------------------------------------------------
(* fork: task p, with slot s and number pid, is linked in front of t's     *)
(* children.                                                               *)
Forked(t, p, s, pid, os) ==
    /\ s \in Slot \ {0, InitTask} /\ task[s] = NULL
    /\ p \in Proc /\ p \notin Live
    /\ pid \notin PidsInUse
    /\ os = proc[t].p_cptr
    /\ task' = [task EXCEPT ![s] = p]
    /\ proc' \in Tables
    /\ /\ proc'[p].pid = pid /\ proc'[p].state = "TASK_RUNNING" /\ proc'[p].p_pptr = t
       /\ proc'[p].p_cptr = NULL /\ proc'[p].p_ysptr = NULL /\ proc'[p].p_osptr = os
    /\ \A q \in Proc \ {p} :
          /\ proc'[q].pid = proc[q].pid /\ proc'[q].state = proc[q].state
          /\ proc'[q].pgrp = proc[q].pgrp /\ proc'[q].signal = proc[q].signal
          /\ proc'[q].p_pptr = proc[q].p_pptr /\ proc'[q].p_osptr = proc[q].p_osptr
          /\ proc'[q].p_cptr = IF q = t THEN p ELSE proc[q].p_cptr
          /\ proc'[q].p_ysptr = IF q = os THEN p ELSE proc[q].p_ysptr

(* The first child is a child. *)
LEMMA FirstChildIs ==
    ASSUME Inv, NEW t \in Live
    PROVE  /\ proc[t].p_cptr \in Kids(t) \cup {NULL}
           /\ proc[t].p_cptr = NULL <=> Kids(t) = {}
<1>1. PICK m \in Nat : \E rank \in [Proc -> 0..m] : Ranked(rank)
  BY DEF Inv, Tree
<1>2. PICK rank \in [Proc -> 0..m] : Ranked(rank)
  BY <1>1
<1>3. TopOf(rank, Kids(t), proc[t].p_cptr)
  BY <1>2 DEF Ranked
<1>4. NULL \notin Kids(t)
  BY KidsIs, Constants DEF Inv
<1>. QED BY <1>3, <1>4 DEF TopOf

LEMMA ForkIs ==
    ASSUME Inv, NEW t \in Proc, Runs(t), Fork(t)
    PROVE  \E p, s, pid, os : Forked(t, p, s, pid, os)
<1> DEFINE s == FreeSlot
           p == NewPage
           os == proc[t].p_cptr
<1>1. s \in Slot \ {0, InitTask} /\ task[s] = NULL
  <2>1. FreeSlots \in SUBSET Nat /\ FreeSlots # {}
    BY Constants DEF FreeSlots, Fork
  <2>2. \E nr \in FreeSlots : \A m \in FreeSlots : nr <= m
    BY <2>1, LeastOf
  <2>3. s \in FreeSlots
    BY <2>2 DEF FreeSlot
  <2>. QED BY <2>3, Constants DEF FreeSlots, Inv, TableOK
<1>2. p \in Proc /\ p \notin Live
  <2>1. FreePages \in SUBSET Nat /\ FreePages # {}
    BY Constants DEF FreePages, Fork
  <2>2. \E q \in FreePages : \A m \in FreePages : q <= m
    BY <2>1, LeastOf
  <2>3. p \in FreePages
    BY <2>2 DEF NewPage
  <2>. QED BY <2>3 DEF FreePages, Inv, TableOK
<1> HIDE DEF s, p
<1>3. PICK pid \in NewPids : proc' = Linked([proc EXCEPT ![p] = Copied(proc[t], pid)], t, p)
  BY DEF Fork, p
<1>4. pid \in 0..MaxPid /\ pid \notin PidsInUse
  BY ProcessAssumption DEF NewPids, FreePids
<1>5. t \in Live /\ t \in InTable /\ InTable \subseteq Live /\ proc \in Tables
  BY RunsIs DEF Live, Inv, TypeOK, Tables
<1>6. os # t /\ os # p /\ os \in Proc \cup {NULL} /\ t # p
  BY <1>2, <1>5, FirstChildIs, KidsIs, ParentsIs, Constants DEF Inv
<1> DEFINE c == Copied(proc[t], pid)
           ps == [proc EXCEPT ![p] = c]
           r == [c EXCEPT !.p_pptr = t, !.p_cptr = NULL, !.p_ysptr = NULL,
                          !.p_osptr = os, !.state = "TASK_RUNNING"]
<1>7. c \in TaskStruct /\ c.pid = pid
  <2>1. proc[t] \in TaskStruct
    BY <1>5 DEF Tables
  <2>. QED BY <1>4, <2>1 DEF Copied, TaskStruct, States
<1> HIDE DEF c
<1>8. ps[t].p_cptr = os /\ ps[p] = c /\ \A q \in Proc : q # p => ps[q] = proc[q]
  BY <1>2, <1>5, <1>6 DEF Tables
<1> HIDE DEF ps
<1>9. proc' = [q \in Proc |-> CASE q = p -> [ps[p] EXCEPT !.p_pptr = t, !.p_cptr = NULL, !.p_ysptr = NULL,
                                                          !.p_osptr = os, !.state = "TASK_RUNNING"]
                                [] q = t -> [ps[t] EXCEPT !.p_cptr = p]
                                [] q = os -> [ps[os] EXCEPT !.p_ysptr = p]
                                [] OTHER -> ps[q]]
  <2>1. proc' = Linked(ps, t, p)
    BY <1>3 DEF ps, c
  <2> HIDE DEF os
  <2>. QED BY <1>8, <2>1 DEF Linked
<1>10. proc'[p] = r
  <2> HIDE DEF os
  <2>. QED BY <1>2, <1>6, <1>8, <1>9
<1>11. /\ r \in TaskStruct /\ r.pid = pid /\ r.state = "TASK_RUNNING" /\ r.p_pptr = t
       /\ r.p_cptr = NULL /\ r.p_ysptr = NULL /\ r.p_osptr = os
  BY <1>6, <1>7 DEF TaskStruct, States
<1> HIDE DEF r, os
<1>12. ASSUME NEW q \in Proc \ {p}
       PROVE  /\ proc'[q] \in TaskStruct
              /\ proc'[q].pid = proc[q].pid /\ proc'[q].state = proc[q].state
              /\ proc'[q].pgrp = proc[q].pgrp /\ proc'[q].signal = proc[q].signal
              /\ proc'[q].p_pptr = proc[q].p_pptr /\ proc'[q].p_osptr = proc[q].p_osptr
              /\ proc'[q].p_cptr = IF q = t THEN p ELSE proc[q].p_cptr
              /\ proc'[q].p_ysptr = IF q = os THEN p ELSE proc[q].p_ysptr
  <2>1. proc[q] \in TaskStruct
    BY <1>5 DEF Tables
  <2>2. CASE q = t
    <3>1. proc'[q] = [proc[q] EXCEPT !.p_cptr = p]
      BY <1>6, <1>8, <1>9, <2>2
    <3>. QED BY <1>2, <1>6, <2>1, <2>2, <3>1 DEF TaskStruct
  <2>3. CASE q = os
    <3>1. proc'[q] = [proc[q] EXCEPT !.p_ysptr = p]
      BY <1>6, <1>8, <1>9, <2>3
    <3>. QED BY <1>2, <1>6, <2>1, <2>3, <3>1 DEF TaskStruct
  <2>4. CASE q # t /\ q # os
    <3>1. proc'[q] = proc[q]
      BY <1>8, <1>9, <2>4
    <3>. QED BY <2>1, <2>4, <3>1
  <2>. QED BY <2>2, <2>3, <2>4
<1>13. proc' \in Tables
  <2>1. \A q \in Proc : proc'[q] \in TaskStruct
    BY <1>10, <1>11, <1>12
  <2>2. proc' = [q \in Proc |-> proc'[q]]
    BY <1>9
  <2>. QED BY <2>1, <2>2 DEF Tables
<1>14. task' = [task EXCEPT ![s] = p]
  BY DEF Fork, s, p
<1>15. Forked(t, p, s, pid, os)
  BY <1>1, <1>2, <1>4, <1>10, <1>11, <1>12, <1>13, <1>14 DEF Forked, os
<1>. QED BY <1>15

LEMMA ForkKeeps == ASSUME Inv, NEW t \in Proc, Runs(t), Fork(t) PROVE Inv' /\ NobodyExits
<1>1. PICK p, s, pid, os : Forked(t, p, s, pid, os)
  BY ForkIs
<1>2. t \in InTable /\ t \in Live /\ Live \subseteq Proc /\ InTable \subseteq Live /\ 0 \in Live /\ InitTask \in Live
  BY RunsIs, InTableIs, ParentsIs DEF Live, Inv
<1>3. /\ s \in Slot /\ s # 0 /\ s # InitTask /\ task[s] = NULL /\ p \in Proc /\ p \notin Live /\ p # NULL
      /\ task \in [Slot -> Proc \cup {NULL}]
  BY <1>1, Constants DEF Forked, Inv, TypeOK
<1>4. \A nr \in Slot : task'[nr] = IF nr = s THEN p ELSE task[nr]
  BY <1>1, <1>3 DEF Forked
<1>5. InTable' = InTable \cup {p} /\ Live' = Live \cup {p}
  <2>1. InTable' = InTable \cup {p}
    BY <1>3, <1>4 DEF InTable
  <2>. QED BY <2>1 DEF Live
<1>6. TypeOK'
  <2>1. task' \in [Slot -> Proc \cup {NULL}] /\ proc' \in [Proc -> TaskStruct]
    BY <1>1, <1>3 DEF Forked, Tables
  <2>. QED BY <2>1 DEF Fork, Inv, TypeOK
<1>7. ~panic' /\ NoForks'
  BY DEF Fork, Inv, NoForks
<1>8. TableOK'
  <2>1. task'[0] = 0 /\ task'[InitTask] = InitTask
    BY <1>3, <1>4, Constants DEF Inv, TableOK
  <2>2. ASSUME NEW m \in Slot, NEW n \in Slot, task'[m] = task'[n], task'[m] # NULL PROVE m = n
    <3>1. \A nr \in Slot : task[nr] # p
      <4>1. \A nr \in Slot : task[nr] \in Live \cup {NULL}
        BY DEF InTable, Live, Inv, TableOK
      <4>. QED BY <1>3, <4>1
    <3>. QED BY <1>4, <2>2, <3>1 DEF Inv, TableOK
  <2>3. \A q \in Proc : q \in Live' <=> proc'[q].state # "free"
    BY <1>1, <1>3, <1>5 DEF Forked, Inv, TableOK
  <2>. QED BY <2>1, <2>2, <2>3 DEF TableOK
<1>9. \A q \in Live :
          /\ q \in Proc /\ q # p
          /\ proc'[q].pid = proc[q].pid /\ proc'[q].state = proc[q].state
          /\ proc'[q].p_pptr = proc[q].p_pptr /\ proc'[q].p_osptr = proc[q].p_osptr
          /\ proc'[q].p_cptr = IF q = t THEN p ELSE proc[q].p_cptr
          /\ proc'[q].p_ysptr = IF q = os THEN p ELSE proc[q].p_ysptr
  BY <1>1, <1>2, <1>3 DEF Forked
<1>10. /\ proc'[p].pid = pid /\ proc'[p].state = "TASK_RUNNING" /\ proc'[p].p_pptr = t
       /\ proc'[p].p_cptr = NULL /\ proc'[p].p_ysptr = NULL /\ proc'[p].p_osptr = os
  BY <1>1 DEF Forked
<1>11. InitOK(proc')
  BY <1>1, <1>2, <1>3 DEF Forked, Inv, InitOK
<1>12. Zombies'
  <2>1. proc[t].state = "TASK_RUNNING"
    BY DEF Runs
  <2>. QED BY <1>2, <1>5, <1>9, <1>10, <2>1 DEF Inv, Zombies
<1>13. UniquePids'
  <2>1. Made = InTable /\ Made' = InTable \cup {p}
    <3>1. {new[u].page : u \in Proc} \subseteq {NULL} /\ {new'[u].page : u \in Proc} \subseteq {NULL}
      BY <1>7 DEF Inv, NoForks, NoFork
    <3>2. NULL \notin InTable
      BY DEF InTable
    <3>. QED BY <1>3, <1>5, <3>1, <3>2 DEF Made
  <2>2. \A q \in Live : proc[q].pid # pid
    BY <1>1 DEF Forked, PidsInUse, Live
  <2>3. Made \cup {0} = Live /\ Made' \cup {0} = Live \cup {p}
    BY <2>1 DEF Live
  <2>. QED BY <1>9, <1>10, <2>2, <2>3 DEF UniquePids, Inv
<1>14. /\ \A u : u # t /\ u \in Live => Kids(u)' = Kids(u)
       /\ Kids(t)' = Kids(t) \cup {p} /\ Kids(p)' = {}
  <2>1. \A q \in InTable : proc[q].p_pptr \in Live
    BY ParentsIs
  <2>. QED BY <1>2, <1>3, <1>5, <1>9, <1>10, <2>1 DEF Kids
<1>15. Tree'
  <2>1. PICK depth \in [Proc -> Nat] : Rooted(depth)
    BY DEF Inv, Tree
  <2>2. PICK m \in Nat : \E rank \in [Proc -> 0..m] : Ranked(rank)
    BY DEF Inv, Tree
  <2>3. PICK rank \in [Proc -> 0..m] : Ranked(rank)
    BY <2>2
  <2> DEFINE deeper == [depth EXCEPT ![p] = depth[t] + 1]
             higher == [rank EXCEPT ![p] = m + 1]
  <2>4. deeper \in [Proc -> Nat] /\ Rooted(deeper)'
    <3>1. depth[t] \in Nat
      BY <1>2
    <3>2. deeper \in [Proc -> Nat] /\ \A q \in Proc : deeper[q] = IF q = p THEN depth[t] + 1 ELSE depth[q]
      BY <1>3, <3>1
    <3> HIDE DEF deeper
    <3>3. deeper[InitTask] = 0
      BY <1>2, <1>3, <2>1, <3>2 DEF Rooted
    <3>4. ASSUME NEW q \in InTable', q # InitTask
          PROVE  proc'[q].p_pptr \in InTable' /\ deeper[proc'[q].p_pptr] < deeper[q]
      <4>1. CASE q = p
        BY <1>2, <1>3, <1>5, <1>10, <3>1, <3>2, <4>1
      <4>2. CASE q \in InTable
        <5>1. proc'[q].p_pptr = proc[q].p_pptr /\ q # p /\ q \in Proc
          BY <1>2, <1>9, <4>2
        <5>2. proc[q].p_pptr \in InTable /\ depth[proc[q].p_pptr] < depth[q]
          BY <2>1, <3>4, <4>2 DEF Rooted
        <5>3. proc[q].p_pptr # p /\ proc[q].p_pptr \in Proc
          BY <1>2, <1>3, <5>2
        <5>. QED BY <1>5, <3>2, <5>1, <5>2, <5>3
      <4>. QED BY <1>5, <3>4, <4>1, <4>2
    <3>. QED BY <3>2, <3>3, <3>4 DEF Rooted
  <2>5. higher \in [Proc -> 0..(m + 1)] /\ higher[p] = m + 1 /\ \A q \in Proc : q # p => higher[q] = rank[q]
    BY <1>3
  <2> HIDE DEF higher
  <2>6. \A q \in Live : rank[q] \in Nat /\ rank[q] <= m /\ higher[q] = rank[q] /\ q # p
    BY <1>2, <1>3, <2>5
  <2>7. \A u : Kids(u) \subseteq Live /\ \A q \in Kids(u) : q \in InTable /\ proc[q].p_pptr = u
    BY <1>2 DEF Kids
  <2>8. ASSUME NEW x \in InTable', NEW y \in InTable', proc'[x].p_pptr = proc'[y].p_pptr, higher[x] = higher[y]
        PROVE  x = y
    <3>1. CASE x = p
      BY <1>2, <1>5, <2>2, <2>5, <2>6, <2>8, <3>1
    <3>2. CASE y = p
      BY <1>2, <1>5, <2>2, <2>5, <2>6, <2>8, <3>2
    <3>3. CASE x # p /\ y # p
      <4>1. x \in InTable /\ y \in InTable
        BY <1>5, <3>3
      <4>2. proc[x].p_pptr = proc[y].p_pptr /\ rank[x] = rank[y]
        BY <1>2, <1>9, <2>6, <2>8, <4>1
      <4>. QED BY <2>3, <4>1, <4>2 DEF Ranked
    <3>. QED BY <3>1, <3>2, <3>3
  <2>9. os \in Kids(t) \cup {NULL} /\ (os = NULL <=> Kids(t) = {}) /\ TopOf(rank, Kids(t), os)
    <3>1. os = proc[t].p_cptr
      BY <1>1 DEF Forked
    <3>. QED BY <1>2, <2>3, <3>1, FirstChildIs DEF Ranked
  <2>10. ASSUME NEW u \in Live' PROVE TopOf(higher, Kids(u)', proc'[u].p_cptr)
    <3>1. CASE u = p
      BY <1>10, <1>14, <3>1 DEF TopOf
    <3>2. CASE u = t
      <4>1. proc'[t].p_cptr = p
        BY <1>2, <1>9
      <4>. QED BY <1>14, <2>2, <2>5, <2>6, <2>7, <3>2, <4>1 DEF TopOf
    <3>3. CASE u # p /\ u # t
      <4>1. u \in Live /\ Kids(u)' = Kids(u) /\ proc'[u].p_cptr = proc[u].p_cptr
        BY <1>5, <1>9, <1>14, <3>3
      <4>2. TopOf(rank, Kids(u), proc[u].p_cptr)
        BY <2>3, <4>1 DEF Ranked
      <4>. QED BY <2>6, <2>7, <4>1, <4>2 DEF TopOf
    <3>. QED BY <3>1, <3>2, <3>3
  <2>11. /\ Lower(higher, p)' = Kids(t) /\ Higher(higher, p)' = {}
    BY <1>10, <1>14, <2>2, <2>5, <2>6, <2>7 DEF Lower, Higher
  <2>12. ASSUME NEW q \in InTable
         PROVE  /\ Lower(higher, q)' = Lower(rank, q)
                /\ Higher(higher, q)' = Higher(rank, q) \cup (IF proc[q].p_pptr = t THEN {p} ELSE {})
    <3>1. proc'[q].p_pptr = proc[q].p_pptr /\ proc[q].p_pptr \in Live /\ q \in Live
      BY <1>2, <1>9, ParentsIs
    <3>2. Kids(proc[q].p_pptr)' = Kids(proc[q].p_pptr) \cup (IF proc[q].p_pptr = t THEN {p} ELSE {})
      BY <1>14, <3>1
    <3>. QED BY <2>2, <2>5, <2>6, <2>7, <3>1, <3>2 DEF Lower, Higher
  <2>13. ASSUME NEW q \in InTable'
         PROVE  /\ TopOf(higher, Lower(higher, q)', proc'[q].p_osptr)
                /\ BottomOf(higher, Higher(higher, q)', proc'[q].p_ysptr)
    <3>1. CASE q = p
      <4>1. TopOf(higher, Kids(t), os)
        BY <2>6, <2>7, <2>9 DEF TopOf
      <4>. QED BY <1>10, <2>11, <3>1, <4>1 DEF BottomOf
    <3>2. CASE q \in InTable
      <4>1. TopOf(rank, Lower(rank, q), proc[q].p_osptr) /\ BottomOf(rank, Higher(rank, q), proc[q].p_ysptr)
        BY <2>3, <3>2 DEF Ranked
      <4>2. Lower(rank, q) \subseteq Live /\ Higher(rank, q) \subseteq Live
        BY <2>7 DEF Lower, Higher
      <4>3. proc'[q].p_osptr = proc[q].p_osptr /\ proc'[q].p_ysptr = IF q = os THEN p ELSE proc[q].p_ysptr
        BY <1>2, <1>9, <3>2
      <4>4. TopOf(higher, Lower(higher, q)', proc'[q].p_osptr)
        BY <2>6, <2>12, <3>2, <4>1, <4>2, <4>3 DEF TopOf
      <4>5. CASE proc[q].p_pptr # t
        <5>1. q # os
          BY <1>2, <1>3, <2>7, <2>9, <3>2, <4>5, Constants
        <5>. QED BY <2>6, <2>12, <3>2, <4>1, <4>2, <4>3, <4>4, <4>5, <5>1 DEF BottomOf
      <4>6. CASE q = os
        <5>1. q \in Kids(t) /\ \A c \in Kids(t) : rank[c] <= rank[q]
          BY <1>2, <2>9, <3>2, <4>6, Constants DEF TopOf
        <5>2. Higher(rank, q) = {} /\ proc[q].p_pptr = t
          BY <1>2, <2>6, <2>7, <3>2, <5>1 DEF Higher
        <5>3. Higher(higher, q)' = {p}
          BY <2>12, <3>2, <5>2
        <5>. QED BY <2>5, <4>3, <4>4, <4>6, <5>3 DEF BottomOf
      <4>7. CASE proc[q].p_pptr = t /\ q # os
        <5>1. q \in Kids(t) /\ os \in Kids(t) /\ rank[q] <= rank[os]
          BY <2>9, <3>2, <4>7 DEF Kids, TopOf
        <5>2. rank[q] # rank[os]
          BY <2>3, <2>7, <4>7, <5>1 DEF Ranked
        <5>3. os \in Higher(rank, q)
          BY <2>6, <2>7, <4>7, <5>1, <5>2 DEF Higher
        <5>4. proc[q].p_ysptr \in Higher(rank, q) /\ \A c \in Higher(rank, q) : rank[c] >= rank[proc[q].p_ysptr]
          BY <4>1, <5>3 DEF BottomOf
        <5>5. Higher(higher, q)' = Higher(rank, q) \cup {p}
          BY <2>12, <3>2, <4>7
        <5>6. rank[proc[q].p_ysptr] \in Nat /\ rank[proc[q].p_ysptr] <= m /\ higher[proc[q].p_ysptr] = rank[proc[q].p_ysptr]
          BY <2>6, <4>2, <5>4
        <5>7. \A c \in Higher(rank, q) \cup {p} : higher[c] >= higher[proc[q].p_ysptr]
          BY <2>2, <2>5, <2>6, <4>2, <5>4, <5>6
        <5>8. BottomOf(higher, Higher(higher, q)', proc[q].p_ysptr)
          BY <5>4, <5>5, <5>7 DEF BottomOf
        <5>. QED BY <4>3, <4>4, <4>7, <5>8
      <4>. QED BY <4>5, <4>6, <4>7
    <3>. QED BY <1>5, <3>1, <3>2
  <2>14. Ranked(higher)'
    BY <2>8, <2>10, <2>13 DEF Ranked
  <2>15. m + 1 \in Nat
    BY <2>2
  <2> HIDE DEF deeper
  <2>. QED BY <2>4, <2>5, <2>14, <2>15 DEF Tree
<1>16. NobodyExits
  BY <1>1, <1>3 DEF Forked, NobodyExits
<1>. QED BY <1>6, <1>7, <1>8, <1>11, <1>12, <1>13, <1>15, <1>16 DEF Inv

-----------------------------------------------------------------------------
(* exit: the tasks in Kids(t), of whom last is the oldest, go over to init *)
(* in front of its own, of whom old is the youngest.                       *)
Exited(t, first, last, old) ==
    /\ proc' \in Tables /\ InitOK(proc')
    /\ \A q \in Proc :
          /\ proc'[q].pid = proc[q].pid
          /\ proc'[q].state = "free" <=> proc[q].state = "free"
          /\ proc'[q].state = "TASK_ZOMBIE" <=> proc[q].state = "TASK_ZOMBIE" \/ q = t
          /\ proc'[q].p_pptr = IF q \in Kids(t) THEN InitTask ELSE proc[q].p_pptr
          /\ proc'[q].p_osptr = IF Kids(t) # {} /\ q = last THEN old ELSE proc[q].p_osptr
          /\ proc'[q].p_ysptr = IF Kids(t) # {} /\ q = old THEN last ELSE proc[q].p_ysptr
          /\ proc'[q].p_cptr = IF q = t THEN NULL
                               ELSE IF Kids(t) # {} /\ q = InitTask THEN first ELSE proc[q].p_cptr

LEMMA SplicedIs ==
    ASSUME NEW ps \in Tables, NEW first \in Proc, NEW last \in Proc, NEW t \in Proc \ {InitTask},
           NEW old, old = ps[InitTask].p_cptr
    PROVE  /\ Spliced(ps, first, last, t) \in Tables
           /\ InitOK(ps) => InitOK(Spliced(ps, first, last, t))
           /\ \A q \in Proc : LET r == Spliced(ps, first, last, t)[q] IN
                 /\ r.pid = ps[q].pid /\ r.state = ps[q].state /\ r.p_pptr = ps[q].p_pptr
                 /\ r.pgrp = ps[q].pgrp /\ r.session = ps[q].session
                 /\ r.p_osptr = IF q = last THEN old ELSE ps[q].p_osptr
                 /\ r.p_ysptr = IF q = old THEN last ELSE ps[q].p_ysptr
                 /\ r.p_cptr = IF q = t THEN NULL ELSE IF q = InitTask THEN first ELSE ps[q].p_cptr
<1> DEFINE qs == Spliced(ps, first, last, t)
<1>1. old \in Proc \cup {NULL} /\ InitTask \in Proc
  BY Constants DEF Tables, TaskStruct
<1>2. ASSUME NEW q \in Proc
      PROVE  /\ qs[q] \in TaskStruct
             /\ qs[q].pid = ps[q].pid /\ qs[q].state = ps[q].state /\ qs[q].p_pptr = ps[q].p_pptr
             /\ qs[q].pgrp = ps[q].pgrp /\ qs[q].session = ps[q].session /\ qs[q].signal = ps[q].signal
             /\ qs[q].p_osptr = IF q = last THEN old ELSE ps[q].p_osptr
             /\ qs[q].p_ysptr = IF q = old THEN last ELSE ps[q].p_ysptr
             /\ qs[q].p_cptr = IF q = t THEN NULL ELSE IF q = InitTask THEN first ELSE ps[q].p_cptr
  <2> DEFINE os == IF q = last THEN old ELSE ps[q].p_osptr
             ys == IF q = old THEN last ELSE ps[q].p_ysptr
             c == IF q = t THEN NULL ELSE IF q = InitTask THEN first ELSE ps[q].p_cptr
  <2>1. ps[q] \in TaskStruct
    BY DEF Tables
  <2>2. os \in Proc \cup {NULL} /\ ys \in Proc \cup {NULL} /\ c \in Proc \cup {NULL}
    BY <1>1, <2>1 DEF TaskStruct
  <2>3. qs[q] = [ps[q] EXCEPT !.p_osptr = os, !.p_ysptr = ys, !.p_cptr = c]
    <3>1. qs[q] = [ps[q] EXCEPT !.p_osptr = IF q = last THEN old ELSE @,
                                !.p_ysptr = IF q = old THEN last ELSE @,
                                !.p_cptr = CASE q = InitTask -> first [] q = t -> NULL [] OTHER -> @]
      BY DEF Spliced
    <3>2. (CASE q = InitTask -> first [] q = t -> NULL [] OTHER -> ps[q].p_cptr) = c
      OBVIOUS
    <3>. QED BY <2>1, <3>1, <3>2 DEF TaskStruct
  <2> HIDE DEF os, ys, c, qs
  <2>4. /\ qs[q] \in TaskStruct
        /\ qs[q].pid = ps[q].pid /\ qs[q].state = ps[q].state /\ qs[q].p_pptr = ps[q].p_pptr
        /\ qs[q].pgrp = ps[q].pgrp /\ qs[q].session = ps[q].session /\ qs[q].signal = ps[q].signal
        /\ qs[q].p_osptr = os /\ qs[q].p_ysptr = ys /\ qs[q].p_cptr = c
    BY <2>1, <2>2, <2>3 DEF TaskStruct
  <2>. QED BY <2>4 DEF os, ys, c
<1>3. qs = [q \in Proc |-> qs[q]]
  BY DEF Spliced
<1> HIDE DEF qs
<1>4. qs \in Tables
  BY <1>2, <1>3 DEF Tables
<1>5. InitOK(ps) => InitOK(qs)
  BY <1>1, <1>2 DEF InitOK
<1>. QED BY <1>2, <1>4, <1>5 DEF qs

(* The parent that a task will have is the same but for those adopted. *)
Kin(ps, qs, S) ==
    \A p \in Proc : /\ qs[p].pid = ps[p].pid
                    /\ qs[p].p_pptr = IF p \in S THEN InitTask ELSE ps[p].p_pptr
                    /\ qs[p].state = "TASK_ZOMBIE" <=> ps[p].state = "TASK_ZOMBIE"

(* The tables that do_exit goes through: t is a zombie, its group has been *)
(* looked at, its parent has been told, its children have been adopted.    *)
ExitGoes(t, zombie, left, told, kids, adopted) ==
    /\ \A q \in Proc : /\ zombie[q].pid = proc[q].pid /\ zombie[q].p_pptr = proc[q].p_pptr
                       /\ zombie[q].pgrp = proc[q].pgrp /\ zombie[q].session = proc[q].session
                       /\ zombie[q].state = IF q = t THEN "TASK_ZOMBIE" ELSE proc[q].state
    /\ LET father == zombie[t].p_pptr IN
       left = IF zombie[father].pgrp # zombie[t].pgrp /\ zombie[father].session = zombie[t].session
              THEN Hangup(zombie, zombie[t].pgrp) ELSE zombie
    /\ zombie \in Tables /\ Carried(zombie, left, {}) /\ Carried(left, told, {})
    /\ kids \in Seq(Proc) /\ Kids(t) = {kids[n] : n \in 1..Len(kids)}
    /\ AdoptedInTurn(t, told, kids, adopted)
    /\ Kin(adopted[Len(kids)], proc', {}) /\ Calm(adopted[Len(kids)], proc')

LEMMA ExitIs ==
    ASSUME NEW m, NEW rank, Sorted(rank, m), NEW t \in InTable \ {InitTask},
           NEW code \in {"exit", "SIGHUP", "SIGKILL"}, NEW fg \in Nat, DoExit(t, code, fg)
    PROVE  /\ ~panic'
           /\ \E last : /\ Kids(t) # {} => last \in Kids(t) /\ \A c \in Kids(t) : rank[c] >= rank[last]
                       /\ Exited(t, proc[t].p_cptr, last, proc[InitTask].p_cptr)
           /\ \E zombie, left, told, kids, adopted : ExitGoes(t, zombie, left, told, kids, adopted)
<1> DEFINE zombie == [proc EXCEPT ![t].state = "TASK_ZOMBIE", ![t].exit_code = code,
                                  ![t].signal = IF code \in Signals THEN @ \ {code} ELSE @]
           father == zombie[t].p_pptr
           left == IF zombie[father].pgrp # zombie[t].pgrp /\ zombie[father].session = zombie[t].session
                   THEN Hangup(zombie, zombie[t].pgrp) ELSE zombie
           told == [left EXCEPT ![father].signal = @ \cup {"SIGCHLD"}]
           kids == Children(told, t)
           all == AllAdopted(t, told, kids)
           spliced == IF kids = <<>> THEN told ELSE Spliced(all, kids[1], kids[Len(kids)], t)
           old == proc[InitTask].p_cptr
           first == proc[t].p_cptr
           last == kids[Len(kids)]
<1>1. /\ proc' = IF fg = 0 THEN spliced ELSE KillPg(spliced, fg, "SIGHUP")
      /\ panic' = (panic \/ (kids # <<>> /\ told[InitTask].p_cptr = NULL))
  BY DEF DoExit
<1>2. /\ TypeOK /\ ~panic /\ Inv /\ t \in Proc /\ t \in Live /\ proc \in Tables /\ proc[t] \in TaskStruct
      /\ InitTask \in Proc /\ InitTask \in Live /\ InitOK(proc) /\ proc[t].state # "free" /\ t # 0
  <2>1. Inv /\ TypeOK /\ ~panic /\ InitOK(proc) /\ proc \in Tables
    BY DEF Sorted, Inv, TypeOK, Tables
  <2>2. t \in Proc /\ t \in Live /\ InitTask \in Proc /\ InitTask \in Live /\ t # 0
    BY <2>1, InTableIs, ParentsIs, Constants DEF Live
  <2>3. proc[t].state # "free"
    BY <2>1, <2>2 DEF Inv, TableOK
  <2>4. proc[t] \in TaskStruct
    BY <2>1, <2>2 DEF Tables
  <2>. QED BY <2>1, <2>2, <2>3, <2>4
<1>3. /\ zombie \in Tables /\ InitOK(zombie)
      /\ \A q \in Proc : /\ zombie[q].pid = proc[q].pid /\ zombie[q].p_pptr = proc[q].p_pptr
                         /\ zombie[q].p_cptr = proc[q].p_cptr /\ zombie[q].p_ysptr = proc[q].p_ysptr
                         /\ zombie[q].p_osptr = proc[q].p_osptr
                         /\ zombie[q].pgrp = proc[q].pgrp /\ zombie[q].session = proc[q].session
                         /\ zombie[q].state = IF q = t THEN "TASK_ZOMBIE" ELSE proc[q].state
  <2> DEFINE sg == IF code \in Signals THEN proc[t].signal \ {code} ELSE proc[t].signal
             r == [proc[t] EXCEPT !.state = "TASK_ZOMBIE", !.exit_code = code, !.signal = sg]
  <2>1. zombie = [proc EXCEPT ![t] = r]
    BY <1>2 DEF Tables
  <2>2. sg \in SUBSET Signals /\ code \in Codes /\ "TASK_ZOMBIE" \in States
    BY <1>2 DEF TaskStruct, Codes, Signals, States
  <2> HIDE DEF sg
  <2>3. /\ r \in TaskStruct /\ r.state = "TASK_ZOMBIE" /\ r.pid = proc[t].pid /\ r.p_pptr = proc[t].p_pptr
        /\ r.pgrp = proc[t].pgrp /\ r.session = proc[t].session
        /\ r.p_cptr = proc[t].p_cptr /\ r.p_ysptr = proc[t].p_ysptr /\ r.p_osptr = proc[t].p_osptr
    BY <1>2, <2>2 DEF TaskStruct
  <2> HIDE DEF r, zombie
  <2>4. zombie \in Tables /\ \A q \in Proc : zombie[q] = IF q = t THEN r ELSE proc[q]
    BY <1>2, <2>1, <2>3 DEF Tables
  <2>5. zombie[InitTask] = proc[InitTask]
    BY <1>2, <2>4
  <2>. QED BY <1>2, <2>3, <2>4, <2>5 DEF InitOK
<1> HIDE DEF zombie
<1>4. father \in Proc /\ zombie[t].pgrp \in Nat
  <2>1. father = proc[t].p_pptr
    BY <1>2, <1>3
  <2>2. father \in Live /\ Live \subseteq Proc
    BY <1>2, <2>1, ParentsIs, InTableIs
  <2>3. zombie[t] \in TaskStruct
    BY <1>2, <1>3 DEF Tables
  <2>. QED BY <2>2, <2>3, ProcessAssumption DEF TaskStruct
<1> HIDE DEF father
<1>5. Carried(zombie, left, {})
  BY <1>2, <1>3, <1>4, HangupMoves, CarriedNone
<1>6. Carried(left, told, {})
  <2>1. left \in Tables
    BY <1>5 DEF Carried, Moved
  <2> HIDE DEF left
  <2>. QED BY <1>4, <2>1, ParentToldMoves
<1> HIDE DEF left, told
<1>7. Moved(zombie, told, {})
  <2>1. {} \cup {} = {}
    OBVIOUS
  <2>. QED BY <1>5, <1>6, <2>1, MovedTwice DEF Carried
<1>8. \A q \in Proc : told[q].p_cptr = proc[q].p_cptr /\ told[q].p_osptr = proc[q].p_osptr
  BY <1>3, <1>7 DEF Moved
<1>9. Listed(rank, t, kids)
  <2>1. kids = Children(proc, t)
    BY <1>2, <1>8, SameChildren
  <2> HIDE DEF kids
  <2>. QED BY <1>2, <2>1, ChildrenAre
<1> HIDE DEF kids
<1>10. /\ kids \in Seq(Proc) /\ Len(kids) \in Nat
       /\ Kids(t) = {kids[n] : n \in 1..Len(kids)}
       /\ kids = <<>> <=> Kids(t) = {}
       /\ kids # <<>> => /\ 1 \in 1..Len(kids) /\ Len(kids) \in 1..Len(kids)
                         /\ kids[1] = first /\ first \in Proc /\ last \in Kids(t) /\ last \in Proc
  <2>1. kids \in Seq(Proc) /\ Len(kids) \in Nat /\ (kids = <<>> <=> Len(kids) = 0)
    BY <1>9 DEF Listed
  <2>2. Kids(t) = {kids[n] : n \in 1..Len(kids)}
    BY <1>9 DEF Listed
  <2>3. kids # <<>> => 1 \in 1..Len(kids) /\ Len(kids) \in 1..Len(kids)
    BY <2>1
  <2>4. kids # <<>> => kids[1] = first
    BY <1>9, <2>1 DEF Listed
  <2>5. \A n \in 1..Len(kids) : kids[n] \in Proc
    BY <2>1
  <2>6. kids = <<>> <=> Kids(t) = {}
    BY <2>1, <2>2, <2>3
  <2> HIDE DEF first
  <2>. QED BY <2>1, <2>2, <2>3, <2>4, <2>5, <2>6
<1>11. ~panic'
  <2>1. Kids(InitTask) # {}
    BY <1>2, InitHasKids
  <2>2. proc[InitTask].p_cptr # NULL
    BY <1>2, <2>1, FirstChildIs
  <2>. QED BY <1>1, <1>2, <1>8, <2>2
<1>12. InitTask \notin Kids(t)
  BY <1>2, KidsIs DEF InitOK
<1>13. PICK adopted : AdoptedInTurn(t, told, kids, adopted) /\ all = adopted[Len(kids)]
  <2>1. told \in Tables
    BY <1>7 DEF Moved
  <2> HIDE DEF told
  <2>. QED BY <1>2, <1>10, <2>1, AllAdoptedMoves
<1> HIDE DEF all
<1>14. Moved(zombie, all, Kids(t))
  <2>1. Moved(told, all, Kids(t))
    <3>1. Len(kids) \in 0..Len(kids)
      BY <1>10
    <3>. QED BY <1>10, <1>13, <3>1 DEF AdoptedInTurn, Carried
  <2>2. {} \cup Kids(t) = Kids(t)
    OBVIOUS
  <2>. QED BY <1>7, <2>1, <2>2, MovedTwice
<1>15. /\ spliced \in Tables /\ InitOK(spliced)
       /\ \A q \in Proc :
             /\ spliced[q].pid = proc[q].pid
             /\ spliced[q].state = "free" <=> proc[q].state = "free"
             /\ spliced[q].state = "TASK_ZOMBIE" <=> proc[q].state = "TASK_ZOMBIE" \/ q = t
             /\ spliced[q].p_pptr = IF q \in Kids(t) THEN InitTask ELSE proc[q].p_pptr
             /\ spliced[q].p_osptr = IF Kids(t) # {} /\ q = last THEN old ELSE proc[q].p_osptr
             /\ spliced[q].p_ysptr = IF Kids(t) # {} /\ q = old THEN last ELSE proc[q].p_ysptr
             /\ spliced[q].p_cptr = IF q = t THEN NULL
                                    ELSE IF Kids(t) # {} /\ q = InitTask THEN first ELSE proc[q].p_cptr
  <2>1. CASE kids = <<>>
    <3>1. spliced = told /\ Kids(t) = {}
      BY <1>10, <2>1
    <3>2. proc[t].p_cptr = NULL
      BY <1>2, <3>1, FirstChildIs
    <3> HIDE DEF spliced, last, old, first
    <3>3. told \in Tables /\ InitOK(told)
      BY <1>3, <1>7 DEF Moved
    <3>4. \A q \in Proc :
             /\ told[q].pid = proc[q].pid
             /\ told[q].state = "free" <=> proc[q].state = "free"
             /\ told[q].state = "TASK_ZOMBIE" <=> proc[q].state = "TASK_ZOMBIE" \/ q = t
             /\ told[q].p_pptr = proc[q].p_pptr
             /\ told[q].p_osptr = proc[q].p_osptr
             /\ told[q].p_ysptr = proc[q].p_ysptr
             /\ told[q].p_cptr = proc[q].p_cptr
      BY <1>2, <1>3, <1>7 DEF Moved
    <3>. QED BY <3>1, <3>2, <3>3, <3>4
  <2>2. CASE kids # <<>>
    <3>1. spliced = Spliced(all, first, last, t) /\ Kids(t) # {} /\ first \in Proc /\ last \in Proc
      BY <1>10, <2>2
    <3> HIDE DEF spliced, last, old, first
    <3>2. all \in Tables /\ InitOK(all)
      BY <1>3, <1>12, <1>14 DEF Moved
    <3>3. \A q \in Proc :
             /\ all[q].pid = proc[q].pid
             /\ all[q].state = "free" <=> proc[q].state = "free"
             /\ all[q].state = "TASK_ZOMBIE" <=> proc[q].state = "TASK_ZOMBIE" \/ q = t
             /\ all[q].p_pptr = IF q \in Kids(t) THEN InitTask ELSE proc[q].p_pptr
             /\ all[q].p_osptr = proc[q].p_osptr
             /\ all[q].p_ysptr = proc[q].p_ysptr
             /\ all[q].p_cptr = proc[q].p_cptr
      BY <1>2, <1>3, <1>14 DEF Moved
    <3>4. old = all[InitTask].p_cptr /\ t \in Proc \ {InitTask}
      BY <1>2, <3>3 DEF old
    <3>5. /\ spliced \in Tables /\ InitOK(spliced)
          /\ \A q \in Proc :
                 /\ spliced[q].pid = all[q].pid /\ spliced[q].state = all[q].state
                 /\ spliced[q].p_pptr = all[q].p_pptr
                 /\ spliced[q].p_osptr = IF q = last THEN old ELSE all[q].p_osptr
                 /\ spliced[q].p_ysptr = IF q = old THEN last ELSE all[q].p_ysptr
                 /\ spliced[q].p_cptr = IF q = t THEN NULL ELSE IF q = InitTask THEN first ELSE all[q].p_cptr
      BY <3>1, <3>2, <3>4, SplicedIs
    <3>. QED BY <3>1, <3>3, <3>5
  <2>. QED BY <2>1, <2>2
<1>16. Kin(all, spliced, {}) /\ Calm(all, spliced)
  <2>1. CASE kids = <<>>
    <3>1. spliced = all
      <4>1. all = adopted[0]
        BY <1>13, <2>1
      <4>. QED BY <1>13, <2>1, <4>1 DEF AdoptedInTurn
    <3> HIDE DEF spliced
    <3>. QED BY <3>1 DEF Kin, Calm
  <2>2. CASE kids # <<>>
    <3>1. spliced = Spliced(all, first, last, t) /\ first \in Proc /\ last \in Proc
      BY <1>10, <2>2
    <3> HIDE DEF spliced, last, first
    <3>2. all \in Tables /\ t \in Proc \ {InitTask}
      BY <1>2, <1>14 DEF Moved
    <3>3. \A q \in Proc :
             /\ spliced[q].pid = all[q].pid /\ spliced[q].state = all[q].state
             /\ spliced[q].p_pptr = all[q].p_pptr
             /\ spliced[q].pgrp = all[q].pgrp /\ spliced[q].session = all[q].session
      BY <3>1, <3>2, SplicedIs
    <3>. QED BY <3>3 DEF Kin, Calm
  <2>. QED BY <2>1, <2>2
<1> HIDE DEF spliced
<1>17. Carried(spliced, proc', {})
  <2>1. "SIGHUP" \in Signals
    BY DEF Signals
  <2>. QED BY <1>1, <1>2, <1>15, <2>1, KillPgMoves, CarriedNone
<1> HIDE DEF first, last, old
<1>18. Exited(t, first, last, old)
  BY <1>15, <1>17 DEF Exited, Carried, Moved
<1>19. Kids(t) # {} => last \in Kids(t) /\ \A c \in Kids(t) : rank[c] >= rank[last]
  <2> SUFFICES ASSUME Kids(t) # {}, NEW c \in Kids(t) PROVE rank[c] >= rank[last]
    BY <1>10
  <2>1. PICK n \in 1..Len(kids) : kids[n] = c
    BY <1>10
  <2>2. c \in Proc /\ rank[c] \in Nat
    BY <1>2, KidsIs, RankIs
  <2>3. CASE n = Len(kids)
    BY <2>1, <2>2, <2>3 DEF last
  <2>4. CASE n < Len(kids)
    <3>1. rank[kids[n]] > rank[kids[Len(kids)]]
      BY <1>9, <1>10, <2>4 DEF Listed
    <3>2. rank[last] \in Nat
      BY <1>10, RankIs
    <3>. QED BY <2>1, <2>2, <3>1, <3>2 DEF last
  <2>. QED BY <1>10, <2>1, <2>3, <2>4
<1>20. ExitGoes(t, zombie, left, told, kids, adopted)
  <2>1. left = IF zombie[father].pgrp # zombie[t].pgrp /\ zombie[father].session = zombie[t].session
               THEN Hangup(zombie, zombie[t].pgrp) ELSE zombie
    BY DEF left
  <2>2. Kin(all, proc', {}) /\ Calm(all, proc')
    BY <1>17, <1>16 DEF Carried, Moved, Kin, Calm
  <2>. QED BY <1>3, <1>5, <1>6, <1>10, <1>13, <2>1, <2>2 DEF ExitGoes, father
<1>. QED BY <1>11, <1>18, <1>19, <1>20 DEF first, old

(* A task that keeps its group from being orphaned. *)
Keeper(ps, g, p) ==
    LET parent == ps[ps[p].p_pptr] IN
    /\ ps[p].pgrp = g
    /\ ps[p].state # "TASK_ZOMBIE"
    /\ parent.pid # 1
    /\ parent.pgrp # g
    /\ parent.session = ps[p].session

LEMMA Keepers == \A ps, g : is_orphaned_pgrp(ps, g) <=> \A p \in InTable : ~Keeper(ps, g, p)
BY DEF is_orphaned_pgrp, Keeper

LEMMA CarriedIs == \A ps, qs, S : Carried(ps, qs, S) => Kin(ps, qs, S) /\ Calm(ps, qs) /\ qs \in Tables
BY DEF Carried, Moved, Kin

LEMMA KeepersStay ==
    ASSUME NEW ps, NEW qs, NEW S, Kin(ps, qs, S), Calm(ps, qs), ps[InitTask].pid = 1,
           NEW g, NEW p \in Proc, ps[p].p_pptr \in Proc
    PROVE  Keeper(qs, g, p) <=> Keeper(ps, g, p) /\ p \notin S
<1>1. CASE p \in S
  <2>1. qs[qs[p].p_pptr].pid = 1
    BY <1>1, Constants DEF Kin
  <2>. QED BY <1>1, <2>1 DEF Keeper
<1>2. CASE p \notin S
  <2>1. qs[p].p_pptr = ps[p].p_pptr
    BY <1>2 DEF Kin
  <2>2. \A q \in Proc : /\ qs[q].pid = ps[q].pid /\ qs[q].pgrp = ps[q].pgrp /\ qs[q].session = ps[q].session
                        /\ qs[q].state = "TASK_ZOMBIE" <=> ps[q].state = "TASK_ZOMBIE"
    BY DEF Kin, Calm
  <2>. QED BY <1>2, <2>1, <2>2 DEF Keeper
<1>. QED BY <1>1, <1>2

LEMMA NobodyStops ==
    ASSUME TypeOK, NEW ps, NEW qs, Calm(ps, qs), NEW g, ~has_stopped_jobs(ps, g)
    PROVE  ~has_stopped_jobs(qs, g)
BY InTableIs DEF Calm, has_stopped_jobs

LEMMA HangupEnds ==
    ASSUME TypeOK, NEW ps \in Tables, NEW g \in Nat, g > 0, is_orphaned_pgrp(ps, g)
    PROVE  ~has_stopped_jobs(Hangup(ps, g), g)
<1>1. CASE ~has_stopped_jobs(ps, g)
  BY <1>1 DEF Hangup
<1>2. CASE has_stopped_jobs(ps, g)
  <2> DEFINE qs == KillPg(ps, g, "SIGHUP")
             rs == KillPg(qs, g, "SIGCONT")
  <2>1. Hangup(ps, g) = rs
    BY <1>2 DEF Hangup
  <2>2. qs \in Tables
    <3>1. "SIGHUP" \in Signals
      BY DEF Signals
    <3>. QED BY <3>1, KillPgMoves, CarriedIs
  <2> HIDE DEF qs
  <2>3. ASSUME NEW p \in InTable, rs[p].pgrp = g PROVE rs[p].state # "TASK_STOPPED"
    <3>1. p \in Proc /\ qs[p] \in TaskStruct
      BY <2>2, InTableIs DEF Tables
    <3>2. rs[p] = IF qs[p].pgrp = g THEN Sent(qs[p], "SIGCONT") ELSE qs[p]
      BY <3>1 DEF KillPg
    <3>. QED BY <2>3, <3>1, <3>2, SentStops
  <2> HIDE DEF rs
  <2>. QED BY <2>1, <2>3 DEF has_stopped_jobs
<1>. QED BY <1>1, <1>2

(* A group that an exit leaves orphaned has nobody stopped.  If children   *)
(* kept it from being orphaned, the last of them to be adopted makes it    *)
(* so; if the task itself did, that is seen before.                        *)
LEMMA OrphansGoOn ==
    ASSUME Inv, NEW t \in InTable, NEW zombie, NEW left, NEW told, NEW kids, NEW adopted,
           ExitGoes(t, zombie, left, told, kids, adopted),
           NEW g \in 1..MaxPid, ~is_orphaned_pgrp(proc, g), is_orphaned_pgrp(proc', g)
    PROVE  ~has_stopped_jobs(proc', g)
<1> DEFINE L == Len(kids)
           All(n) == {kids[k] : k \in 1..n}
<1>1. /\ TypeOK /\ InTable \subseteq Proc /\ InitTask \in Proc /\ t \in Proc /\ g \in Nat /\ g > 0
      /\ L \in Nat /\ \A n \in 1..L : kids[n] \in Proc
      /\ Kids(t) = All(L) /\ Kids(t) \subseteq InTable /\ \A c \in Kids(t) : proc[c].p_pptr = t
  <2>1. kids \in Seq(Proc) /\ Kids(t) = All(L)
    BY DEF ExitGoes
  <2>. QED BY <2>1, InTableIs, KidsIs, Constants, ProcessAssumption DEF Inv
<1>2. /\ Kin(zombie, told, {}) /\ Calm(zombie, told) /\ Calm(left, told)
      /\ zombie \in Tables /\ told \in Tables
  <2>1. Carried(zombie, left, {}) /\ Carried(left, told, {}) /\ {} \cup {} = {}
    BY DEF ExitGoes
  <2>2. Carried(zombie, told, {})
    BY <2>1, CarriedTwice
  <2>. QED BY <2>1, <2>2, CarriedIs DEF ExitGoes
<1>3. /\ adopted[0] = told
      /\ \A n \in 1..L : adopted[n] = Adopted(t, adopted[n - 1], kids[n])
      /\ \A n \in 0..L : Carried(told, adopted[n], All(n))
      /\ Kin(adopted[L], proc', {}) /\ Calm(adopted[L], proc')
  BY DEF ExitGoes, AdoptedInTurn
<1>4. \A q \in Proc : /\ zombie[q].pid = proc[q].pid /\ zombie[q].p_pptr = proc[q].p_pptr
                     /\ zombie[q].pgrp = proc[q].pgrp /\ zombie[q].session = proc[q].session
                     /\ zombie[q].state = IF q = t THEN "TASK_ZOMBIE" ELSE proc[q].state
  BY DEF ExitGoes
<1>5. /\ zombie[InitTask].pid = 1 /\ told[InitTask].pid = 1
      /\ \A p \in InTable : proc[p].p_pptr \in Proc /\ zombie[p].p_pptr \in Proc /\ told[p].p_pptr = proc[p].p_pptr
  <2>1. \A p \in InTable : proc[p].p_pptr \in Proc
    BY ParentsIs, InTableIs DEF Inv
  <2>. QED BY <1>1, <1>2, <1>4, <2>1 DEF Kin, Inv, InitOK
<1> HIDE DEF L, All
<1>6. \A p \in InTable \ Kids(t) : ~Keeper(told, g, p)
  <2> SUFFICES ASSUME NEW p \in InTable \ Kids(t), Keeper(told, g, p) PROVE FALSE
    OBVIOUS
  <2>1. L \in 0..L
    BY <1>1
  <2>2. Kin(told, adopted[L], Kids(t)) /\ Calm(told, adopted[L])
    BY <1>1, <1>3, <2>1, CarriedIs
  <2>3. p \in Proc /\ told[p].p_pptr \in Proc
    BY <1>1, <1>5
  <2>4. Keeper(adopted[L], g, p)
    BY <1>5, <2>2, <2>3, KeepersStay
  <2>5. adopted[L][InitTask].pid = 1 /\ adopted[L][p].p_pptr \in Proc
    BY <1>1, <1>5, <2>2, <2>3 DEF Kin
  <2>6. Keeper(proc', g, p)
    BY <1>3, <2>3, <2>4, <2>5, KeepersStay
  <2>. QED BY <2>6, Keepers
<1>7. ASSUME ~has_stopped_jobs(adopted[L], g) PROVE ~has_stopped_jobs(proc', g)
  BY <1>1, <1>3, <1>7, NobodyStops
<1>8. CASE \E n \in 1..L : Keeper(told, g, kids[n])
  <2> DEFINE W == {n \in 1..L : Keeper(told, g, kids[n])}
  <2>1. PICK n \in W : \A k \in W : k <= n
    <3> DEFINE S == {L - k : k \in W}
    <3>1. S \in SUBSET Nat /\ S # {}
      BY <1>1, <1>8
    <3>2. PICK e \in S : \A k \in S : e <= k
      BY <3>1, LeastOf
    <3>3. PICK n \in W : e = L - n
      BY <3>2
    <3>4. \A k \in W : L - n <= L - k
      BY <3>2, <3>3
    <3>. QED BY <1>1, <3>4
  <2> DEFINE c == kids[n]
             ps == adopted[n - 1]
  <2>2. /\ n \in 1..L /\ n \in 0..L /\ n - 1 \in 0..L /\ c \in Proc /\ c \in Kids(t) /\ c \in InTable
        /\ Keeper(told, g, c) /\ All(n) = All(n - 1) \cup {c}
    <3>1. n \in 1..L /\ n \in 0..L /\ n - 1 \in 0..L /\ 1..n = 1..(n - 1) \cup {n}
      BY <1>1
    <3>2. c \in Proc /\ c \in Kids(t) /\ c \in InTable
      BY <1>1, <3>1 DEF All
    <3>. QED BY <3>1, <3>2 DEF All
  <2>3. Carried(told, ps, All(n - 1)) /\ ps \in Tables /\ Calm(told, ps)
    BY <1>3, <2>2, CarriedIs
  <2>4. ps[c].pgrp = g /\ ps[t].pgrp # g /\ ps[c].session = ps[t].session
    <3>1. told[c].p_pptr = t
      BY <1>1, <1>5, <2>2
    <3>2. told[c].pgrp = g /\ told[t].pgrp # g /\ told[c].session = told[t].session
      BY <2>2, <3>1 DEF Keeper
    <3>. QED BY <1>1, <2>2, <2>3, <3>2 DEF Calm
  <2> HIDE DEF ps
  <2>5. PICK mid : Carried(ps, mid, {c}) /\ Adopted(t, ps, c) = Hangup(mid, g)
    <3> HIDE DEF c
    <3>. QED BY <1>1, <2>2, <2>3, <2>4, AdoptedMoves
  <2>6. adopted[n] = Hangup(mid, g)
    BY <1>3, <2>2, <2>5 DEF ps
  <2>7. Carried(told, mid, All(n))
    <3> HIDE DEF c
    <3>. QED BY <2>2, <2>3, <2>5, CarriedTwice
  <2>8. is_orphaned_pgrp(mid, g)
    <3> SUFFICES ASSUME NEW p \in InTable, Keeper(mid, g, p) PROVE FALSE
      BY Keepers
    <3>1. Keeper(told, g, p) /\ p \notin All(n)
      <4>1. Kin(told, mid, All(n)) /\ Calm(told, mid)
        BY <2>7, CarriedIs
      <4>2. p \in Proc /\ told[p].p_pptr \in Proc
        BY <1>1, <1>5
      <4>. QED BY <1>5, <4>1, <4>2, KeepersStay
    <3>2. PICK k \in 1..L : p = kids[k]
      BY <1>1, <1>6, <3>1 DEF All
    <3>3. k <= n
      BY <2>1, <3>1, <3>2
    <3>4. k \in 1..n
      BY <2>2, <3>3
    <3>. QED BY <3>1, <3>2, <3>4 DEF All
  <2>9. ~has_stopped_jobs(adopted[n], g)
    <3>1. mid \in Tables
      BY <2>7, CarriedIs
    <3>. QED BY <1>1, <2>6, <2>8, <3>1, HangupEnds
  <2> DEFINE G == {k \in n..L : ~has_stopped_jobs(adopted[k], g)}
  <2>10. \A k \in n..L : k \in G
    <3>1. n \in n..L => n \in G
      BY <2>9
    <3>2. ASSUME NEW k \in n..L, k # n, k - 1 \in G PROVE k \in G
      <4>1. k \in 1..L /\ k - 1 \in 0..L
        BY <1>1, <2>2, <3>2
      <4>2. adopted[k] = Adopted(t, adopted[k - 1], kids[k]) /\ adopted[k - 1] \in Tables /\ kids[k] \in Proc
        BY <1>1, <1>3, <4>1, CarriedIs
      <4>3. Calm(adopted[k - 1], adopted[k])
        BY <1>1, <4>2, AdoptedMoves, CarriedIs
      <4>4. ~has_stopped_jobs(adopted[k - 1], g)
        BY <3>2
      <4>5. ~has_stopped_jobs(adopted[k], g)
        BY <1>1, <4>3, <4>4, NobodyStops
      <4>. QED BY <4>5
    <3>3. n \in Nat
      BY <1>1, <2>2
    <3> HIDE DEF G, W
    <3>. QED BY <1>1, <3>1, <3>2, <3>3, UpTo
  <2>11. L \in n..L
    BY <1>1, <2>2
  <2>. QED BY <1>7, <2>10, <2>11
<1>9. CASE \A n \in 1..L : ~Keeper(told, g, kids[n])
  <2>1. \A p \in InTable : ~Keeper(told, g, p)
    BY <1>1, <1>6, <1>9 DEF All
  <2>2. \A p \in InTable : ~Keeper(zombie, g, p)
    <3> SUFFICES ASSUME NEW p \in InTable PROVE ~Keeper(zombie, g, p)
      OBVIOUS
    <3>1. p \in Proc /\ zombie[p].p_pptr \in Proc
      BY <1>1, <1>5
    <3>. QED BY <1>2, <1>5, <2>1, <3>1, KeepersStay
  <2>3. PICK p \in InTable : Keeper(proc, g, p)
    BY Keepers
  <2>4. p = t
    <3> SUFFICES ASSUME p # t PROVE FALSE
      OBVIOUS
    <3>1. p \in Proc /\ proc[p].p_pptr \in Proc
      BY <1>1, <1>5
    <3>2. Keeper(zombie, g, p)
      BY <1>4, <2>3, <3>1 DEF Keeper
    <3>. QED BY <2>2, <3>2
  <2> DEFINE father == zombie[t].p_pptr
  <2>5. zombie[t].pgrp = g /\ zombie[father].pgrp # zombie[t].pgrp /\ zombie[father].session = zombie[t].session
    <3>1. father = proc[t].p_pptr /\ father \in Proc
      BY <1>1, <1>4, <1>5
    <3> HIDE DEF father
    <3>. QED BY <1>1, <1>4, <2>3, <2>4, <3>1 DEF Keeper
  <2>6. left = Hangup(zombie, g)
    BY <2>5 DEF ExitGoes
  <2>7. ~has_stopped_jobs(left, g)
    BY <1>1, <1>2, <2>2, <2>6, HangupEnds, Keepers
  <2>8. ~has_stopped_jobs(told, g)
    BY <1>1, <1>2, <2>7, NobodyStops
  <2>9. ~has_stopped_jobs(adopted[L], g)
    <3>1. Calm(told, adopted[L])
      <4>1. L \in 0..L
        BY <1>1
      <4>. QED BY <1>3, <4>1, CarriedIs
    <3>. QED BY <1>1, <2>8, <3>1, NobodyStops
  <2>. QED BY <1>7, <2>9
<1>. QED BY <1>8, <1>9

(* The ranks of those adopted are raised above all others. *)
LEMMA ExitTree ==
    ASSUME NEW m, NEW rank, Sorted(rank, m), NEW t \in InTable \ {InitTask},
           NEW first, NEW last, NEW old, first = proc[t].p_cptr, old = proc[InitTask].p_cptr,
           Kids(t) # {} => last \in Kids(t) /\ \A c \in Kids(t) : rank[c] >= rank[last],
           Exited(t, first, last, old), task' = task
    PROVE  Tree'
<1> DEFINE K == Kids(t)
           I == Kids(InitTask)
<1>1. /\ Inv /\ t \in Proc /\ t \in Live /\ InitTask \in Proc /\ InitTask \in Live /\ t # InitTask
      /\ Live \subseteq Proc /\ InTable \subseteq Live /\ InTable \subseteq Proc
  BY InTableIs, ParentsIs, Constants DEF Sorted, Inv, Live
<1>2. InTable' = InTable /\ Live' = Live
  BY DEF InTable, Live
<1>3. \A q \in Live :
          /\ proc'[q].p_pptr = IF q \in K THEN InitTask ELSE proc[q].p_pptr
          /\ proc'[q].p_osptr = IF K # {} /\ q = last THEN old ELSE proc[q].p_osptr
          /\ proc'[q].p_ysptr = IF K # {} /\ q = old THEN last ELSE proc[q].p_ysptr
          /\ proc'[q].p_cptr = IF q = t THEN NULL
                               ELSE IF K # {} /\ q = InitTask THEN first ELSE proc[q].p_cptr
  BY <1>1 DEF Exited
<1>4. /\ \A u : Kids(u) \subseteq InTable /\ \A q \in Kids(u) : proc[q].p_pptr = u
      /\ \A q \in InTable : q \in Kids(proc[q].p_pptr)
  BY DEF Kids
<1>5. /\ Kids(InitTask)' = I \cup K /\ Kids(t)' = {}
      /\ \A u : u # InitTask /\ u # t => Kids(u)' = Kids(u)
  BY <1>1, <1>2, <1>3, <1>4 DEF Kids
<1>6. /\ m \in Nat /\ rank \in [Proc -> 0..m] /\ Ranked(rank)
      /\ \A q \in InTable : rank[q] \in Nat /\ rank[q] <= m
  BY <1>1 DEF Sorted
<1>7. \A p, q \in InTable : proc[p].p_pptr = proc[q].p_pptr /\ rank[p] = rank[q] => p = q
  BY <1>6 DEF Ranked
<1>8. TopOf(rank, K, first) /\ TopOf(rank, I, old)
  BY <1>1, <1>6 DEF Ranked
<1> DEFINE M == 2 * m + 1
<1>9. PICK high \in [Proc -> 0..M] : \A q \in InTable : high[q] = IF q \in K THEN rank[q] + m + 1 ELSE rank[q]
  <2> DEFINE h == [q \in Proc |-> IF q \in K THEN rank[q] + m + 1 ELSE rank[q]]
  <2>1. \A q \in Proc : rank[q] \in Nat /\ rank[q] <= m
    BY <1>6
  <2>2. \A q \in Proc : (IF q \in K THEN rank[q] + m + 1 ELSE rank[q]) \in 0..M
    BY <1>6, <2>1
  <2>3. h \in [Proc -> 0..M] /\ \A q \in InTable : h[q] = IF q \in K THEN rank[q] + m + 1 ELSE rank[q]
    BY <1>1, <2>2
  <2> HIDE DEF h
  <2>. QED BY <2>3
<1>10. K \cap I = {} /\ K \subseteq InTable /\ I \subseteq InTable
  BY <1>1, <1>4
(* In K, in I and among the others the order is as it was. *)
<1>11. /\ \A p, q \in K : (high[p] < high[q] <=> rank[p] < rank[q]) /\ (high[p] <= high[q] <=> rank[p] <= rank[q])
       /\ \A p, q \in InTable \ K :
             (high[p] < high[q] <=> rank[p] < rank[q]) /\ (high[p] <= high[q] <=> rank[p] <= rank[q])
       /\ \A p \in InTable \ K, q \in K : high[p] < high[q]
       /\ \A q \in InTable : high[q] \in Nat
  BY <1>6, <1>9, <1>10
<1>12. ASSUME NEW x \in InTable, NEW y \in InTable, proc'[x].p_pptr = proc'[y].p_pptr, high[x] = high[y]
       PROVE  x = y
  <2>1. x \in K <=> y \in K
    BY <1>11, <1>12
  <2>2. proc[x].p_pptr = proc[y].p_pptr
    BY <1>1, <1>3, <1>4, <1>12, <2>1
  <2>3. rank[x] = rank[y]
    BY <1>6, <1>9, <1>12, <2>1
  <2>. QED BY <1>7, <2>2, <2>3
<1>13. ASSUME NEW u \in Live PROVE TopOf(high, Kids(u)', proc'[u].p_cptr)
  <2>1. TopOf(rank, Kids(u), proc[u].p_cptr)
    BY <1>6 DEF Ranked
  <2>2. CASE u = t
    BY <1>3, <1>5, <2>2 DEF TopOf
  <2>3. CASE u = InitTask /\ K # {}
    <3>1. first \in K /\ \A q \in K : rank[q] <= rank[first]
      BY <1>8, <2>3 DEF TopOf
    <3>2. \A q \in I \cup K : high[q] <= high[first]
      BY <1>10, <1>11, <3>1
    <3>. QED BY <1>1, <1>3, <1>5, <2>3, <3>1, <3>2 DEF TopOf
  <2>4. CASE u # t /\ (u # InitTask \/ K = {})
    <3>1. Kids(u)' = Kids(u) /\ proc'[u].p_cptr = proc[u].p_cptr
      BY <1>3, <1>5, <2>4
    <3>2. Kids(u) \subseteq InTable \ K
      BY <1>4, <2>4
    <3>. QED BY <1>11, <2>1, <3>1, <3>2 DEF TopOf
  <2>. QED BY <2>2, <2>3, <2>4
<1>14. ASSUME NEW p \in InTable
       PROVE  /\ TopOf(high, Lower(high, p)', proc'[p].p_osptr)
              /\ BottomOf(high, Higher(high, p)', proc'[p].p_ysptr)
  <2>1. TopOf(rank, Lower(rank, p), proc[p].p_osptr) /\ BottomOf(rank, Higher(rank, p), proc[p].p_ysptr)
    BY <1>6 DEF Ranked
  <2>2. Lower(rank, p) \subseteq Kids(proc[p].p_pptr) /\ Higher(rank, p) \subseteq Kids(proc[p].p_pptr)
    BY DEF Lower, Higher
  <2>3. CASE p \in K
    <3>1. proc'[p].p_pptr = InitTask /\ proc[p].p_pptr = t /\ K # {}
      BY <1>1, <1>3, <1>4, <2>3
    <3>2. Lower(high, p)' = Lower(rank, p) \cup I /\ Higher(high, p)' = Higher(rank, p)
      <4>1. Lower(high, p)' = {q \in I \cup K : high[q] < high[p]}
        BY <1>5, <3>1 DEF Lower
      <4>2. Higher(high, p)' = {q \in I \cup K : high[q] > high[p]}
        BY <1>5, <3>1 DEF Higher
      <4>3. Lower(rank, p) = {q \in K : rank[q] < rank[p]} /\ Higher(rank, p) = {q \in K : rank[q] > rank[p]}
        BY <3>1 DEF Lower, Higher
      <4>4. \A q \in I : high[q] < high[p] /\ ~(high[q] > high[p])
        BY <1>10, <1>11, <2>3
      <4>5. \A q \in K : (high[q] < high[p] <=> rank[q] < rank[p]) /\ (high[q] > high[p] <=> rank[q] > rank[p])
        BY <1>6, <1>10, <1>11, <2>3
      <4>. QED BY <4>1, <4>2, <4>3, <4>4, <4>5
    <3>3. p # old
      BY <1>8, <1>10, <2>3, Constants, <1>1 DEF TopOf
    <3>4. BottomOf(high, Higher(high, p)', proc'[p].p_ysptr)
      <4>1. proc'[p].p_ysptr = proc[p].p_ysptr /\ Higher(rank, p) \subseteq K
        BY <1>1, <1>3, <2>2, <3>1, <3>3
      <4>. QED BY <1>6, <1>10, <1>11, <2>1, <3>2, <4>1 DEF BottomOf
    <3>5. CASE p = last
      <4>1. Lower(rank, p) = {}
        BY <1>6, <1>10, <3>1, <3>5 DEF Lower
      <4>2. proc'[p].p_osptr = old /\ Lower(high, p)' = I
        BY <1>1, <1>3, <3>1, <3>2, <3>5, <4>1
      <4>3. TopOf(high, I, old)
        BY <1>8, <1>10, <1>11 DEF TopOf
      <4>. QED BY <3>4, <4>2, <4>3
    <3>6. CASE p # last
      <4>1. last \in K /\ rank[p] >= rank[last] /\ rank[p] # rank[last]
        BY <1>4, <1>7, <1>10, <2>3, <3>1, <3>6
      <4>2. last \in Lower(rank, p)
        BY <1>6, <1>10, <3>1, <4>1 DEF Lower
      <4>3. proc[p].p_osptr \in Lower(rank, p) /\ \A q \in Lower(rank, p) : rank[q] <= rank[proc[p].p_osptr]
        BY <2>1, <4>2 DEF TopOf
      <4>4. proc'[p].p_osptr = proc[p].p_osptr /\ Lower(rank, p) \subseteq K
        BY <1>1, <1>3, <2>2, <3>1, <3>6
      <4>5. \A q \in Lower(rank, p) \cup I : high[q] <= high[proc[p].p_osptr]
        BY <1>10, <1>11, <4>3, <4>4
      <4>. QED BY <3>2, <3>4, <4>3, <4>4, <4>5 DEF TopOf
    <3>. QED BY <3>5, <3>6
  <2>4. CASE p \in I /\ K # {}
    <3>1. proc'[p].p_pptr = InitTask /\ proc[p].p_pptr = InitTask /\ p \notin K
      BY <1>1, <1>3, <1>4, <1>10, <2>4
    <3>2. Lower(high, p)' = Lower(rank, p) /\ Higher(high, p)' = Higher(rank, p) \cup K
      <4>1. Lower(high, p)' = {q \in I \cup K : high[q] < high[p]}
        BY <1>5, <3>1 DEF Lower
      <4>2. Higher(high, p)' = {q \in I \cup K : high[q] > high[p]}
        BY <1>5, <3>1 DEF Higher
      <4>3. Lower(rank, p) = {q \in I : rank[q] < rank[p]} /\ Higher(rank, p) = {q \in I : rank[q] > rank[p]}
        BY <3>1 DEF Lower, Higher
      <4>4. \A q \in K : high[q] > high[p] /\ ~(high[q] < high[p])
        BY <1>10, <1>11, <3>1
      <4>5. \A q \in I : (high[q] < high[p] <=> rank[q] < rank[p]) /\ (high[q] > high[p] <=> rank[q] > rank[p])
        BY <1>6, <1>10, <1>11, <2>4
      <4>. QED BY <4>1, <4>2, <4>3, <4>4, <4>5
    <3>3. TopOf(high, Lower(high, p)', proc'[p].p_osptr)
      <4>1. p # last /\ Lower(rank, p) \subseteq I /\ Lower(rank, p) \subseteq InTable \ K
        BY <1>10, <2>2, <2>4, <3>1
      <4>2. proc'[p].p_osptr = proc[p].p_osptr
        BY <1>1, <1>3, <4>1
      <4>. QED BY <1>11, <2>1, <3>2, <4>1, <4>2 DEF TopOf
    <3>4. CASE p = old
      <4>1. Higher(rank, p) = {}
        BY <1>6, <1>8, <1>10, <2>4, <3>1, <3>4 DEF TopOf, Higher
      <4>2. proc'[p].p_ysptr = last
        BY <1>1, <1>3, <2>4, <3>4
      <4>3. last \in K /\ \A q \in K : high[q] >= high[last]
        BY <1>6, <1>10, <1>11, <2>4
      <4>. QED BY <3>2, <3>3, <4>1, <4>2, <4>3 DEF BottomOf
    <3>5. CASE p # old
      <4>1. old \in I /\ rank[p] <= rank[old] /\ rank[p] # rank[old]
        BY <1>4, <1>7, <1>8, <1>10, <2>4, <3>5 DEF TopOf
      <4>2. old \in Higher(rank, p)
        BY <1>6, <1>10, <3>1, <4>1 DEF Higher
      <4>3. proc[p].p_ysptr \in Higher(rank, p) /\ \A q \in Higher(rank, p) : rank[q] >= rank[proc[p].p_ysptr]
        BY <2>1, <4>2 DEF BottomOf
      <4>4. proc'[p].p_ysptr = proc[p].p_ysptr /\ Higher(rank, p) \subseteq InTable \ K
        BY <1>1, <1>3, <1>10, <2>2, <3>1, <3>5
      <4>5. \A q \in Higher(rank, p) \cup K : high[q] >= high[proc[p].p_ysptr]
        BY <1>6, <1>10, <1>11, <4>3, <4>4
      <4>. QED BY <3>2, <3>3, <4>3, <4>4, <4>5 DEF BottomOf
    <3>. QED BY <3>4, <3>5
  <2>5. CASE p \notin K /\ (p \notin I \/ K = {})
    <3> DEFINE u == proc[p].p_pptr
    <3>1. proc'[p].p_pptr = u /\ u # t /\ (u # InitTask \/ K = {}) /\ p \in Kids(u)
      BY <1>1, <1>3, <1>4, <2>5
    <3>2. Kids(u)' = Kids(u) /\ Kids(u) \subseteq InTable \ K
      BY <1>4, <1>5, <3>1
    <3>3. Lower(high, p)' = Lower(rank, p) /\ Higher(high, p)' = Higher(rank, p)
      <4>1. \A q \in Kids(u) : (high[q] < high[p] <=> rank[q] < rank[p]) /\ (high[q] > high[p] <=> rank[q] > rank[p])
        BY <1>6, <1>11, <2>5, <3>2
      <4>. QED BY <3>1, <3>2, <4>1 DEF Lower, Higher
    <3>4. (K # {} => p # last /\ p # old) /\ Lower(rank, p) \subseteq InTable \ K /\ Higher(rank, p) \subseteq InTable \ K
      <4>1. K # {} => last \in K /\ p \notin K /\ p \notin I /\ old \in I \cup {NULL}
        BY <1>8, <2>5 DEF TopOf
      <4>2. p # NULL
        BY <1>1, Constants
      <4>. QED BY <2>2, <3>2, <4>1, <4>2
    <3>5. proc'[p].p_osptr = proc[p].p_osptr /\ proc'[p].p_ysptr = proc[p].p_ysptr
      BY <1>1, <1>3, <3>4
    <3>. QED BY <1>6, <1>11, <2>1, <3>3, <3>4, <3>5 DEF TopOf, BottomOf
  <2>. QED BY <2>3, <2>4, <2>5
<1>15. Ranked(high)'
  BY <1>2, <1>12, <1>13, <1>14 DEF Ranked
<1>16. PICK depth \in [Proc -> Nat] : Rooted(depth)
  BY <1>1 DEF Inv, Tree
<1>17. Rooted(depth)'
  <2>1. ASSUME NEW p \in InTable, p # InitTask
        PROVE  proc'[p].p_pptr \in InTable /\ depth[proc'[p].p_pptr] < depth[p]
    <3>1. proc[p].p_pptr \in InTable /\ depth[proc[p].p_pptr] < depth[p]
      BY <1>16, <2>1 DEF Rooted
    <3>2. depth[proc[p].p_pptr] \in Nat /\ depth[p] \in Nat /\ depth[InitTask] = 0
      BY <1>1, <1>16, <3>1 DEF Rooted
    <3>3. InitTask \in InTable
      BY <1>1, ParentsIs
    <3>. QED BY <1>1, <1>3, <3>1, <3>2, <3>3
  <2>. QED BY <1>2, <1>16, <2>1 DEF Rooted
<1>18. M \in Nat
  BY <1>6
<1> HIDE DEF M
<1>. QED BY <1>15, <1>16, <1>17, <1>18 DEF Tree

LEMMA GroupsAre == ASSUME Inv PROVE Groups \subseteq 0..MaxPid /\ Groups \subseteq Nat
<1>1. \A p \in InTable : proc[p].pgrp \in 0..MaxPid
  BY InTableIs DEF Inv, TypeOK, TaskStruct
<1>. QED BY <1>1, ProcessAssumption DEF Groups

(* OrphanedJobsGoOn of a step *)
OrphansTold ==
    \A t \in Proc, g \in 1..MaxPid :
        /\ proc[t].state # "TASK_ZOMBIE" /\ proc'[t].state = "TASK_ZOMBIE"
        /\ ~is_orphaned_pgrp(proc, g)
        /\ is_orphaned_pgrp(proc', g)
        => ~has_stopped_jobs(proc', g)

LEMMA ExitKeeps ==
    ASSUME Inv, NEW t \in Proc, Runs(t), t # InitTask, NEW fg \in Groups,
           NEW code \in {"exit", "SIGHUP", "SIGKILL"}, DoExit(t, code, fg)
    PROVE  Inv' /\ OrphansTold
<1>1. PICK m \in Nat : \E rank \in [Proc -> 0..m] : Ranked(rank)
  BY DEF Inv, Tree
<1>2. PICK rank \in [Proc -> 0..m] : Ranked(rank)
  BY <1>1
<1>3. Sorted(rank, m) /\ t \in InTable \ {InitTask} /\ fg \in Nat
  BY <1>1, <1>2, RunsIs, GroupsAre DEF Sorted
<1>4. PICK last : /\ Kids(t) # {} => last \in Kids(t) /\ \A c \in Kids(t) : rank[c] >= rank[last]
                  /\ Exited(t, proc[t].p_cptr, last, proc[InitTask].p_cptr)
  BY <1>3, ExitIs
<1>5. ~panic' /\ task' = task /\ new' = new
  <2>1. ~panic'
    BY <1>3, ExitIs
  <2>. QED BY <2>1 DEF DoExit
<1>6. Tree'
  BY <1>3, <1>4, <1>5, ExitTree
<1>7. \A q \in Proc :
          /\ proc'[q].pid = proc[q].pid
          /\ proc'[q].state = "free" <=> proc[q].state = "free"
          /\ proc'[q].state = "TASK_ZOMBIE" <=> proc[q].state = "TASK_ZOMBIE" \/ q = t
          /\ q = t => proc'[q].p_cptr = NULL
          /\ q # t /\ q # InitTask => proc'[q].p_cptr = proc[q].p_cptr
  BY <1>4 DEF Exited
<1>8. InTable' = InTable /\ Live' = Live /\ Live \subseteq Proc /\ InTable \subseteq Live
  BY <1>5, InTableIs DEF Inv, InTable, Live
<1>9. TypeOK' /\ InitOK(proc') /\ NoForks'
  BY <1>4, <1>5 DEF Exited, DoExit, Tables, Inv, TypeOK, NoForks
<1>10. TableOK'
  BY <1>5, <1>7, <1>8 DEF Inv, TableOK
<1>11. Zombies'
  BY <1>7, <1>8 DEF Inv, InitOK, Zombies
<1>12. UniquePids'
  <2>1. Made' = Made /\ Made \cup {0} \subseteq Proc
    BY <1>5, <1>8 DEF Made, Live
  <2>. QED BY <1>7, <2>1 DEF Inv, UniquePids
<1>13. OrphansTold
  <2>1. PICK zombie, left, told, kids, adopted : ExitGoes(t, zombie, left, told, kids, adopted)
    BY <1>3, ExitIs
  <2>2. \A g \in 1..MaxPid : ~is_orphaned_pgrp(proc, g) /\ is_orphaned_pgrp(proc', g) => ~has_stopped_jobs(proc', g)
    BY <1>3, <2>1, OrphansGoOn
  <2>. QED BY <2>2 DEF OrphansTold
<1>. QED BY <1>5, <1>6, <1>9, <1>10, <1>11, <1>12, <1>13 DEF Inv

-----------------------------------------------------------------------------
(* waitpid takes task p, which has exited, off the lists. *)
Taken(p, os, ys) ==
    /\ os = proc[p].p_osptr /\ ys = proc[p].p_ysptr
    /\ proc' \in Tables /\ proc'[p].state = "free"
    /\ \A q \in Proc \ {p} :
          /\ proc'[q].pid = proc[q].pid /\ proc'[q].state = proc[q].state
          /\ proc'[q].pgrp = proc[q].pgrp /\ proc'[q].signal = proc[q].signal
          /\ proc'[q].p_pptr = proc[q].p_pptr
          /\ proc'[q].p_osptr = IF q = ys THEN os ELSE proc[q].p_osptr
          /\ proc'[q].p_ysptr = IF q = os THEN ys ELSE proc[q].p_ysptr
          /\ proc'[q].p_cptr = IF ys = NULL /\ q = proc[p].p_pptr THEN os ELSE proc[q].p_cptr

LEMMA ReapIs ==
    ASSUME Inv, NEW p \in InTable, p # InitTask, proc' = Released(proc, p)
    PROVE  Taken(p, proc[p].p_osptr, proc[p].p_ysptr)
<1> DEFINE r == proc[p]
           f == r.p_pptr
           o == r.p_osptr
           y == r.p_ysptr
           os == IF o = NULL THEN proc ELSE [proc EXCEPT ![o].p_ysptr = y]
           ys == IF y = NULL THEN [os EXCEPT ![f].p_cptr = o] ELSE [os EXCEPT ![y].p_osptr = o]
<1>1. /\ p \in Proc /\ proc \in Tables /\ f \in Proc /\ f # p
      /\ o \in Proc \cup {NULL} /\ y \in Proc \cup {NULL} /\ NULL \notin Proc
  <2>1. p \in Proc /\ proc \in Tables /\ f \in Live /\ f # p /\ Live \subseteq Proc
    BY InTableIs, ParentsIs DEF Inv, TypeOK, Tables
  <2>. QED BY <2>1, Constants DEF Tables, TaskStruct
<1>2. proc' = [ys EXCEPT ![p] = FreePage]
  BY DEF Released
<1>3. FreePage \in TaskStruct /\ FreePage.state = "free"
  BY ProcessAssumption DEF FreePage, TaskStruct, States, Codes
<1> HIDE DEF f, o, y
<1>4. os \in Tables /\ \A q \in Proc : os[q] = IF q = o THEN [proc[q] EXCEPT !.p_ysptr = y] ELSE proc[q]
  <2>1. CASE o = NULL
    BY <1>1, <2>1
  <2>2. CASE o # NULL
    <3>1. [proc[o] EXCEPT !.p_ysptr = y] \in TaskStruct
      BY <1>1, <2>2 DEF Tables, TaskStruct
    <3>2. os = [proc EXCEPT ![o] = [proc[o] EXCEPT !.p_ysptr = y]]
      BY <2>2
    <3>. QED BY <1>1, <2>2, <3>1, <3>2 DEF Tables
  <2>. QED BY <2>1, <2>2
<1>5. /\ ys \in Tables
      /\ \A q \in Proc : ys[q] = IF y = NULL /\ q = f THEN [os[q] EXCEPT !.p_cptr = o]
                                 ELSE IF q = y THEN [os[q] EXCEPT !.p_osptr = o] ELSE os[q]
  <2> HIDE DEF os
  <2>1. CASE y = NULL
    <3>1. [os[f] EXCEPT !.p_cptr = o] \in TaskStruct
      BY <1>1, <1>4 DEF Tables, TaskStruct
    <3>2. ys = [os EXCEPT ![f] = [os[f] EXCEPT !.p_cptr = o]]
      BY <2>1
    <3>. QED BY <1>1, <1>4, <2>1, <3>1, <3>2 DEF Tables
  <2>2. CASE y # NULL
    <3>1. [os[y] EXCEPT !.p_osptr = o] \in TaskStruct
      BY <1>1, <1>4, <2>2 DEF Tables, TaskStruct
    <3>2. ys = [os EXCEPT ![y] = [os[y] EXCEPT !.p_osptr = o]]
      BY <2>2
    <3>. QED BY <1>1, <1>4, <2>2, <3>1, <3>2 DEF Tables
  <2>. QED BY <2>1, <2>2
<1> HIDE DEF os, ys
<1>6. proc' \in Tables /\ proc'[p] = FreePage /\ \A q \in Proc \ {p} : proc'[q] = ys[q]
  BY <1>1, <1>2, <1>3, <1>5 DEF Tables
<1>7. ASSUME NEW q \in Proc \ {p}
      PROVE  /\ proc'[q].pid = proc[q].pid /\ proc'[q].state = proc[q].state
             /\ proc'[q].pgrp = proc[q].pgrp /\ proc'[q].signal = proc[q].signal
             /\ proc'[q].p_pptr = proc[q].p_pptr
             /\ proc'[q].p_osptr = IF q = y THEN o ELSE proc[q].p_osptr
             /\ proc'[q].p_ysptr = IF q = o THEN y ELSE proc[q].p_ysptr
             /\ proc'[q].p_cptr = IF y = NULL /\ q = f THEN o ELSE proc[q].p_cptr
  <2>1. proc[q] \in TaskStruct /\ os[q] \in TaskStruct /\ q # NULL
    BY <1>1, <1>4 DEF Tables
  <2>2. /\ os[q].pid = proc[q].pid /\ os[q].state = proc[q].state
        /\ os[q].pgrp = proc[q].pgrp /\ os[q].signal = proc[q].signal
        /\ os[q].p_pptr = proc[q].p_pptr /\ os[q].p_osptr = proc[q].p_osptr /\ os[q].p_cptr = proc[q].p_cptr
        /\ os[q].p_ysptr = IF q = o THEN y ELSE proc[q].p_ysptr
    BY <1>4, <2>1 DEF TaskStruct
  <2>3. /\ ys[q].pid = os[q].pid /\ ys[q].state = os[q].state
        /\ ys[q].pgrp = os[q].pgrp /\ ys[q].signal = os[q].signal
        /\ ys[q].p_pptr = os[q].p_pptr /\ ys[q].p_ysptr = os[q].p_ysptr
        /\ ys[q].p_osptr = IF q = y THEN o ELSE os[q].p_osptr
        /\ ys[q].p_cptr = IF y = NULL /\ q = f THEN o ELSE os[q].p_cptr
    <3>1. CASE y = NULL /\ q = f
      <4>1. ys[q] = [os[q] EXCEPT !.p_cptr = o]
        BY <1>5, <3>1
      <4>. QED BY <2>1, <3>1, <4>1 DEF TaskStruct
    <3>2. CASE q = y
      <4>1. ys[q] = [os[q] EXCEPT !.p_osptr = o]
        BY <1>5, <2>1, <3>2
      <4>. QED BY <2>1, <3>2, <4>1 DEF TaskStruct
    <3>3. CASE ~(y = NULL /\ q = f) /\ q # y
      <4>1. ys[q] = os[q]
        BY <1>5, <3>3
      <4>. QED BY <3>3, <4>1
    <3>. QED BY <3>1, <3>2, <3>3
  <2>. QED BY <1>6, <2>2, <2>3
<1>. QED BY <1>3, <1>6, <1>7 DEF Taken, f, o, y

(* The ranks stay. *)
LEMMA ReapTree ==
    ASSUME NEW m, NEW rank, Sorted(rank, m), NEW p \in InTable, p # InitTask, proc[p].state = "TASK_ZOMBIE",
           NEW os, NEW ys, Taken(p, os, ys), InTable' = InTable \ {p}
    PROVE  Tree'
<1> DEFINE t == proc[p].p_pptr
<1>1. /\ Inv /\ p \in Proc /\ p # 0 /\ InTable \subseteq Proc /\ Live \subseteq Proc /\ InTable \subseteq Live
      /\ p \in Live /\ NULL \notin Proc /\ 0 \in Live /\ InitTask \in Proc
      /\ \A q \in InTable : proc[q].p_pptr \in Live
  BY InTableIs, ParentsIs, Constants DEF Sorted, Inv, Live
<1>2. Live' = Live \ {p} /\ InTable' = InTable \ {p}
  BY <1>1 DEF Live
<1>3. \A q \in Live \ {p} :
          /\ proc'[q].p_pptr = proc[q].p_pptr
          /\ proc'[q].p_osptr = IF q = ys THEN os ELSE proc[q].p_osptr
          /\ proc'[q].p_ysptr = IF q = os THEN ys ELSE proc[q].p_ysptr
          /\ proc'[q].p_cptr = IF ys = NULL /\ q = t THEN os ELSE proc[q].p_cptr
  BY <1>1 DEF Taken
<1>4. os = proc[p].p_osptr /\ ys = proc[p].p_ysptr
  BY DEF Taken
<1>5. /\ m \in Nat /\ rank \in [Proc -> 0..m] /\ Ranked(rank)
      /\ \A q \in InTable : rank[q] \in Nat
  BY <1>1 DEF Sorted
<1>6. /\ \A u : Kids(u) \subseteq InTable /\ \A q \in Kids(u) : proc[q].p_pptr = u
      /\ \A q \in InTable : q \in Kids(proc[q].p_pptr)
  BY DEF Kids
<1>7. \A u : Kids(u)' = Kids(u) \ {p}
  BY <1>1, <1>2, <1>3 DEF Kids
<1>8. Kids(p) = {}
  BY <1>1, FirstChildIs DEF Inv, Zombies
<1>9. \A x, y \in InTable : proc[x].p_pptr = proc[y].p_pptr /\ rank[x] = rank[y] => x = y
  BY <1>5 DEF Ranked
<1>10. TopOf(rank, Lower(rank, p), os) /\ BottomOf(rank, Higher(rank, p), ys)
  BY <1>4, <1>5 DEF Ranked
<1>11. ASSUME NEW u \in Live \ {p} PROVE TopOf(rank, Kids(u)', proc'[u].p_cptr)
  <2>1. TopOf(rank, Kids(u), proc[u].p_cptr)
    BY <1>5 DEF Ranked
  <2>2. CASE u # t
    <3>1. Kids(u)' = Kids(u) /\ proc'[u].p_cptr = proc[u].p_cptr
      <4>1. p \notin Kids(u)
        BY <1>6, <2>2
      <4>2. Kids(u)' = Kids(u)
        BY <1>7, <4>1
      <4>. QED BY <1>3, <2>2, <4>2
    <3>. QED BY <2>1, <3>1
  <2>3. CASE u = t /\ ys # NULL
    <3>1. ys \in Higher(rank, p)
      BY <1>10, <2>3 DEF BottomOf
    <3>2. ys \in Kids(t) /\ rank[ys] > rank[p] /\ ys \in InTable
      BY <1>6, <3>1 DEF Higher
    <3>3. proc[u].p_cptr \in Kids(u) /\ \A q \in Kids(u) : rank[q] <= rank[proc[u].p_cptr]
      BY <2>1, <2>3, <3>2 DEF TopOf
    <3>4. proc[u].p_cptr # p
      BY <1>5, <2>3, <3>2, <3>3
    <3>5. proc'[u].p_cptr = proc[u].p_cptr /\ Kids(u)' = Kids(u) \ {p}
      BY <1>3, <1>7, <2>3
    <3>. QED BY <3>3, <3>4, <3>5 DEF TopOf
  <2>4. CASE u = t /\ ys = NULL
    <3>1. Higher(rank, p) = {}
      <4>1. NULL \notin Higher(rank, p)
        BY <1>1, <1>6 DEF Higher
      <4>. QED BY <1>10, <2>4, <4>1 DEF BottomOf
    <3>2. Lower(rank, p) = Kids(t) \ {p}
      <4>1. ASSUME NEW q \in Kids(t), q # p PROVE rank[q] < rank[p]
        <5>1. rank[q] # rank[p] /\ rank[q] \in Nat /\ rank[p] \in Nat
          BY <1>5, <1>6, <1>9, <4>1
        <5>2. ~(rank[q] > rank[p])
          BY <3>1 DEF Higher
        <5>. QED BY <5>1, <5>2
      <4>2. ~(rank[p] < rank[p])
        BY <1>5
      <4>. QED BY <4>1, <4>2 DEF Lower
    <3>3. Kids(u)' = Lower(rank, p) /\ proc'[u].p_cptr = os
      BY <1>3, <1>7, <2>4, <3>2
    <3>. QED BY <1>10, <3>3
  <2>. QED BY <2>2, <2>3, <2>4
<1>12. ASSUME NEW q \in InTable \ {p}
       PROVE  Lower(rank, q)' = Lower(rank, q) \ {p} /\ Higher(rank, q)' = Higher(rank, q) \ {p}
  <2>1. proc'[q].p_pptr = proc[q].p_pptr
    BY <1>1, <1>3
  <2>. QED BY <1>7, <2>1 DEF Lower, Higher
<1>13. ASSUME NEW q \in InTable \ {p} PROVE TopOf(rank, Lower(rank, q)', proc'[q].p_osptr)
  <2>1. TopOf(rank, Lower(rank, q), proc[q].p_osptr) /\ q \in Proc
    BY <1>1, <1>5 DEF Ranked
  <2>2. CASE q = ys
    <3>1. q \in Kids(t) /\ rank[q] > rank[p] /\ proc[q].p_osptr = p
      BY <1>4, <2>1, <2>2, Mirror
    <3>2. proc'[q].p_osptr = os
      BY <1>1, <1>3, <2>2
    <3>3. Lower(rank, q) \ {p} = Lower(rank, p)
      <4>1. p \in Lower(rank, q) /\ \A x \in Lower(rank, q) : rank[x] <= rank[p]
        <5>1. p \in Lower(rank, q)
          BY <1>5, <1>6, <3>1 DEF Lower
        <5>. QED BY <2>1, <3>1, <5>1 DEF TopOf
      <4>2. /\ Lower(rank, q) = {x \in Kids(t) : rank[x] < rank[q]}
            /\ Lower(rank, p) = {x \in Kids(t) : rank[x] < rank[p]}
        BY <1>6, <3>1 DEF Lower
      <4>3. ASSUME NEW x \in Lower(rank, q), x # p PROVE x \in Lower(rank, p)
        <5>1. x \in Kids(t) /\ rank[x] <= rank[p]
          BY <4>1, <4>2, <4>3
        <5>2. rank[x] # rank[p] /\ rank[x] \in Nat /\ rank[p] \in Nat
          BY <1>5, <1>6, <1>9, <4>3, <5>1
        <5>. QED BY <4>2, <5>1, <5>2
      <4>4. ASSUME NEW x \in Lower(rank, p) PROVE x \in Lower(rank, q) /\ x # p
        <5>1. x \in Kids(t) /\ rank[x] < rank[p]
          BY <4>2, <4>4
        <5>2. rank[x] \in Nat /\ rank[p] \in Nat /\ rank[q] \in Nat
          BY <1>5, <1>6, <5>1
        <5>. QED BY <3>1, <4>2, <5>1, <5>2
      <4>. QED BY <4>3, <4>4
    <3>. QED BY <1>10, <1>12, <3>2, <3>3
  <2>3. CASE q # ys
    <3>1. proc'[q].p_osptr = proc[q].p_osptr
      BY <1>1, <1>3, <2>3
    <3>2. proc[q].p_osptr # p
      <4>1. ASSUME proc[q].p_osptr = p PROVE FALSE
        <5>1. proc[p].p_ysptr = q
          BY <1>1, <4>1, Mirror
        <5>. QED BY <1>4, <2>3, <5>1
      <4>. QED BY <4>1
    <3>3. CASE Lower(rank, q) = {}
      BY <1>12, <2>1, <3>1, <3>3 DEF TopOf
    <3>4. CASE Lower(rank, q) # {}
      BY <1>12, <2>1, <3>1, <3>2, <3>4 DEF TopOf
    <3>. QED BY <3>3, <3>4
  <2>. QED BY <2>2, <2>3
<1>14. ASSUME NEW q \in InTable \ {p} PROVE BottomOf(rank, Higher(rank, q)', proc'[q].p_ysptr)
  <2>1. BottomOf(rank, Higher(rank, q), proc[q].p_ysptr) /\ q \in Proc
    BY <1>1, <1>5 DEF Ranked
  <2>2. CASE q = os
    <3>1. q \in Kids(t) /\ rank[q] < rank[p] /\ proc[q].p_ysptr = p
      BY <1>4, <2>1, <2>2, Mirror
    <3>2. proc'[q].p_ysptr = ys
      BY <1>1, <1>3, <2>2
    <3>3. Higher(rank, q) \ {p} = Higher(rank, p)
      <4>1. p \in Higher(rank, q) /\ \A x \in Higher(rank, q) : rank[x] >= rank[p]
        <5>1. p \in Higher(rank, q)
          BY <1>5, <1>6, <3>1 DEF Higher
        <5>. QED BY <2>1, <3>1, <5>1 DEF BottomOf
      <4>2. /\ Higher(rank, q) = {x \in Kids(t) : rank[x] > rank[q]}
            /\ Higher(rank, p) = {x \in Kids(t) : rank[x] > rank[p]}
        BY <1>6, <3>1 DEF Higher
      <4>3. ASSUME NEW x \in Higher(rank, q), x # p PROVE x \in Higher(rank, p)
        <5>1. x \in Kids(t) /\ rank[x] >= rank[p]
          BY <4>1, <4>2, <4>3
        <5>2. rank[x] # rank[p] /\ rank[x] \in Nat /\ rank[p] \in Nat
          BY <1>5, <1>6, <1>9, <4>3, <5>1
        <5>. QED BY <4>2, <5>1, <5>2
      <4>4. ASSUME NEW x \in Higher(rank, p) PROVE x \in Higher(rank, q) /\ x # p
        <5>1. x \in Kids(t) /\ rank[x] > rank[p]
          BY <4>2, <4>4
        <5>2. rank[x] \in Nat /\ rank[p] \in Nat /\ rank[q] \in Nat
          BY <1>5, <1>6, <5>1
        <5>. QED BY <3>1, <4>2, <5>1, <5>2
      <4>. QED BY <4>3, <4>4
    <3>. QED BY <1>10, <1>12, <3>2, <3>3
  <2>3. CASE q # os
    <3>1. proc'[q].p_ysptr = proc[q].p_ysptr
      BY <1>1, <1>3, <2>3
    <3>2. proc[q].p_ysptr # p
      <4>1. ASSUME proc[q].p_ysptr = p PROVE FALSE
        <5>1. proc[p].p_osptr = q
          BY <1>1, <4>1, Mirror
        <5>. QED BY <1>4, <2>3, <5>1
      <4>. QED BY <4>1
    <3>3. CASE Higher(rank, q) = {}
      BY <1>12, <2>1, <3>1, <3>3 DEF BottomOf
    <3>4. CASE Higher(rank, q) # {}
      BY <1>12, <2>1, <3>1, <3>2, <3>4 DEF BottomOf
    <3>. QED BY <3>3, <3>4
  <2>. QED BY <2>2, <2>3
<1>15. Ranked(rank)'
  <2>1. \A x, y \in InTable \ {p} : proc'[x].p_pptr = proc'[y].p_pptr /\ rank[x] = rank[y] => x = y
    BY <1>1, <1>3, <1>9
  <2>. QED BY <1>2, <1>11, <1>13, <1>14, <2>1 DEF Ranked
<1>16. PICK depth \in [Proc -> Nat] : Rooted(depth)
  BY <1>1 DEF Inv, Tree
<1>17. Rooted(depth)'
  <2>1. ASSUME NEW q \in InTable \ {p}, q # InitTask
        PROVE  proc'[q].p_pptr \in InTable \ {p} /\ depth[proc'[q].p_pptr] < depth[q]
    <3>1. proc[q].p_pptr \in InTable /\ depth[proc[q].p_pptr] < depth[q]
      BY <1>16, <2>1 DEF Rooted
    <3>2. proc[q].p_pptr # p
      BY <1>6, <1>8
    <3>. QED BY <1>1, <1>3, <3>1, <3>2
  <2>. QED BY <1>2, <1>16, <2>1 DEF Rooted
<1>. QED BY <1>5, <1>15, <1>16, <1>17 DEF Tree

LEMMA ReapKeeps ==
    ASSUME Inv, NEW t \in Proc, NEW p \in Kids(t), Reap(t, p), UNCHANGED <<last_pid, new, jobs>>
    PROVE  Inv' /\ NobodyExits
<1>1. PICK m \in Nat : \E rank \in [Proc -> 0..m] : Ranked(rank)
  BY DEF Inv, Tree
<1>2. PICK rank \in [Proc -> 0..m] : Ranked(rank)
  BY <1>1
<1>3. Sorted(rank, m)
  BY <1>1, <1>2 DEF Sorted
<1>4. /\ p \in InTable /\ p \in Proc /\ p # 0 /\ p # InitTask /\ proc[p].state = "TASK_ZOMBIE" /\ p # NULL
      /\ p \in Live /\ InTable \subseteq Live /\ Live \subseteq Proc /\ 0 \in Live /\ InitTask \in Proc
  BY KidsIs, InTableIs, ParentsIs, Constants DEF Inv, InitOK, Reap, Live
<1>5. /\ task' = [nr \in Slot |-> IF task[nr] = p THEN NULL ELSE task[nr]]
      /\ proc' = Released(proc, p) /\ panic' = panic /\ WaitReturn(t) /\ new' = new /\ last_pid' = last_pid
      /\ jobs' = jobs
  BY <1>4 DEF Reap
<1>6. PICK os, ys : Taken(p, os, ys)
  BY <1>4, <1>5, ReapIs
<1>7. InTable' = InTable \ {p} /\ Live' = Live \ {p}
  <2>1. InTable' = InTable \ {p}
    BY <1>4, <1>5 DEF InTable
  <2>. QED BY <1>4, <2>1 DEF Live
<1>8. Tree'
  BY <1>3, <1>4, <1>6, <1>7, ReapTree
<1>9. TypeOK'
  <2>1. task' \in [Slot -> Proc \cup {NULL}]
    BY <1>5 DEF Inv, TypeOK
  <2>2. pc' \in [Proc -> {"user", "wait", "fork_page", "fork_mem"}] /\ arg' \in [Proc -> Args]
    BY <1>5, WaitReturnIs
  <2>. QED BY <1>5, <1>6, <2>1, <2>2 DEF Taken, Tables, Inv, TypeOK, Args
<1>10. ~panic' /\ NoForks'
  BY <1>5 DEF Inv, NoForks
<1>11. TableOK'
  <2>1. task'[0] = 0 /\ task'[InitTask] = InitTask
    BY <1>4, <1>5, Constants DEF Inv, TableOK
  <2>2. \A i, j \in Slot : task'[i] = task'[j] /\ task'[i] # NULL => i = j
    BY <1>5 DEF Inv, TableOK
  <2>3. \A q \in Proc : q \in Live' <=> proc'[q].state # "free"
    BY <1>4, <1>6, <1>7 DEF Taken, Inv, TableOK
  <2>. QED BY <2>1, <2>2, <2>3 DEF TableOK
<1>12. InitOK(proc')
  BY <1>4, <1>6 DEF Taken, Inv, InitOK
<1>13. Zombies'
  <2> SUFFICES ASSUME NEW q \in InTable', proc'[q].state = "TASK_ZOMBIE" PROVE proc'[q].p_cptr = NULL
    BY DEF Zombies
  <2>1. q \in InTable /\ q # p /\ q \in Proc
    BY <1>4, <1>7
  <2>2. proc[q].state = "TASK_ZOMBIE"
    BY <1>6, <2>1 DEF Taken
  <2>3. proc[q].p_cptr = NULL /\ Kids(q) = {}
    BY <1>4, <2>1, <2>2, FirstChildIs DEF Inv, Zombies
  <2>4. q # proc[p].p_pptr
    BY <1>4, <2>3 DEF Kids
  <2>. QED BY <1>6, <2>1, <2>3, <2>4 DEF Taken
<1>14. UniquePids'
  <2>1. Made' \cup {0} \subseteq (Made \cup {0}) \ {p} /\ Made \cup {0} \subseteq Proc
    BY <1>4, <1>5, <1>7 DEF Made
  <2>. QED BY <1>6, <2>1 DEF Taken, Inv, UniquePids
<1>15. NobodyExits
  BY <1>4, <1>6 DEF Taken, NobodyExits
<1>. QED BY <1>8, <1>9, <1>10, <1>11, <1>12, <1>13, <1>14, <1>15 DEF Inv

-----------------------------------------------------------------------------
LEMMA InvInit == ASSUME Init PROVE Inv
<1> DEFINE zero == [FreePage EXCEPT !.state = "TASK_RUNNING", !.p_pptr = 0, !.p_cptr = InitTask]
           one == [FreePage EXCEPT !.state = "TASK_RUNNING", !.pid = 1, !.p_pptr = 0]
<1>1. /\ FreePage \in TaskStruct /\ FreePage.state = "free"
      /\ zero \in TaskStruct /\ zero.state = "TASK_RUNNING" /\ zero.pid = 0 /\ zero.p_cptr = InitTask
      /\ one \in TaskStruct /\ one.state = "TASK_RUNNING" /\ one.pid = 1 /\ one.p_pptr = 0 /\ one.pgrp = 0
      /\ one.signal = {} /\ one.p_cptr = NULL /\ one.p_osptr = NULL /\ one.p_ysptr = NULL
  <2>1. /\ 0 \in 0..MaxPid /\ 1 \in 0..MaxPid /\ 0 \in Proc /\ InitTask \in Proc
        /\ "free" \in States /\ "TASK_RUNNING" \in States /\ "0" \in Codes
    BY ProcessAssumption, Constants DEF States, Codes
  <2>2. FreePage \in TaskStruct
    BY <2>1 DEF FreePage, TaskStruct
  <2>3. /\ FreePage.state = "free" /\ FreePage.pid = 0 /\ FreePage.pgrp = 0 /\ FreePage.signal = {}
        /\ FreePage.p_cptr = NULL /\ FreePage.p_osptr = NULL /\ FreePage.p_ysptr = NULL
    BY DEF FreePage
  <2>4. zero \in TaskStruct /\ zero.state = "TASK_RUNNING" /\ zero.pid = 0 /\ zero.p_cptr = InitTask
    BY <2>1, <2>2, <2>3 DEF TaskStruct
  <2>5. /\ one \in TaskStruct /\ one.state = "TASK_RUNNING" /\ one.pid = 1 /\ one.p_pptr = 0 /\ one.pgrp = 0
        /\ one.signal = {} /\ one.p_cptr = NULL /\ one.p_osptr = NULL /\ one.p_ysptr = NULL
    BY <2>1, <2>2, <2>3 DEF TaskStruct
  <2>. QED BY <2>2, <2>3, <2>4, <2>5
<1>2. \A p \in Proc : proc[p] = IF p = 0 THEN zero ELSE IF p = InitTask THEN one ELSE FreePage
  BY Constants DEF Init
<1> HIDE DEF zero, one
<1>3. proc \in Tables
  <2>1. proc = [p \in Proc |-> proc[p]]
    BY DEF Init
  <2>2. \A p \in Proc : proc[p] \in TaskStruct
    BY <1>1, <1>2
  <2>. QED BY <2>1, <2>2 DEF Tables
<1>4. \A nr \in Slot : task[nr] = IF nr \in {0, InitTask} THEN nr ELSE NULL
  BY DEF Init
<1>5. InTable = {InitTask} /\ Live = {0, InitTask}
  <2>1. InTable = {InitTask}
    BY <1>4, Constants DEF InTable
  <2>. QED BY <2>1 DEF Live
<1>6. TypeOK
  <2>1. task \in [Slot -> Proc \cup {NULL}]
    BY Constants DEF Init
  <2>2. /\ NoArg \in [pid : -MaxPid..MaxPid, option : Options]
        /\ NoFork \in [nr : Slot, page : Proc \cup {NULL}]
        /\ 0 \in 0..MaxPid /\ 0 \in 0..MaxJobs
    BY ProcessAssumption, Constants DEF NoArg, NoFork, Options
  <2>. QED BY <1>3, <2>1, <2>2 DEF Init, TypeOK, Tables
<1>7. TableOK
  <2>1. \A m, n \in Slot : task[m] = task[n] /\ task[m] # NULL => m = n
    BY <1>4
  <2>2. \A p \in Proc : p \in Live <=> proc[p].state # "free"
    BY <1>1, <1>2, <1>5
  <2>. QED BY <1>4, <2>1, <2>2, Constants DEF TableOK
<1>8. ~panic /\ NoForks
  BY DEF Init, NoForks
<1>9. proc[InitTask] = one /\ proc[0] = zero
  BY <1>2, Constants
<1>10. InitOK(proc) /\ Zombies
  BY <1>1, <1>5, <1>9 DEF InitOK, Zombies
<1>11. UniquePids
  <2>1. Made \cup {0} \subseteq {0, InitTask}
    BY <1>5 DEF Made
  <2>. QED BY <1>1, <1>9, <2>1, Constants DEF UniquePids, InitTask
<1>12. Tree
  <2> DEFINE f == [p \in Proc |-> 0]
  <2>1. f \in [Proc -> Nat] /\ f \in [Proc -> 0..0] /\ f[InitTask] = 0
    BY Constants
  <2>2. Rooted(f)
    BY <1>5, <2>1 DEF Rooted
  <2>3. Kids(0) = {InitTask} /\ Kids(InitTask) = {}
    BY <1>1, <1>5, <1>9, Constants DEF Kids
  <2>4. Lower(f, InitTask) = {} /\ Higher(f, InitTask) = {}
    BY <1>1, <1>9, <2>1, <2>3 DEF Lower, Higher
  <2>5. Ranked(f)
    BY <1>1, <1>5, <1>9, <2>1, <2>3, <2>4 DEF Ranked, TopOf, BottomOf
  <2> HIDE DEF f
  <2>. QED BY <2>1, <2>2, <2>5 DEF Tree
<1>. QED BY <1>6, <1>7, <1>8, <1>10, <1>11, <1>12 DEF Inv

(* One pass of waitpid over the children. *)
LEMMA ScanKeeps ==
    ASSUME Inv, NEW t \in Proc, Runs(t), NEW a \in Args, Scan(t, a)
    PROVE  Inv' /\ NobodyExits
<1>1. t \in Live /\ UNCHANGED <<last_pid, new, jobs>>
  BY RunsIs DEF Scan
<1>2. ASSUME NEW n \in FirstReported(t, a), Reap(t, Children(proc, t)[n]) PROVE Inv' /\ NobodyExits
  <2>1. Children(proc, t)[n] \in Kids(t)
    BY <1>1, ReportedIs
  <2>. QED BY <1>1, <1>2, <2>1, ReapKeeps
<1>3. ASSUME NEW n \in FirstReported(t, a), ReportStopped(t, Children(proc, t)[n]) PROVE Inv' /\ NobodyExits
  <2>1. Children(proc, t)[n] \in InTable
    BY <1>1, ReportedIs, KidsIs DEF Inv
  <2>. QED BY <1>1, <1>3, <2>1, ReportStoppedKeeps
<1>4. ASSUME ReportNone(t, a) PROVE Inv' /\ NobodyExits
  BY <1>1, <1>4, ReportNoneKeeps
<1>. QED BY <1>2, <1>3, <1>4 DEF Scan

LEMMA WaitPidsAre ==
    ASSUME Inv, NEW t, NEW pid \in WaitPids(t), NEW option \in Options
    PROVE  [pid |-> pid, option |-> option] \in Args
<1>1. \A c \in Kids(t) : proc[c].pid \in 0..MaxPid /\ proc[c].pgrp \in 0..MaxPid
  BY KidsIs DEF Inv, TypeOK, TaskStruct
<1>2. MaxPid \in Nat /\ MaxPid > 1
  BY ProcessAssumption
<1>3. pid \in -MaxPid..MaxPid
  BY <1>1, <1>2 DEF WaitPids
<1>. QED BY <1>3 DEF Args

LEMMA NobodyToTell == NobodyExits => OrphansTold
BY DEF NobodyExits, OrphansTold

LEMMA CallKeeps == ASSUME Inv, NEW t \in Proc, Call(t) PROVE Inv' /\ OrphansTold
<1>1. Runs(t) /\ t # 0
  BY DEF Call, InUserMode, Runs
<1>2. CASE \E fg \in Groups : SysExit(t, fg)
  <2>1. PICK fg \in Groups : t # InitTask /\ DoExit(t, "exit", fg)
    BY <1>2 DEF SysExit
  <2>. QED BY <1>1, <2>1, ExitKeeps
<1>3. CASE \E p \in InTable \ {InitTask}, sig \in {"SIGKILL", "SIGSTOP", "SIGCONT"} : Kill(p, sig)
  BY <1>3, KillKeeps, NobodyToTell
<1>4. CASE \E pid \in WaitPids(t), option \in Options : WaitPid(t, pid, option)
  <2>1. PICK pid \in WaitPids(t), option \in Options : Scan(t, [pid |-> pid, option |-> option])
    BY <1>4 DEF WaitPid
  <2>2. [pid |-> pid, option |-> option] \in Args
    BY WaitPidsAre
  <2>. QED BY <1>1, <2>1, <2>2, ScanKeeps, NobodyToTell
<1>5. CASE \E p \in InTable : \E g \in (Groups \cup {proc[p].pid}) \ {0} : SetPgid(t, p, g)
  BY <1>1, <1>5, SetPgidKeeps, NobodyToTell
<1>6. CASE SetSid(t)
  BY <1>6, SetSidKeeps, NobodyToTell
<1>. QED BY <1>2, <1>3, <1>4, <1>5, <1>6 DEF Call

LEMMA StepKeeps == ASSUME Inv, NEW t \in Proc, Step(t) PROVE Inv' /\ OrphansTold
<1>1. ASSUME NEW fg \in Groups, ExitBySignal(t, fg) PROVE Inv' /\ OrphansTold
  <2>1. t # InitTask /\ Runs(t)
    BY <1>1 DEF ExitBySignal, Inv, InitOK
  <2>2. PICK code \in {"exit", "SIGHUP", "SIGKILL"} : DoExit(t, code, fg)
    BY <1>1 DEF ExitBySignal
  <2>. QED BY <2>1, <2>2, ExitKeeps
<1>2. ASSUME WaitAgain(t) PROVE Inv' /\ OrphansTold
  <2>1. arg[t] \in Args
    BY DEF Inv, TypeOK, Args
  <2>. QED BY <1>2, <2>1, ScanKeeps, NobodyToTell DEF WaitAgain
<1>. QED BY <1>1, <1>2, IgnoreSignalKeeps, StopBySignalKeeps, WaitWokenKeeps, NobodyToTell DEF Step

LEMMA InvNext == ASSUME Inv, [Next]_vars PROVE Inv' /\ OrphansTold
<1>1. ASSUME NEW t \in Proc, InUserMode(t), Fork(t) PROVE Inv' /\ OrphansTold
  BY <1>1, ForkKeeps, NobodyToTell DEF InUserMode
<1>2. CASE UNCHANGED vars
  <2>1. Moved(proc, proc', {})
    BY <1>2, MovedNone DEF vars, Inv, TypeOK, Tables
  <2>2. jobs' \in 0..MaxJobs /\ UNCHANGED <<task, last_pid, pc, arg, new, panic>>
    BY <1>2 DEF vars, Inv, TypeOK
  <2>. QED BY <2>1, <2>2, OnlyMoved, NobodyToTell
<1>. QED BY <1>1, <1>2, CallKeeps, StepKeeps DEF Next

(* The process tree is as above in every state there is. *)
THEOREM InvAlways == Spec => []Inv
<1>1. Init => Inv
  BY InvInit
<1>2. Inv /\ [Next]_vars => Inv'
  BY InvNext
<1>. QED BY <1>1, <1>2, PTL DEF Spec

-----------------------------------------------------------------------------
LEMMA MadeIs == ASSUME Inv PROVE Made = InTable
<1>1. {new[u].page : u \in Proc} \subseteq {NULL}
  BY DEF Inv, NoForks, NoFork
<1>. QED BY <1>1 DEF Made, InTable

LEMMA InvAudits == ASSUME Inv PROVE AuditPtree
<1>1. PICK m \in Nat : \E rank \in [Proc -> 0..m] : Ranked(rank)
  BY DEF Inv, Tree
<1>2. PICK rank \in [Proc -> 0..m] : Ranked(rank)
  BY <1>1
<1>3. Sorted(rank, m)
  BY <1>1, <1>2 DEF Sorted
<1> SUFFICES ASSUME NEW p \in InTable
             PROVE  LET r == proc[p] IN
                    /\ {r.p_pptr, r.p_cptr, r.p_ysptr, r.p_osptr} \subseteq (InTable \cup {0, NULL}) \ {p}
                    /\ r.p_osptr # NULL => proc[r.p_osptr].p_pptr = r.p_pptr /\ proc[r.p_osptr].p_ysptr = p
                    /\ r.p_ysptr # NULL => proc[r.p_ysptr].p_pptr = r.p_pptr /\ proc[r.p_ysptr].p_osptr = p
                    /\ r.p_cptr # NULL => proc[r.p_cptr].p_pptr = p /\ proc[r.p_cptr].p_ysptr = NULL
  BY MadeIs DEF AuditPtree
<1> DEFINE o == proc[p].p_osptr
           y == proc[p].p_ysptr
           c == proc[p].p_cptr
<1>4. /\ p \in Proc /\ p \in Live /\ p # NULL /\ o \in Proc \cup {NULL} /\ y \in Proc \cup {NULL}
      /\ \A u : /\ Kids(u) \subseteq InTable
               /\ \A q \in Kids(u) : proc[q].p_pptr = u
  <2>1. p \in Proc /\ p \in Live
    BY InTableIs DEF Inv, Live
  <2>. QED BY <2>1, KidsIs, Constants DEF Inv, TypeOK, TaskStruct
<1>5. proc[p].p_pptr \in (InTable \cup {0, NULL}) \ {p}
  BY ParentsIs DEF Live
<1>6. o # NULL => o \in InTable \ {p} /\ proc[o].p_pptr = proc[p].p_pptr /\ proc[o].p_ysptr = p
  BY <1>3, <1>4, Mirror
<1>7. y # NULL => y \in InTable \ {p} /\ proc[y].p_pptr = proc[p].p_pptr /\ proc[y].p_osptr = p
  BY <1>3, <1>4, Mirror
<1>8. ASSUME c # NULL PROVE c \in InTable \ {p} /\ proc[c].p_pptr = p /\ proc[c].p_ysptr = NULL
  <2>1. c \in Kids(p)
    BY <1>4, <1>8, FirstChildIs
  <2>2. c \in InTable /\ proc[c].p_pptr = p
    BY <1>4, <2>1
  <2>3. c # p
    BY <2>2, ParentsIs
  <2>4. \A q \in Kids(p) : rank[q] <= rank[c]
    BY <1>2, <1>4, <2>1 DEF Ranked, TopOf
  <2>5. \A q \in Kids(p) : rank[q] \in Nat
    BY <1>3, RankIs, KidsIs DEF Inv
  <2>6. Higher(rank, c) = {}
    BY <2>1, <2>2, <2>4, <2>5 DEF Higher
  <2>7. proc[c].p_ysptr = NULL
    BY <1>2, <2>2, <2>6 DEF Ranked, BottomOf
  <2>. QED BY <2>2, <2>3, <2>7
<1> HIDE DEF o, y, c
<1>9. {proc[p].p_pptr, c, y, o} \subseteq (InTable \cup {0, NULL}) \ {p}
  BY <1>4, <1>5, <1>6, <1>7, <1>8
<1>. QED BY <1>6, <1>7, <1>8, <1>9 DEF o, y, c

LEMMA InvLists == ASSUME Inv PROVE EveryChildListed
<1>1. PICK m \in Nat : \E rank \in [Proc -> 0..m] : Ranked(rank)
  BY DEF Inv, Tree
<1>2. PICK rank \in [Proc -> 0..m] : Ranked(rank)
  BY <1>1
<1>3. Sorted(rank, m)
  BY <1>1, <1>2 DEF Sorted
<1>4. ASSUME NEW t \in Live, NEW kids, kids = Children(proc, t)
      PROVE  /\ {kids[n] : n \in 1..Len(kids)} = {p \in Made : proc[p].p_pptr = t}
             /\ \A j, n \in 1..Len(kids) : kids[j] = kids[n] => j = n
  <2>1. Listed(rank, t, kids)
    BY <1>3, <1>4, ChildrenAre
  <2>2. Kids(t) = {p \in Made : proc[p].p_pptr = t}
    BY MadeIs DEF Kids
  <2>3. {kids[n] : n \in 1..Len(kids)} = Kids(t)
    BY <2>1 DEF Listed
  <2>4. ASSUME NEW j \in 1..Len(kids), NEW n \in 1..Len(kids), kids[j] = kids[n] PROVE j = n
    <3>1. Len(kids) \in Nat /\ kids[n] \in Kids(t)
      BY <2>1 DEF Listed
    <3>2. rank[kids[n]] \in Nat
      BY <1>3, <3>1, RankIs, KidsIs DEF Inv
    <3>3. ~(j < n) /\ ~(n < j)
      BY <2>1, <2>4, <3>2 DEF Listed
    <3>. QED BY <3>1, <3>3
  <2>. QED BY <2>2, <2>3, <2>4
<1>5. Made \cup {0} = Live
  BY MadeIs DEF Live
<1>. QED BY <1>4, <1>5 DEF EveryChildListed

(* The links of the task_structs that fork, exit, waitpid and init's      *)
(* adoption of orphans keep: every task is once on the list of its parent, *)
(* and the kernel finds what it looks for there (audit_ptree, exit.c).     *)
THEOREM TreeIsWhole == Spec => []TreeOK
<1>1. Inv => TreeOK
  BY InvAudits, InvLists DEF Inv, TreeOK
<1>. QED BY <1>1, InvAlways, PTL

(* find_empty_process gives a new task a number that no task has, in       *)
(* whatever order the numbers are freed and used again (fork.c).           *)
THEOREM PidsAreUnique == Spec => []UniquePids
<1>1. Inv => UniquePids
  BY DEF Inv
<1>. QED BY <1>1, InvAlways, PTL

(* "Newly orphaned process groups are to receive a SIGHUP and a SIGCONT"   *)
(* (exit.c): do_exit asks about the group of the task that exits before it *)
(* has given its children away, and about theirs one by one, each time in  *)
(* a table that is half changed.  Whichever way an exit leaves a group     *)
(* orphaned, nobody stays stopped in it.                                   *)
THEOREM OrphansAreTold == Spec => OrphanedJobsGoOn
<1>1. Inv /\ [Next]_vars => [OrphansTold]_vars
  BY InvNext
<1>. QED BY <1>1, InvAlways, PTL DEF Spec, OrphanedJobsGoOn, OrphansTold
=============================================================================
