---------------------------- MODULE DriverProofs ----------------------------
(***************************************************************************)
(* Proofs about the block devices and the kernel timers.                   *)
(*                                                                         *)
(* The first part is about the queue of a device, for any number of        *)
(* entries, of blocks and of tasks, with and without swapping.  The        *)
(* inductive invariant adds to QueueOK who has a buffer locked (an entry   *)
(* of the queue, or one task on its way there), that block writes only     *)
(* have entries of the lower two thirds, and the elevator in a form that   *)
(* paging requests cannot disturb: every run of block requests up to the   *)
(* end of the queue turns around at most once (Sweeps).                    *)
(*                                                                         *)
(* The second part is about the hard disk driver, for any controller that  *)
(* answers, fails or says nothing, any number of requests and any          *)
(* MAX_ERRORS: a request always has someone to go on with it, and one that *)
(* has ended well has moved each of its sectors once.  The controller may  *)
(* not answer SPECIFY with the error for which the last request is given   *)
(* up (lastStraw): the driver would go on with no request and write        *)
(* through CURRENT, a NULL pointer.                                        *)
(*                                                                         *)
(* The third part is about the kernel timers, for any number of entries,   *)
(* any delays and do_timer inside itself to any depth.  What the lists of  *)
(* differences promise is a statement about their sums (Lasts); the        *)
(* inductive invariant adds how low the head can be, by who may interrupt  *)
(* do_timer (TimersInv).                                                   *)
(***************************************************************************)
EXTENDS RequestQueue, HardDisk, Timer, Integers, FiniteSetTheorems, SequenceTheorems, WellFoundedInduction, TLAPS

-----------------------------------------------------------------------------
(* The queue of a device. *)

(* The entries for block writes. *)
Lower == (NR_REQUEST * 2) \div 3

Looking == {"find", "none", "asleep"}

(* The tasks with a request to make have locked its buffer, each its own.  *)
Callers ==
    \A t \in Task : pc[t] \in Looking =>
        /\ call[t] \in Calls
        /\ call[t].ahead => call[t].bh
        /\ call[t].bh =>
              /\ call[t].sector \in b_lock
              /\ \A n \in 1..Len(queue) : queue[n].bh => queue[n].sector # call[t].sector
              /\ \A u \in Task : pc[u] \in Looking /\ call[u].bh /\ call[u].sector = call[t].sector => u = t

(* A task that waits for a page has one entry, and only those tasks have.  *)
Pagers ==
    \A m \in 1..Len(queue) : queue[m].waiting \in Task =>
        /\ pc[queue[m].waiting] = "page"
        /\ \A n \in 1..Len(queue) : queue[n].waiting = queue[m].waiting => n = m

(* Block writes keep to their entries. *)
WritesBelow ==
    \A n \in 1..Len(queue) : queue[n].bh /\ queue[n].cmd = WRITE => queue[n].slot < Lower

(* Where a queue turns around. *)
Turns(q, n) == ~IN_ORDER(q[n], q[n + 1])

Sweeps ==
    \A f \in 1..Len(queue) : (\A k \in f..Len(queue) : queue[k].bh) =>
        \A m, n \in f..(Len(queue) - 1) : Turns(queue, m) /\ Turns(queue, n) => m = n

QueueTypes ==
    /\ queue \in Seq(Requests)
    /\ used \subseteq Slot
    /\ b_lock \subseteq Block
    /\ pc \in [Task -> {"idle", "find", "none", "asleep", "page"}]
    /\ call \in [Task -> Calls \cup {IdleCall}]

QueueInv == QueueTypes /\ EntriesAreQueued /\ QueuedIsLocked /\ Callers /\ Pagers /\ WritesBelow /\ Sweeps

-----------------------------------------------------------------------------
(* A set of numbers has a least one, and below a bound a largest one.      *)
LEMMA LeastOf == ASSUME NEW S \in SUBSET Nat, S # {} PROVE \E n \in S : \A m \in S : n <= m
<1>1. \E n \in S : \A m \in S : ~(<<m, n>> \in OpToRel(<, Nat))
  BY NatLessThanWellFounded, WFMin
<1>2. \E n \in S : \A m \in S : ~(m < n)
  BY <1>1 DEF OpToRel
<1>. QED BY <1>2

(* The largest one of a set of numbers below a bound. *)
LEMMA LargestOf ==
    ASSUME NEW N \in Nat, NEW S \in SUBSET (0..N), S # {}
    PROVE  \E n \in S : \A m \in S : m <= n
<1> DEFINE D == {d \in 0..N : N - d \in S}
<1>1. D \subseteq Nat /\ D # {}
  <2>1. PICK n \in S : TRUE
    OBVIOUS
  <2>2. N - n \in 0..N /\ N - (N - n) = n
    OBVIOUS
  <2>. QED BY <2>1, <2>2
<1>2. PICK d \in D : \A e \in D : d <= e
  <2>. HIDE DEF D
  <2>. QED BY <1>1, LeastOf
<1>3. ASSUME NEW m \in S PROVE m <= N - d
  <2>1. m \in 0..N /\ d \in 0..N /\ N - (N - m) = m
    BY <1>2
  <2>2. N - m \in D
    BY <2>1
  <2>3. d <= N - m
    BY <1>2, <2>2
  <2>. QED BY <2>1, <2>3
<1>. QED BY <1>2, <1>3

(* The sequence with one more element. *)
Inserted(s, e, spot) == SubSeq(s, 1, spot) \o <<e>> \o SubSeq(s, spot + 1, Len(s))

(* What a sequence with an element put in after a place holds. *)
LEMMA InsertIs ==
    ASSUME NEW s \in Seq(Requests), NEW e \in Requests, NEW spot \in 0..Len(s)
    PROVE  /\ Inserted(s, e, spot) \in Seq(Requests) /\ Len(Inserted(s, e, spot)) = Len(s) + 1
           /\ \A k \in 1..spot : Inserted(s, e, spot)[k] = s[k]
           /\ Inserted(s, e, spot)[spot + 1] = e
           /\ \A k \in (spot + 2)..(Len(s) + 1) : Inserted(s, e, spot)[k] = s[k - 1]
<1> DEFINE a == SubSeq(s, 1, spot)
           b == SubSeq(s, spot + 1, Len(s))
           c == a \o <<e>>
<1>1. a \in Seq(Requests) /\ Len(a) = spot /\ \A k \in 1..spot : a[k] = s[k]
  BY SubSeqProperties
<1>2. b \in Seq(Requests) /\ Len(b) = Len(s) - spot /\ \A k \in 1..(Len(s) - spot) : b[k] = s[spot + k]
  BY SubSeqProperties
<1>. HIDE DEF a, b
<1>3. <<e>> \in Seq(Requests) /\ Len(<<e>>) = 1 /\ <<e>>[1] = e
  OBVIOUS
<1>4. c \in Seq(Requests) /\ Len(c) = spot + 1 /\ (\A k \in 1..spot : c[k] = s[k]) /\ c[spot + 1] = e
  BY <1>1, <1>3, ConcatProperties
<1>. HIDE DEF c
<1>5. /\ c \o b \in Seq(Requests) /\ Len(c \o b) = Len(s) + 1
      /\ \A k \in 1..(spot + 1) : (c \o b)[k] = c[k]
      /\ \A k \in (spot + 2)..(Len(s) + 1) : (c \o b)[k] = b[k - (spot + 1)]
  BY <1>2, <1>4, ConcatProperties
<1>6. \A k \in (spot + 2)..(Len(s) + 1) : b[k - (spot + 1)] = s[k - 1]
  <2> SUFFICES ASSUME NEW k \in (spot + 2)..(Len(s) + 1) PROVE b[k - (spot + 1)] = s[k - 1]
    OBVIOUS
  <2>1. k - (spot + 1) \in 1..(Len(s) - spot) /\ spot + (k - (spot + 1)) = k - 1
    OBVIOUS
  <2>. QED BY <2>1, <1>2
<1>7. (\A k \in 1..spot : (c \o b)[k] = s[k]) /\ (c \o b)[spot + 1] = e
  BY <1>4, <1>5
<1>8. c \o b = Inserted(s, e, spot)
  BY DEF a, b, c, Inserted
<1>. QED BY <1>5, <1>6, <1>7, <1>8

(* add_request puts the request somewhere behind the one being served: at  *)
(* the end, or at the first place where the elevator stops.                *)
LEMMA AddedAt ==
    ASSUME NEW q \in Seq(Requests), NEW req \in Requests
    PROVE  \E spot \in 0..Len(q) :
              /\ q # <<>> => spot >= 1
              /\ q # <<>> /\ spot < Len(q) => Stop(q[spot], req, q[spot + 1])
              /\ \A k \in 1..(spot - 1) : ~Stop(q[k], req, q[k + 1])
              /\ AddRequest(q, req) = Inserted(q, req, spot)
<1>1. CASE q = <<>>
  <2>1. AddRequest(q, req) = <<req>> /\ Len(q) = 0
    BY <1>1 DEF AddRequest
  <2>2. SubSeq(q, 1, 0) = <<>> /\ SubSeq(q, 1, Len(q)) = <<>>
    BY <1>1, <2>1, SubSeqEmpty
  <2>3. <<>> \o <<req>> \o <<>> = <<req>>
    BY ConcatEmptySeq
  <2>4. AddRequest(q, req) = SubSeq(q, 1, 0) \o <<req>> \o SubSeq(q, 0 + 1, Len(q))
    BY <2>1, <2>2, <2>3
  <2>5. \A k \in 1..(0 - 1) : ~Stop(q[k], req, q[k + 1])
    OBVIOUS
  <2>6. 0 \in 0..Len(q)
    BY <2>1
  <2>. QED
    <3>. WITNESS 0 \in 0..Len(q)
    <3>. QED BY <1>1, <2>1, <2>4, <2>5 DEF Inserted
<1>2. CASE q # <<>>
  <2> DEFINE stops == {n \in 1..Len(q) : n = Len(q) \/ Stop(q[n], req, q[n + 1])}
             spot == CHOOSE n \in stops : \A m \in stops : n <= m
  <2>1. Len(q) \in Nat /\ Len(q) >= 1
    BY <1>2, EmptySeq, LenProperties
  <2>2. stops \subseteq Nat /\ stops # {}
    BY <2>1
  <2>3. spot \in stops /\ \A m \in stops : spot <= m
    <3>1. \E n \in stops : \A m \in stops : n <= m
      <4>. HIDE DEF stops
      <4>. QED BY <2>2, LeastOf
    <3>. QED BY <3>1
  <2>4. AddRequest(q, req) = SubSeq(q, 1, spot) \o <<req>> \o SubSeq(q, spot + 1, Len(q))
    BY <1>2 DEF AddRequest
  <2>. HIDE DEF spot
  <2>5. \A k \in 1..(spot - 1) : ~Stop(q[k], req, q[k + 1])
    <3> SUFFICES ASSUME NEW k \in 1..(spot - 1), Stop(q[k], req, q[k + 1]) PROVE FALSE
      OBVIOUS
    <3>1. k \in stops
      BY <2>1, <2>3
    <3>. QED BY <2>3, <3>1
  <2>6. spot \in 0..Len(q) /\ spot >= 1 /\ (spot < Len(q) => Stop(q[spot], req, q[spot + 1]))
    BY <2>1, <2>3
  <2>. QED
    <3> USE <2>6
    <3>. WITNESS spot \in 0..Len(q)
    <3>. QED BY <2>4, <2>5, <2>6 DEF Inserted
<1>. QED BY <1>1, <1>2

-----------------------------------------------------------------------------
(* IN_ORDER puts requests in the order of command and sector. *)
LEMMA Order ==
    ASSUME NEW r \in Requests, NEW s \in Requests, NEW u \in Requests
    PROVE  /\ IN_ORDER(r, s) /\ IN_ORDER(s, u) => IN_ORDER(r, u)
           /\ r.sector # s.sector => IN_ORDER(r, s) \/ IN_ORDER(s, r)
           /\ ~(IN_ORDER(r, s) /\ IN_ORDER(s, r))
<1>1. ASSUME NEW x \in Requests PROVE x.cmd \in Nat /\ x.sector \in Nat
  <2>1. x.cmd \in {READ, WRITE} /\ x.sector \in Block /\ Block \subseteq Nat
    BY QueueAssumption DEF Requests
  <2>2. READ \in Nat /\ WRITE \in Nat
    BY DEF READ, WRITE
  <2>. QED BY <2>1, <2>2
<1>2. /\ r.cmd \in Nat /\ s.cmd \in Nat /\ u.cmd \in Nat
      /\ r.sector \in Nat /\ s.sector \in Nat /\ u.sector \in Nat
  BY <1>1
<1>. QED BY <1>2 DEF IN_ORDER

(* A run of block requests at the end of the queue, from f on, in which    *)
(* the elevator did not stop for req: if it has a turn, all requests after *)
(* the turn come before req.                                               *)
LEMMA NoStop ==
    ASSUME NEW q \in Seq(Requests), NEW req \in Requests, req.bh,
           NEW f \in 1..Len(q), NEW m \in f..(Len(q) - 1), Turns(q, m),
           \A k \in f..Len(q) : req.sector # q[k].sector,
           \A k \in m..(Len(q) - 1) : ~Stop(q[k], req, q[k + 1])
    PROVE  \A k \in (m + 1)..Len(q) : IN_ORDER(q[k], req)
<1> DEFINE bad == {k \in (m + 1)..Len(q) : ~IN_ORDER(q[k], req)}
<1>0. \A k \in 1..Len(q) : q[k] \in Requests
  BY ElementOfSeq
<1>1. SUFFICES ASSUME bad # {} PROVE FALSE
  OBVIOUS
<1>2. bad \subseteq Nat
  OBVIOUS
<1>3. PICK k \in bad : \A j \in bad : k <= j
  <2>. HIDE DEF bad
  <2>. QED BY <1>1, <1>2, LeastOf
<1>4. k \in (m + 1)..Len(q) /\ ~IN_ORDER(q[k], req) /\ k - 1 \in m..(Len(q) - 1) /\ (k - 1) + 1 = k
  BY <1>3
<1>5. k \in f..Len(q) /\ k \in 1..Len(q) /\ k - 1 \in 1..Len(q)
  BY <1>4
<1>6. IN_ORDER(req, q[k])
  BY <1>0, <1>4, <1>5, Order
<1>7. ~Stop(q[k - 1], req, q[k])
  BY <1>4
<1>8. ~IN_ORDER(q[k - 1], req) /\ IN_ORDER(q[k - 1], q[k])
  BY <1>6, <1>7 DEF Stop
<1>9. k - 1 # m
  BY <1>4, <1>8 DEF Turns
<1>10. k - 1 \in bad
  BY <1>4, <1>8, <1>9
<1>. QED BY <1>3, <1>10, <1>4

(* The elevator: a request that is added where add_request stops makes no  *)
(* second turn.                                                            *)
LEMMA AddSweeps ==
    ASSUME QueueTypes, Sweeps, NEW req \in Requests, queue' = AddRequest(queue, req),
           req.bh => \A k \in 1..Len(queue) : queue[k].bh => req.sector # queue[k].sector
    PROVE  Sweeps'
<1>0. queue \in Seq(Requests) /\ Len(queue) \in Nat /\ \A k \in 1..Len(queue) : queue[k] \in Requests
  BY ElementOfSeq, LenProperties DEF QueueTypes
<1>1. PICK spot \in 0..Len(queue) :
         /\ queue # <<>> => spot >= 1
         /\ queue # <<>> /\ spot < Len(queue) => Stop(queue[spot], req, queue[spot + 1])
         /\ \A k \in 1..(spot - 1) : ~Stop(queue[k], req, queue[k + 1])
         /\ AddRequest(queue, req) = Inserted(queue, req, spot)
  BY <1>0, AddedAt
<1>2. PICK q : q = queue'
  OBVIOUS
<1>3. /\ Len(q) = Len(queue) + 1
      /\ \A k \in 1..spot : q[k] = queue[k]
      /\ q[spot + 1] = req
      /\ \A k \in (spot + 2)..Len(q) : q[k] = queue[k - 1]
  <2>1. q = Inserted(queue, req, spot)
    BY <1>1, <1>2
  <2>2. /\ Inserted(queue, req, spot) \in Seq(Requests)
        /\ Len(Inserted(queue, req, spot)) = Len(queue) + 1
        /\ \A k \in 1..spot : Inserted(queue, req, spot)[k] = queue[k]
        /\ Inserted(queue, req, spot)[spot + 1] = req
        /\ \A k \in (spot + 2)..(Len(queue) + 1) : Inserted(queue, req, spot)[k] = queue[k - 1]
    <3>1. req \in Requests /\ queue \in Seq(Requests) /\ spot \in 0..Len(queue)
      BY <1>0
    <3>. QED BY <3>1, InsertIs
  <2>. QED BY <2>1, <2>2
<1>4. SUFFICES ASSUME NEW f \in 1..Len(q), \A k \in f..Len(q) : q[k].bh,
                      NEW m \in f..(Len(q) - 1), NEW n \in f..(Len(q) - 1), Turns(q, m), Turns(q, n)
               PROVE  m = n
  BY <1>2 DEF Sweeps, Turns
<1> DEFINE g == IF f <= spot THEN f ELSE IF f = spot + 1 THEN f ELSE f - 1
<1>5. CASE f = Len(q)
  BY <1>5, <1>0, <1>3
<1>6. CASE f # Len(q)
  <2>1. g \in 1..Len(queue) /\ f < Len(q) /\ f <= g + 1
    BY <1>0, <1>1, <1>3, <1>6
  <2>2. \A k \in g..Len(queue) : queue[k].bh
    <3> SUFFICES ASSUME NEW k \in g..Len(queue) PROVE queue[k].bh
      OBVIOUS
    <3>1. CASE k <= spot
      <4>1. k \in f..Len(q) /\ k \in 1..spot
        BY <3>1, <1>0, <1>3, <2>1
      <4>. QED BY <4>1, <1>3, <1>4
    <3>2. CASE k > spot
      <4>1. k + 1 \in f..Len(q) /\ k + 1 \in (spot + 2)..Len(q) /\ (k + 1) - 1 = k
        BY <3>2, <1>0, <1>3, <2>1
      <4>. QED BY <4>1, <1>3, <1>4
    <3>. QED BY <3>1, <3>2, <1>0, <2>1
  <2>3. \A j, k \in g..(Len(queue) - 1) : Turns(queue, j) /\ Turns(queue, k) => j = k
    BY <2>1, <2>2 DEF Sweeps
  <2> HIDE DEF g
  <2> DEFINE Old(k) == IF k <= spot THEN k ELSE k - 1
  (* A turn of the new queue is a turn of the old one, unless req is last. *)
  <2>4. ASSUME NEW k \in f..(Len(q) - 1), Turns(q, k), k # spot \/ spot < Len(queue)
        PROVE  Old(k) \in g..(Len(queue) - 1) /\ Turns(queue, Old(k)) /\ k # spot + 1
    <3>1. CASE k < spot
      <4>1. k \in 1..spot /\ k + 1 \in 1..spot /\ k \in g..(Len(queue) - 1)
        BY <3>1, <1>0, <1>1, <1>3 DEF g
      <4>. QED BY <3>1, <4>1, <2>4, <1>3 DEF Turns
    <3>2. CASE k = spot
      <4>1. spot < Len(queue) /\ spot \in g..(Len(queue) - 1) /\ queue # <<>> /\ spot \in 1..spot
        BY <3>2, <2>4, <1>0, <1>1, <1>3, EmptySeq DEF g
      <4>2. req.bh
        BY <3>2, <1>0, <1>3, <1>4
      <4>3. IN_ORDER(queue[spot], req) \/ ~IN_ORDER(queue[spot], queue[spot + 1])
        BY <4>1, <4>2, <1>1 DEF Stop
      <4>4. ~IN_ORDER(queue[spot], req)
        BY <3>2, <4>1, <2>4, <1>3 DEF Turns
      <4>. QED BY <3>2, <4>1, <4>3, <4>4 DEF Turns
    <3>3. CASE k = spot + 1
      <4>1. spot < Len(queue) /\ spot + 2 \in (spot + 2)..Len(q) /\ (spot + 2) - 1 = spot + 1 /\ (spot + 1) + 1 = spot + 2
        BY <3>3, <1>0, <1>1, <1>3
      <4>2. q[spot + 2] = queue[spot + 1]
        BY <4>1, <1>3
      <4>3. queue # <<>> /\ spot + 1 \in f..Len(q)
        BY <3>3, <4>1, <1>0, <1>1, <1>3, EmptySeq
      <4>4. req.bh
        BY <4>3, <1>3, <1>4
      <4>5. IN_ORDER(req, queue[spot + 1])
        BY <4>1, <4>3, <4>4, <1>1 DEF Stop
      <4>. QED BY <3>3, <4>1, <4>2, <4>5, <2>4, <1>3 DEF Turns
    <3>4. CASE k > spot + 1
      <4>1. k \in (spot + 2)..Len(q) /\ k + 1 \in (spot + 2)..Len(q) /\ (k + 1) - 1 = (k - 1) + 1
        BY <3>4, <1>0, <1>1, <1>3
      <4>2. q[k] = queue[k - 1] /\ q[k + 1] = queue[(k - 1) + 1]
        BY <4>1, <1>3
      <4>3. k - 1 \in g..(Len(queue) - 1)
        BY <3>4, <1>0, <1>1, <1>3 DEF g
      <4>4. Turns(queue, k - 1)
        BY <2>4, <4>2 DEF Turns
      <4>. QED BY <3>4, <4>3, <4>4, <1>0
    <3>. QED BY <3>1, <3>2, <3>3, <3>4, <1>0, <1>3
  (* If req is last and makes a turn, then it is the only one. *)
  <2>5. ASSUME NEW k \in f..(Len(q) - 1), Turns(q, k), spot = Len(queue), Turns(q, spot), f <= spot
        PROVE  k = spot
    <3>1. SUFFICES ASSUME k # spot PROVE FALSE
      OBVIOUS
    <3>2. k \in g..(Len(queue) - 1) /\ Turns(queue, k) /\ k < spot
      BY <3>1, <2>4, <2>5, <1>0, <1>3
    <3>3. req.bh
      <4>1. spot + 1 \in f..Len(q)
        BY <2>5, <1>0, <1>3
      <4>. QED BY <4>1, <1>3, <1>4
    <3>4. \A j \in g..Len(queue) : req.sector # queue[j].sector
      BY <3>3, <2>1, <2>2, <1>0
    <3>5. \A j \in k..(Len(queue) - 1) : ~Stop(queue[j], req, queue[j + 1])
      BY <3>2, <2>1, <2>5, <1>0, <1>1
    <3>6. spot \in (k + 1)..Len(queue)
      BY <3>2, <2>1, <2>5, <1>0
    <3>7. IN_ORDER(queue[spot], req)
      BY <1>0, <2>1, <3>2, <3>3, <3>4, <3>5, <3>6, NoStop
    <3>8. q[spot] = queue[spot] /\ q[spot + 1] = req
      BY <1>3, <2>1, <2>5, <1>0
    <3>. QED BY <2>5, <3>7, <3>8 DEF Turns
  <2>6. CASE spot = Len(queue) /\ (m = spot \/ n = spot)
    BY <2>5, <2>6, <1>4, <1>0, <1>3
  <2>7. CASE ~(spot = Len(queue) /\ (m = spot \/ n = spot))
    <3>1. (m # spot \/ spot < Len(queue)) /\ (n # spot \/ spot < Len(queue))
      BY <2>7, <1>0, <1>1
    <3>2. Old(m) \in g..(Len(queue) - 1) /\ Turns(queue, Old(m)) /\ m # spot + 1
      BY <3>1, <2>4, <1>4
    <3>3. Old(n) \in g..(Len(queue) - 1) /\ Turns(queue, Old(n)) /\ n # spot + 1
      BY <3>1, <2>4, <1>4
    <3>4. Old(m) = Old(n)
      BY <2>3, <3>2, <3>3
    <3>. QED BY <3>2, <3>3, <3>4, <1>0, <1>3
  <2>. QED BY <2>6, <2>7
<1>. QED BY <1>5, <1>6

-----------------------------------------------------------------------------
(* Where a request is added, the others keep their order. *)
LEMMA AddedIs ==
    ASSUME QueueTypes, NEW req \in Requests, queue' = AddRequest(queue, req)
    PROVE  /\ queue' \in Seq(Requests) /\ Len(queue') = Len(queue) + 1 /\ Len(queue) \in Nat
           /\ \E spot \in 0..Len(queue) :
                 /\ \A k \in 1..spot : queue'[k] = queue[k]
                 /\ queue'[spot + 1] = req
                 /\ \A k \in (spot + 2)..(Len(queue) + 1) : queue'[k] = queue[k - 1]
<1>0. queue \in Seq(Requests) /\ Len(queue) \in Nat
  BY LenProperties DEF QueueTypes
<1>1. PICK spot \in 0..Len(queue) : AddRequest(queue, req) = Inserted(queue, req, spot)
  BY <1>0, AddedAt
<1>a. Inserted(queue, req, spot) \in Seq(Requests)
  BY <1>0, InsertIs
<1>2. /\ Len(Inserted(queue, req, spot)) = Len(queue) + 1
      /\ \A k \in 1..spot : Inserted(queue, req, spot)[k] = queue[k]
      /\ Inserted(queue, req, spot)[spot + 1] = req
      /\ \A k \in (spot + 2)..(Len(queue) + 1) : Inserted(queue, req, spot)[k] = queue[k - 1]
  BY <1>0, InsertIs
<1>3. queue' = Inserted(queue, req, spot)
  BY <1>1
<1>. QED BY <1>0, <1>a, <1>2, <1>3

(* Every entry of the new queue is the new one or an old one, no two of    *)
(* them the same, and no old one is lost.                                  *)
LEMMA AddedOnce ==
    ASSUME QueueTypes, NEW req \in Requests, queue' = AddRequest(queue, req)
    PROVE  \E old \in [1..Len(queue') -> 0..Len(queue)] :
              /\ \A k \in 1..Len(queue') : queue'[k] = IF old[k] = 0 THEN req ELSE queue[old[k]]
              /\ \A k, m \in 1..Len(queue') : old[k] = old[m] => k = m
              /\ \A j \in 0..Len(queue) : \E k \in 1..Len(queue') : old[k] = j
<1>1. PICK spot \in 0..Len(queue) :
         /\ \A k \in 1..spot : queue'[k] = queue[k]
         /\ queue'[spot + 1] = req
         /\ \A k \in (spot + 2)..(Len(queue) + 1) : queue'[k] = queue[k - 1]
  BY AddedIs
<1>2. Len(queue') = Len(queue) + 1 /\ Len(queue) \in Nat
  BY AddedIs
<1> DEFINE old == [k \in 1..Len(queue') |-> IF k <= spot THEN k ELSE IF k = spot + 1 THEN 0 ELSE k - 1]
<1>3. old \in [1..Len(queue') -> 0..Len(queue)]
  BY <1>2
<1>4. \A k \in 1..Len(queue') : queue'[k] = IF old[k] = 0 THEN req ELSE queue[old[k]]
  <2> SUFFICES ASSUME NEW k \in 1..Len(queue')
               PROVE  queue'[k] = IF old[k] = 0 THEN req ELSE queue[old[k]]
    OBVIOUS
  <2>1. CASE k <= spot
    <3>1. old[k] = k /\ k # 0 /\ k \in 1..spot
      BY <2>1, <1>2
    <3>. QED BY <3>1, <1>1
  <2>2. CASE k = spot + 1
    <3>1. old[k] = 0
      BY <2>2, <1>2
    <3>. QED BY <3>1, <2>2, <1>1
  <2>3. CASE k > spot + 1
    <3>1. old[k] = k - 1 /\ k - 1 # 0 /\ k \in (spot + 2)..(Len(queue) + 1)
      BY <2>3, <1>2
    <3>. QED BY <3>1, <1>1
  <2>. QED BY <2>1, <2>2, <2>3, <1>2
<1>5. \A k, m \in 1..Len(queue') : old[k] = old[m] => k = m
  BY <1>2
<1>6. ASSUME NEW j \in 0..Len(queue) PROVE \E k \in 1..Len(queue') : old[k] = j
  <2> DEFINE k == IF j = 0 THEN spot + 1 ELSE IF j <= spot THEN j ELSE j + 1
  <2>1. k \in 1..Len(queue')
    BY <1>2
  <2>2. old[k] = j
    BY <1>2
  <2>. QED BY <2>1, <2>2
<1>. QED
  <2> HIDE DEF old
  <2> USE <1>3
  <2> WITNESS old \in [1..Len(queue') -> 0..Len(queue)]
  <2>. QED BY <1>4, <1>5, <1>6

(* The first request is taken off. *)
LEMMA TailIs ==
    ASSUME QueueTypes, queue # <<>>
    PROVE  /\ Len(queue) \in Nat /\ Len(queue) >= 1 /\ Head(queue) = queue[1] /\ queue[1] \in Requests
           /\ Tail(queue) \in Seq(Requests) /\ Len(Tail(queue)) = Len(queue) - 1
           /\ \A k \in 1..(Len(queue) - 1) : Tail(queue)[k] = queue[k + 1]
<1>1. Len(queue) \in Nat /\ Len(queue) >= 1
  BY LenProperties, EmptySeq DEF QueueTypes
<1>2. queue[1] \in Requests /\ Head(queue) = queue[1]
  BY <1>1, ElementOfSeq DEF QueueTypes
<1>. QED BY <1>1, <1>2, HeadTailProperties DEF QueueTypes

(* The search from the top finds a free entry that the request may use. *)
LEMMA SlotIs ==
    ASSUME NEW c \in Calls, Free(c) # {}
    PROVE  LET slot == CHOOSE s \in Free(c) : \A r \in Free(c) : r <= s
           IN  slot \in Slot /\ slot \notin used /\ slot < Limit(c)
<1>1. NR_REQUEST - 1 \in Nat /\ Free(c) \in SUBSET (0..(NR_REQUEST - 1))
  BY QueueAssumption DEF Free, Slot
<1>2. \E s \in Free(c) : \A r \in Free(c) : r <= s
  BY <1>1, LargestOf
<1>. QED BY <1>2 DEF Free

-----------------------------------------------------------------------------
(* The empty queue satisfies the invariant. *)
LEMMA QueueInit == Init => QueueInv
<1> SUFFICES ASSUME Init PROVE QueueInv
  OBVIOUS
<1>1. queue = <<>> /\ Len(queue) = 0 /\ 1..Len(queue) = {}
  BY DEF Init
<1>2. QueueTypes
  BY DEF Init, QueueTypes
<1>3. EntriesAreQueued /\ QueuedIsLocked /\ Pagers /\ WritesBelow /\ Sweeps
  BY <1>1 DEF Init, EntriesAreQueued, QueuedIsLocked, Pagers, WritesBelow, Sweeps
<1>4. Callers
  BY DEF Init, Callers, Looking
<1>. QED BY <1>2, <1>3, <1>4 DEF QueueInv

(* A task locks its buffer, or wants a page. *)
LEMMA StartStep == ASSUME QueueInv, NEW t \in Task, NEW c \in Calls, Start(t, c) PROVE QueueInv'
<1>0. QueueTypes /\ EntriesAreQueued /\ QueuedIsLocked /\ Callers /\ Pagers /\ WritesBelow /\ Sweeps
  BY DEF QueueInv
<1>1. /\ pc[t] = "idle" /\ c.sector \in Block /\ (c.ahead => c.bh)
      /\ c.bh => c.sector \notin b_lock
      /\ b_lock' = IF c.bh THEN b_lock \cup {c.sector} ELSE b_lock
      /\ call' = [call EXCEPT ![t] = c] /\ pc' = [pc EXCEPT ![t] = "find"]
      /\ queue' = queue /\ used' = used
  BY DEF Start, Goto, Calls
<1>2. QueueTypes'
  BY <1>0, <1>1 DEF QueueTypes
<1>3. EntriesAreQueued' /\ WritesBelow' /\ Sweeps'
  BY <1>0, <1>1 DEF EntriesAreQueued, WritesBelow, Sweeps, Turns
<1>4. QueuedIsLocked'
  BY <1>0, <1>1 DEF QueuedIsLocked
<1>5. Pagers'
  BY <1>0, <1>1 DEF Pagers, QueueTypes
<1>6. Callers'
  <2> SUFFICES ASSUME NEW u \in Task, pc'[u] \in Looking
               PROVE  /\ call'[u] \in Calls
                      /\ call'[u].ahead => call'[u].bh
                      /\ call'[u].bh =>
                            /\ call'[u].sector \in b_lock'
                            /\ \A n \in 1..Len(queue') : queue'[n].bh => queue'[n].sector # call'[u].sector
                            /\ \A v \in Task : pc'[v] \in Looking /\ call'[v].bh
                                               /\ call'[v].sector = call'[u].sector => v = u
    BY DEF Callers
  <2>1. \A v \in Task \ {t} : pc'[v] = pc[v] /\ call'[v] = call[v]
    BY <1>0, <1>1 DEF QueueTypes
  <2>2. call'[t] = c /\ pc'[t] = "find"
    BY <1>0, <1>1 DEF QueueTypes
  <2>3. CASE u = t
    BY <2>1, <2>2, <2>3, <1>0, <1>1 DEF Callers, QueuedIsLocked
  <2>4. CASE u # t
    <3>1. pc[u] \in Looking /\ call'[u] = call[u]
      BY <2>1, <2>4
    <3>2. call[u].bh => call[u].sector \in b_lock
      BY <3>1, <1>0 DEF Callers
    <3>. QED BY <2>1, <2>2, <3>1, <3>2, <1>0, <1>1 DEF Callers
  <2>. QED BY <2>3, <2>4
<1>. QED BY <1>2, <1>3, <1>4, <1>5, <1>6 DEF QueueInv

(* The request of a task goes into the queue. *)
LEMMA FindStep == ASSUME QueueInv, NEW t \in Task, FindRequest(t) PROVE QueueInv'
<1>0. QueueTypes /\ EntriesAreQueued /\ QueuedIsLocked /\ Callers /\ Pagers /\ WritesBelow /\ Sweeps
  BY DEF QueueInv
<1>1. PICK c \in Calls : c = call[t]
  BY <1>0 DEF FindRequest, Callers, Looking
<1>2. /\ pc[t] = "find" /\ Free(c) # {} /\ b_lock' = b_lock
      /\ \/ c.bh /\ pc' = [pc EXCEPT ![t] = "idle"] /\ call' = [call EXCEPT ![t] = IdleCall]
         \/ ~c.bh /\ pc' = [pc EXCEPT ![t] = "page"] /\ call' = call
  BY <1>1 DEF FindRequest, Return, Goto
<1>3. PICK slot \in Slot : /\ slot \notin used /\ slot < Limit(c)
                           /\ used' = used \cup {slot}
                           /\ queue' = AddRequest(queue, [slot |-> slot, cmd |-> c.cmd, sector |-> c.sector,
                                          bh |-> c.bh, waiting |-> IF c.bh THEN NoTask ELSE t])
  BY <1>1, <1>2, SlotIs DEF FindRequest
<1> DEFINE req == [slot |-> slot, cmd |-> c.cmd, sector |-> c.sector,
                   bh |-> c.bh, waiting |-> IF c.bh THEN NoTask ELSE t]
<1>4. /\ req \in Requests /\ req.slot = slot /\ req.cmd = c.cmd /\ req.sector = c.sector
      /\ req.bh = c.bh /\ req.waiting = IF c.bh THEN NoTask ELSE t
  BY DEF Requests, Calls
<1>5. queue' = AddRequest(queue, req)
  BY <1>3
<1>. HIDE DEF req
<1>6. PICK old \in [1..Len(queue') -> 0..Len(queue)] :
              /\ \A k \in 1..Len(queue') : queue'[k] = IF old[k] = 0 THEN req ELSE queue[old[k]]
              /\ \A k, m \in 1..Len(queue') : old[k] = old[m] => k = m
              /\ \A j \in 0..Len(queue) : \E k \in 1..Len(queue') : old[k] = j
  BY <1>0, <1>4, <1>5, AddedOnce
<1>7. \A k \in 1..Len(queue') : old[k] = 0 \/ old[k] \in 1..Len(queue)
  BY <1>6
<1>8. QueueTypes'
  <2>1. queue' \in Seq(Requests)
    BY <1>0, <1>4, <1>5, AddedIs
  <2>. QED BY <2>1, <1>0, <1>2, <1>3 DEF QueueTypes
<1>9. EntriesAreQueued'
  <2>1. \A n \in 1..Len(queue) : queue[n].slot \in used
    BY <1>0 DEF EntriesAreQueued
  <2>2. ASSUME NEW s PROVE s \in used' <=> \E n \in 1..Len(queue') : s = queue'[n].slot
    <3>1. ASSUME s \in used' PROVE \E n \in 1..Len(queue') : s = queue'[n].slot
      <4>0. s = slot \/ \E j \in 1..Len(queue) : s = queue[j].slot
        BY <3>1, <1>0, <1>3 DEF EntriesAreQueued
      <4>a. Len(queue) \in Nat
        BY <1>0, LenProperties DEF QueueTypes
      <4>1. PICK j \in 0..Len(queue) : s = IF j = 0 THEN slot ELSE queue[j].slot
        <5>1. CASE s = slot
          <6>1. 0 \in 0..Len(queue)
            BY <4>a
          <6>. QED BY <5>1, <6>1
        <5>2. ASSUME NEW j \in 1..Len(queue), s = queue[j].slot
              PROVE  \E k \in 0..Len(queue) : s = IF k = 0 THEN slot ELSE queue[k].slot
          <6>1. j \in 0..Len(queue) /\ j # 0
            BY <4>a
          <6>. QED BY <5>2, <6>1
        <5>. QED BY <4>0, <5>1, <5>2
      <4>2. PICK k \in 1..Len(queue') : old[k] = j
        BY <1>6
      <4>. QED BY <4>1, <4>2, <1>4, <1>6
    <3>2. ASSUME NEW n \in 1..Len(queue') PROVE queue'[n].slot \in used'
      BY <2>1, <1>3, <1>4, <1>6, <1>7
    <3>. QED BY <3>1, <3>2
  <2>3. ASSUME NEW m \in 1..Len(queue'), NEW n \in 1..Len(queue'), queue'[m].slot = queue'[n].slot
        PROVE  m = n
    <3>1. old[m] = old[n]
      <4>1. CASE old[m] = 0 /\ old[n] = 0
        BY <4>1
      <4>2. CASE old[m] = 0 /\ old[n] \in 1..Len(queue)
        <5>1. queue'[m] = req /\ queue'[n] = queue[old[n]] /\ old[n] # 0
          BY <4>2, <1>6
        <5>. QED BY <4>2, <5>1, <2>1, <2>3, <1>0, <1>3, <1>4 DEF EntriesAreQueued
      <4>3. CASE old[m] \in 1..Len(queue) /\ old[n] = 0
        <5>1. queue'[n] = req /\ queue'[m] = queue[old[m]] /\ old[m] # 0
          BY <4>3, <1>6
        <5>. QED BY <4>3, <5>1, <2>1, <2>3, <1>0, <1>3, <1>4 DEF EntriesAreQueued
      <4>4. CASE old[m] \in 1..Len(queue) /\ old[n] \in 1..Len(queue)
        <5>1. queue'[m] = queue[old[m]] /\ queue'[n] = queue[old[n]]
          BY <4>4, <1>6
        <5>. QED BY <4>4, <5>1, <2>1, <2>3, <1>0, <1>3, <1>4 DEF EntriesAreQueued
      <4>. QED BY <4>1, <4>2, <4>3, <4>4, <1>7
    <3>. QED BY <3>1, <1>6
  <2>. QED BY <2>2, <2>3 DEF EntriesAreQueued
<1>10. c.bh => c.sector \in b_lock /\ \A n \in 1..Len(queue) : queue[n].bh => queue[n].sector # c.sector
  BY <1>0, <1>1, <1>2 DEF Callers, Looking
<1>11. QueuedIsLocked'
  <2> SUFFICES ASSUME NEW n \in 1..Len(queue'), queue'[n].bh
               PROVE  /\ queue'[n].sector \in b_lock'
                      /\ \A m \in 1..Len(queue') : queue'[m].bh /\ queue'[m].sector = queue'[n].sector => m = n
    BY DEF QueuedIsLocked
  <2>1. queue'[n].sector \in b_lock'
    BY <1>0, <1>2, <1>4, <1>6, <1>7, <1>10 DEF QueuedIsLocked
  <2>2. ASSUME NEW m \in 1..Len(queue'), queue'[m].bh, queue'[m].sector = queue'[n].sector PROVE m = n
    <3>1. old[m] = old[n]
      <4>1. CASE old[m] = 0 /\ old[n] = 0
        BY <4>1
      <4>2. CASE old[m] = 0 /\ old[n] \in 1..Len(queue)
        <5>1. queue'[m] = req /\ queue'[n] = queue[old[n]] /\ old[n] # 0
          BY <4>2, <1>6
        <5>. QED BY <4>2, <5>1, <2>2, <1>0, <1>4, <1>10 DEF QueuedIsLocked
      <4>3. CASE old[m] \in 1..Len(queue) /\ old[n] = 0
        <5>1. queue'[n] = req /\ queue'[m] = queue[old[m]] /\ old[m] # 0
          BY <4>3, <1>6
        <5>. QED BY <4>3, <5>1, <2>2, <1>0, <1>4, <1>10 DEF QueuedIsLocked
      <4>4. CASE old[m] \in 1..Len(queue) /\ old[n] \in 1..Len(queue)
        <5>1. m \in 1..Len(queue') /\ n \in 1..Len(queue') /\ old[m] # 0 /\ old[n] # 0
          BY <4>4, <2>2
        <5>2. queue'[m] = queue[old[m]]
          BY <5>1, <1>6
        <5>3. queue'[n] = queue[old[n]]
          BY <5>1, <1>6
        <5>. QED BY <4>4, <5>2, <5>3, <2>2, <1>0, <1>4, <1>10 DEF QueuedIsLocked
      <4>. QED BY <4>1, <4>2, <4>3, <4>4, <1>7
    <3>. QED BY <3>1, <1>6
  <2>. QED BY <2>1, <2>2
<1>12. Callers'
  <2> SUFFICES ASSUME NEW u \in Task, pc'[u] \in Looking
               PROVE  /\ call'[u] \in Calls
                      /\ call'[u].ahead => call'[u].bh
                      /\ call'[u].bh =>
                            /\ call'[u].sector \in b_lock'
                            /\ \A n \in 1..Len(queue') : queue'[n].bh => queue'[n].sector # call'[u].sector
                            /\ \A v \in Task : pc'[v] \in Looking /\ call'[v].bh
                                               /\ call'[v].sector = call'[u].sector => v = u
    BY DEF Callers
  <2>1. pc'[t] \notin Looking /\ \A v \in Task \ {t} : pc'[v] = pc[v] /\ call'[v] = call[v]
    BY <1>0, <1>2 DEF QueueTypes, Looking
  <2>2. u # t /\ pc[u] \in Looking /\ call'[u] = call[u] /\ pc[t] \in Looking
    BY <2>1, <1>2 DEF Looking
  <2>3. call[u].bh /\ c.bh => c.sector # call[u].sector
    BY <2>2, <1>0, <1>1 DEF Callers
  <2>4. ASSUME call[u].bh, NEW n \in 1..Len(queue'), queue'[n].bh PROVE queue'[n].sector # call[u].sector
    BY <2>2, <2>3, <2>4, <1>0, <1>4, <1>6, <1>7 DEF Callers
  <2>5. /\ call[u] \in Calls /\ (call[u].ahead => call[u].bh) /\ (call[u].bh => call[u].sector \in b_lock)
        /\ call[u].bh => \A v \in Task : pc[v] \in Looking /\ call[v].bh
                                         /\ call[v].sector = call[u].sector => v = u
    BY <2>2, <1>0 DEF Callers
  <2>. QED BY <2>1, <2>2, <2>4, <2>5, <1>2
<1>13. Pagers'
  <2> SUFFICES ASSUME NEW m \in 1..Len(queue'), queue'[m].waiting \in Task
               PROVE  /\ pc'[queue'[m].waiting] = "page"
                      /\ \A n \in 1..Len(queue') : queue'[n].waiting = queue'[m].waiting => n = m
    BY DEF Pagers
  <2>0. NoTask \notin Task
    BY QueueAssumption
  <2>1. \A n \in 1..Len(queue) : queue[n].waiting # t
    BY <1>0, <1>2 DEF Pagers
  <2>2. pc'[queue'[m].waiting] = "page"
    <3>1. CASE old[m] = 0
      BY <3>1, <2>0, <1>0, <1>2, <1>4, <1>6 DEF QueueTypes
    <3>2. CASE old[m] \in 1..Len(queue)
      <4>1. queue'[m] = queue[old[m]] /\ queue[old[m]].waiting \in Task
        <5>1. queue'[m] = queue[old[m]]
          BY <3>2, <1>6
        <5>. QED BY <5>1
      <4>2. pc[queue[old[m]].waiting] = "page" /\ queue[old[m]].waiting # t
        BY <3>2, <4>1, <2>1, <1>0 DEF Pagers
      <4>. QED BY <4>1, <4>2, <1>0, <1>2 DEF QueueTypes
    <3>. QED BY <3>1, <3>2, <1>7
  <2>3. ASSUME NEW n \in 1..Len(queue'), queue'[n].waiting = queue'[m].waiting PROVE n = m
    <3>1. old[n] = old[m]
      <4>1. CASE old[n] = 0 /\ old[m] = 0
        BY <4>1
      <4>2. CASE old[n] = 0 /\ old[m] \in 1..Len(queue)
        <5>1. queue'[n] = req /\ queue'[m] = queue[old[m]] /\ old[m] # 0
          BY <4>2, <1>6
        <5>. QED BY <4>2, <5>1, <2>0, <2>1, <2>3, <1>0, <1>4 DEF Pagers
      <4>3. CASE old[n] \in 1..Len(queue) /\ old[m] = 0
        <5>1. queue'[m] = req /\ queue'[n] = queue[old[n]] /\ old[n] # 0
          BY <4>3, <1>6
        <5>. QED BY <4>3, <5>1, <2>0, <2>1, <2>3, <1>0, <1>4 DEF Pagers
      <4>4. CASE old[n] \in 1..Len(queue) /\ old[m] \in 1..Len(queue)
        <5>1. queue'[n] = queue[old[n]] /\ queue'[m] = queue[old[m]]
          BY <4>4, <1>6
        <5>. QED BY <4>4, <5>1, <2>0, <2>1, <2>3, <1>0, <1>4 DEF Pagers
      <4>. QED BY <4>1, <4>2, <4>3, <4>4, <1>7
    <3>. QED BY <3>1, <1>6
  <2>. QED BY <2>2, <2>3
<1>14. WritesBelow'
  <2>1. c.bh /\ c.cmd = WRITE => slot < Lower
    BY <1>3 DEF Limit, Lower, READ, WRITE
  <2>. QED BY <2>1, <1>0, <1>4, <1>6, <1>7 DEF WritesBelow
<1>15. Sweeps'
  BY <1>0, <1>4, <1>5, <1>10, AddSweeps
<1>. QED BY <1>8, <1>9, <1>11, <1>12, <1>13, <1>14, <1>15 DEF QueueInv

(* No entry is free: a read-ahead lets go of its buffer, others sleep. *)
LEMMA NoneStep == ASSUME QueueInv, NEW t \in Task, FindNone(t) \/ SleepOn(t) PROVE QueueInv'
<1>0. QueueTypes /\ EntriesAreQueued /\ QueuedIsLocked /\ Callers /\ Pagers /\ WritesBelow /\ Sweeps
  BY DEF QueueInv
<1>1. /\ queue' = queue /\ used' = used /\ pc[t] \in Looking /\ pc[t] # "page"
      /\ \/ /\ call[t].ahead /\ b_lock' = b_lock \ {call[t].sector}
            /\ pc' = [pc EXCEPT ![t] = "idle"] /\ call' = [call EXCEPT ![t] = IdleCall]
         \/ b_lock' = b_lock /\ call' = call /\ \E l \in {"none", "asleep"} : pc' = [pc EXCEPT ![t] = l]
  BY DEF FindNone, SleepOn, Return, Goto, Looking
<1>2. QueueTypes'
  BY <1>0, <1>1 DEF QueueTypes
<1>3. EntriesAreQueued' /\ WritesBelow' /\ Sweeps'
  BY <1>0, <1>1 DEF EntriesAreQueued, WritesBelow, Sweeps, Turns
<1>4. Pagers'
  BY <1>0, <1>1 DEF Pagers, QueueTypes
<1>5. CASE b_lock' = b_lock /\ call' = call /\ \E l \in {"none", "asleep"} : pc' = [pc EXCEPT ![t] = l]
  <2>1. \A u \in Task : pc'[u] \in Looking <=> pc[u] \in Looking
    BY <1>0, <1>1, <1>5 DEF QueueTypes, Looking
  <2>2. Callers' /\ QueuedIsLocked'
    BY <2>1, <1>0, <1>1, <1>5 DEF Callers, QueuedIsLocked
  <2>. QED BY <2>2, <1>2, <1>3, <1>4 DEF QueueInv
<1>6. CASE /\ call[t].ahead /\ b_lock' = b_lock \ {call[t].sector}
           /\ pc' = [pc EXCEPT ![t] = "idle"] /\ call' = [call EXCEPT ![t] = IdleCall]
  <2>1. call[t].bh
    BY <1>0, <1>1, <1>6 DEF Callers
  <2>2. \A n \in 1..Len(queue) : queue[n].bh => queue[n].sector # call[t].sector
    BY <2>1, <1>0, <1>1 DEF Callers
  <2>3. QueuedIsLocked'
    BY <2>2, <1>0, <1>1, <1>6 DEF QueuedIsLocked
  <2>4. pc'[t] \notin Looking /\ \A u \in Task \ {t} : pc'[u] = pc[u] /\ call'[u] = call[u]
    BY <1>0, <1>6 DEF QueueTypes, Looking
  <2>5. \A u \in Task \ {t} : pc[u] \in Looking /\ call[u].bh => call[u].sector # call[t].sector
    BY <2>1, <1>0, <1>1 DEF Callers
  <2>6. Callers'
    <3> SUFFICES ASSUME NEW u \in Task, pc'[u] \in Looking
                 PROVE  /\ call'[u] \in Calls
                        /\ call'[u].ahead => call'[u].bh
                        /\ call'[u].bh =>
                            /\ call'[u].sector \in b_lock'
                            /\ \A n \in 1..Len(queue') : queue'[n].bh => queue'[n].sector # call'[u].sector
                            /\ \A v \in Task : pc'[v] \in Looking /\ call'[v].bh
                                               /\ call'[v].sector = call'[u].sector => v = u
      BY DEF Callers
    <3>1. u # t /\ pc[u] \in Looking /\ call'[u] = call[u]
      BY <2>4
    <3>. QED BY <2>4, <2>5, <3>1, <1>0, <1>1, <1>6 DEF Callers
  <2>. QED BY <2>3, <2>6, <1>2, <1>3, <1>4 DEF QueueInv
<1>. QED BY <1>1, <1>5, <1>6

(* end_request frees the entry and the buffer of the request it took off. *)
LEMMA EndStep == ASSUME QueueInv, EndRequest PROVE QueueInv'
<1>0. QueueTypes /\ EntriesAreQueued /\ QueuedIsLocked /\ Callers /\ Pagers /\ WritesBelow /\ Sweeps
  BY DEF QueueInv
<1>1. PICK req \in Requests : req = queue[1] /\ req = Head(queue)
  BY <1>0, TailIs DEF EndRequest
<1>2. /\ used' = used \ {req.slot}
      /\ b_lock' = IF req.bh THEN b_lock \ {req.sector} ELSE b_lock
      /\ pc' = [u \in Task |-> CASE pc[u] = "asleep" -> "find"
                                 [] u = req.waiting -> "idle"
                                 [] OTHER -> pc[u]]
      /\ call' = [u \in Task |-> IF u = req.waiting THEN IdleCall ELSE call[u]]
  BY <1>1 DEF EndRequest
<1>3. /\ Len(queue) \in Nat /\ Len(queue) >= 1 /\ queue' \in Seq(Requests) /\ Len(queue') = Len(queue) - 1
      /\ \A k \in 1..Len(queue') : queue'[k] = queue[k + 1]
  BY <1>0, TailIs DEF EndRequest
<1>4. \A k \in 1..Len(queue') : k + 1 \in 1..Len(queue) /\ k + 1 # 1
  BY <1>3
<1>5. 1 \in 1..Len(queue)
  BY <1>3
<1>6. \A u \in Task : u = req.waiting => pc[u] = "page"
  BY <1>0, <1>1, <1>5 DEF Pagers
<1>7. QueueTypes'
  <2>1. pc' \in [Task -> {"idle", "find", "none", "asleep", "page"}]
    BY <1>0, <1>2 DEF QueueTypes
  <2>2. call' \in [Task -> Calls \cup {IdleCall}]
    BY <1>0, <1>2 DEF QueueTypes
  <2>. QED BY <2>1, <2>2, <1>0, <1>2, <1>3 DEF QueueTypes
<1>8. EntriesAreQueued'
  <2>1. \A m, n \in 1..Len(queue') : queue'[m].slot = queue'[n].slot => m = n
    <3> SUFFICES ASSUME NEW m \in 1..Len(queue'), NEW n \in 1..Len(queue'), queue'[m].slot = queue'[n].slot
                 PROVE  m = n
      OBVIOUS
    <3>1. m + 1 = n + 1
      BY <1>0, <1>3, <1>4 DEF EntriesAreQueued
    <3>. QED BY <3>1, <1>3
  <2>2. ASSUME NEW s \in used' PROVE \E n \in 1..Len(queue') : s = queue'[n].slot
    <3>1. PICK j \in 1..Len(queue) : s = queue[j].slot
      BY <2>2, <1>0, <1>2 DEF EntriesAreQueued
    <3>2. j # 1
      BY <3>1, <2>2, <1>1, <1>2
    <3>3. j - 1 \in 1..Len(queue') /\ (j - 1) + 1 = j
      BY <3>2, <1>3
    <3>. QED BY <3>1, <3>3, <1>3
  <2>3. ASSUME NEW n \in 1..Len(queue') PROVE queue'[n].slot \in used'
    <3>1. queue[n + 1].slot \in used /\ queue[n + 1].slot # queue[1].slot
      BY <1>0, <1>4, <1>5 DEF EntriesAreQueued
    <3>. QED BY <3>1, <1>1, <1>2, <1>3
  <2>. QED BY <2>1, <2>2, <2>3 DEF EntriesAreQueued
<1>9. QueuedIsLocked'
  <2> SUFFICES ASSUME NEW n \in 1..Len(queue'), queue'[n].bh
               PROVE  /\ queue'[n].sector \in b_lock'
                      /\ \A m \in 1..Len(queue') : queue'[m].bh /\ queue'[m].sector = queue'[n].sector => m = n
    BY DEF QueuedIsLocked
  <2>1. queue'[n] = queue[n + 1] /\ n + 1 \in 1..Len(queue) /\ n + 1 # 1
    BY <1>3, <1>4
  <2>2. req.bh => queue[n + 1].sector # req.sector
    BY <2>1, <1>0, <1>1, <1>5 DEF QueuedIsLocked
  <2>3. queue[n + 1].sector \in b_lock
    BY <2>1, <1>0 DEF QueuedIsLocked
  <2>4. ASSUME NEW m \in 1..Len(queue'), queue'[m].bh, queue'[m].sector = queue'[n].sector PROVE m = n
    <3>1. m + 1 = n + 1
      BY <2>1, <2>4, <1>0, <1>3, <1>4 DEF QueuedIsLocked
    <3>. QED BY <3>1, <1>3
  <2>. QED BY <2>1, <2>2, <2>3, <2>4, <1>2
<1>10. Callers'
  <2> SUFFICES ASSUME NEW u \in Task, pc'[u] \in Looking
               PROVE  /\ call'[u] \in Calls
                      /\ call'[u].ahead => call'[u].bh
                      /\ call'[u].bh =>
                            /\ call'[u].sector \in b_lock'
                            /\ \A n \in 1..Len(queue') : queue'[n].bh => queue'[n].sector # call'[u].sector
                            /\ \A v \in Task : pc'[v] \in Looking /\ call'[v].bh
                                               /\ call'[v].sector = call'[u].sector => v = u
    BY DEF Callers
  <2>1. \A v \in Task : pc'[v] \in Looking => pc[v] \in Looking /\ call'[v] = call[v]
    <3> SUFFICES ASSUME NEW v \in Task, pc'[v] \in Looking PROVE pc[v] \in Looking /\ call'[v] = call[v]
      OBVIOUS
    <3>1. v # req.waiting
      BY <1>2, <1>6 DEF Looking
    <3>. QED BY <3>1, <1>2 DEF Looking
  <2>2. /\ call[u] \in Calls /\ (call[u].ahead => call[u].bh)
        /\ call[u].bh =>
              /\ call[u].sector \in b_lock
              /\ \A n \in 1..Len(queue) : queue[n].bh => queue[n].sector # call[u].sector
              /\ \A v \in Task : pc[v] \in Looking /\ call[v].bh /\ call[v].sector = call[u].sector => v = u
    BY <2>1, <1>0 DEF Callers
  <2>3. call[u].bh => call[u].sector \in b_lock'
    BY <2>2, <1>1, <1>2, <1>5
  <2>4. call[u].bh => \A n \in 1..Len(queue') : queue'[n].bh => queue'[n].sector # call[u].sector
    BY <2>2, <1>3, <1>4
  <2>. QED BY <2>1, <2>2, <2>3, <2>4
<1>11. Pagers'
  <2> SUFFICES ASSUME NEW m \in 1..Len(queue'), queue'[m].waiting \in Task
               PROVE  /\ pc'[queue'[m].waiting] = "page"
                      /\ \A n \in 1..Len(queue') : queue'[n].waiting = queue'[m].waiting => n = m
    BY DEF Pagers
  <2>1. queue'[m] = queue[m + 1] /\ m + 1 \in 1..Len(queue) /\ m + 1 # 1
    BY <1>3, <1>4
  <2>2. pc[queue[m + 1].waiting] = "page" /\ queue[m + 1].waiting # req.waiting
    BY <2>1, <1>0, <1>1, <1>5 DEF Pagers
  <2>3. pc'[queue'[m].waiting] = "page"
    BY <2>1, <2>2, <1>2
  <2>4. ASSUME NEW n \in 1..Len(queue'), queue'[n].waiting = queue'[m].waiting PROVE n = m
    <3>1. n + 1 = m + 1
      BY <2>1, <2>4, <1>0, <1>3, <1>4 DEF Pagers
    <3>. QED BY <3>1, <1>3
  <2>. QED BY <2>3, <2>4
<1>12. WritesBelow'
  BY <1>0, <1>3, <1>4 DEF WritesBelow
<1>13. Sweeps'
  <2> SUFFICES ASSUME NEW f \in 1..Len(queue'), \A k \in f..Len(queue') : queue'[k].bh,
                      NEW m \in f..(Len(queue') - 1), NEW n \in f..(Len(queue') - 1),
                      Turns(queue, m)', Turns(queue, n)'
               PROVE  m = n
    BY DEF Sweeps
  <2>1. f + 1 \in 1..Len(queue) /\ m + 1 \in (f + 1)..(Len(queue) - 1) /\ n + 1 \in (f + 1)..(Len(queue) - 1)
    BY <1>3
  <2>2. \A k \in (f + 1)..Len(queue) : queue[k].bh
    <3> SUFFICES ASSUME NEW k \in (f + 1)..Len(queue) PROVE queue[k].bh
      OBVIOUS
    <3>1. k - 1 \in f..Len(queue') /\ k - 1 \in 1..Len(queue') /\ (k - 1) + 1 = k
      BY <1>3
    <3>. QED BY <3>1, <1>3
  <2>3. Turns(queue, m + 1) /\ Turns(queue, n + 1)
    <3>1. m \in 1..Len(queue') /\ m + 1 \in 1..Len(queue') /\ n \in 1..Len(queue') /\ n + 1 \in 1..Len(queue')
      BY <1>3
    <3>. QED BY <3>1, <1>3 DEF Turns
  <2>4. m + 1 = n + 1
    BY <2>1, <2>2, <2>3, <1>0 DEF Sweeps
  <2>. QED BY <2>4, <1>3
<1>. QED BY <1>7, <1>8, <1>9, <1>10, <1>11, <1>12, <1>13 DEF QueueInv

(* Every step of the tasks and of the disk keeps the invariant. *)
LEMMA QueueStep == QueueInv /\ [Next]_vars => QueueInv'
<1> SUFFICES ASSUME QueueInv, [Next]_vars PROVE QueueInv'
  OBVIOUS
<1>1. CASE UNCHANGED vars
  BY <1>1 DEF vars, QueueInv, QueueTypes, EntriesAreQueued, QueuedIsLocked, Callers, Pagers, WritesBelow, Sweeps, Turns
<1>2. CASE EndRequest
  BY <1>2, EndStep
<1>3. ASSUME NEW t \in Task, Step(t) PROVE QueueInv'
  BY <1>3, FindStep, NoneStep DEF Step
<1>4. ASSUME NEW t \in Task, NEW c \in Calls, Start(t, c) PROVE QueueInv'
  BY <1>4, StartStep
<1>. QED BY <1>1, <1>2, <1>3, <1>4 DEF Next

-----------------------------------------------------------------------------
(* The entries of the queue can be counted by their slots. *)
LEMMA CountedBySlot ==
    ASSUME QueueInv, NEW S \in SUBSET (1..Len(queue)), NEW b \in Nat, \A n \in S : queue[n].slot < b
    PROVE  IsFiniteSet(S) /\ Cardinality(S) <= b
<1> DEFINE f == [n \in S |-> queue[n].slot]
<1>1. \A n \in 1..Len(queue) : queue[n] \in Requests
  BY ElementOfSeq DEF QueueInv, QueueTypes
<1>2. \A n \in S : queue[n].slot \in 0..(b - 1)
  BY <1>1, QueueAssumption DEF Requests, Slot
<1>3. f \in [S -> 0..(b - 1)]
  BY <1>2
<1>4. \A m, n \in S : f[m] = f[n] => m = n
  BY DEF QueueInv, EntriesAreQueued
<1>5. f \in Injection(S, 0..(b - 1))
  BY <1>3, <1>4 DEF Injection, IsInjective
<1>6. IsFiniteSet(0..(b - 1)) /\ Cardinality(0..(b - 1)) = b
  BY FS_Interval
<1>. HIDE DEF f
<1>. QED BY <1>5, <1>6, FS_Injection

(* The elevator's promises follow. *)
LEMMA QueueSounds == QueueInv => Elevator
<1> SUFFICES ASSUME QueueInv PROVE Elevator
  OBVIOUS
<1>0. QueueTypes /\ EntriesAreQueued /\ QueuedIsLocked /\ WritesBelow /\ Sweeps /\ Len(queue) \in Nat
  BY LenProperties DEF QueueInv, QueueTypes
<1>1. \A n \in 1..Len(queue) : queue[n] \in Requests
  BY <1>0, ElementOfSeq DEF QueueTypes
<1>2. Len(queue) <= NR_REQUEST
  <2>1. NR_REQUEST \in Nat /\ \A n \in 1..Len(queue) : queue[n].slot < NR_REQUEST
    BY <1>1, QueueAssumption DEF Requests, Slot
  <2>2. Cardinality(1..Len(queue)) <= NR_REQUEST
    BY <2>1, CountedBySlot
  <2>3. Cardinality(1..Len(queue)) = Len(queue)
    BY <1>0, FS_Interval
  <2>. QED BY <2>2, <2>3
<1>3. QueueOK
  BY <1>0, <1>1, <1>2 DEF QueueOK, TypeOK, QueueTypes
<1>4. RoomForReads
  <2> DEFINE S == {n \in 1..Len(queue) : queue[n].bh /\ queue[n].cmd = WRITE}
  <2>1. Lower \in Nat
    BY QueueAssumption DEF Lower
  <2>2. \A n \in S : queue[n].slot < Lower
    BY <1>0 DEF WritesBelow
  <2>3. Cardinality(S) <= Lower
    BY <2>1, <2>2, CountedBySlot
  <2>. QED BY <2>3 DEF RoomForReads, Lower
<1>5. OneTurn
  <2> SUFFICES ASSUME ~Swapping
               PROVE  Cardinality({n \in 1..(Len(queue) - 1) : ~IN_ORDER(queue[n], queue[n + 1])}) <= 1
    BY DEF OneTurn
  <2> DEFINE S == {n \in 1..(Len(queue) - 1) : ~IN_ORDER(queue[n], queue[n + 1])}
  <2>1. \A m, n \in S : m = n
    <3> SUFFICES ASSUME NEW m \in S, NEW n \in S PROVE m = n
      OBVIOUS
    <3>1. 1 \in 1..Len(queue) /\ m \in 1..(Len(queue) - 1) /\ n \in 1..(Len(queue) - 1)
      BY <1>0
    <3>2. \A k \in 1..Len(queue) : queue[k].bh
      BY <1>1 DEF Swapping, Requests
    <3>. QED BY <3>1, <3>2, <1>0 DEF Sweeps, Turns
  <2>2. CASE S = {}
    BY <2>2, FS_EmptySet
  <2>3. CASE S # {}
    <3>1. PICK n : S = {n}
      BY <2>1, <2>3
    <3>. HIDE DEF S
    <3>2. Cardinality(S) = 1
      BY <3>1, FS_Singleton
    <3>. QED BY <3>2 DEF S
  <2>. QED BY <2>2, <2>3
<1>. QED BY <1>3, <1>4, <1>5 DEF Elevator

(* make_request, ll_rw_page, add_request and end_request, called by any    *)
(* number of tasks: every entry in use is queued once and its buffer is    *)
(* locked for it, a third of the entries is left to reads, and a queue     *)
(* without paging requests turns around at most once.                      *)
THEOREM ElevatorWorks == Spec => []Elevator
<1>. QED BY QueueInit, QueueStep, QueueSounds, PTL DEF Spec

-----------------------------------------------------------------------------
(* The hard disk driver.  The theorems are for a driver that has finished  *)
(* its resets and recalibrations when a request comes to an empty queue.   *)

Settled == \A s \in Setups : ~s.busy

Handlers == {"read_intr", "write_intr", "recal_intr", "reset_hd"}
Functions == Handlers \cup {"", "do_hd_request", "specify", "restore", "unexpected_hd_interrupt", "panic", "crash"}
Places == {"", "hd_times_out", "do_hd_request", "reset_hd", "specify", "restore"}

(* A request half done has its first sector in the buffer, and goes on     *)
(* with the second one.                                                    *)
RequestOK(r) ==
    /\ \/ r.buffer = <<>> /\ r.sector = r.first /\ r.nr_sectors = 2
       \/ r.buffer = <<r.first>> /\ r.sector = r.first + 1 /\ r.nr_sectors = 1
    /\ r.errors < MAX_ERRORS /\ r.errors <= r.bad

AnyRequest == [cmd : {WIN_READ, WIN_WRITE}, first : Nat, sector : Nat, nr_sectors : Nat, errors : Nat,
               buffer : Seq(Nat), bad : Nat]
Request2 == {r \in AnyRequest : RequestOK(r)}

Disks == [cmd : {"none", "read", "write", "restore", "specify"}, sector : Nat,
          status : {"ready", "busy", "error"}, late : BOOLEAN]
Results == [first : Nat, uptodate : BOOLEAN, buffer : Seq(Nat), bad : Nat]

DriverTypes ==
    /\ setup \in Setups
    /\ requests \in Seq(Request2)
    /\ do_hd \in Handlers \cup {"none"}
    /\ hd_timeout \in BOOLEAN /\ reset \in BOOLEAN /\ irq \in BOOLEAN
    /\ outer \in Places /\ func \in Functions
    /\ disk \in Disks
    /\ ended \in Results

(* The function whose interrupt is expected, or that handles it. *)
Handles(h) == (func = "" /\ do_hd = h) \/ func = h

(* The controller is at the sector that the request goes on with. *)
SameSector ==
    Handles("read_intr") \/ Handles("write_intr") => requests # <<>> /\ disk.sector = Current.sector

(* Until a task, or hd_times_out, gets to where it waits for the           *)
(* controller, the answer to an old command makes the handlers go no       *)
(* further than to the first SPECIFY after a reset.                        *)
Early == {"do_hd_request", "reset_hd"}
Interrupted ==
    outer \in Early =>
        /\ func \notin {"read_intr", "write_intr", "recal_intr", "restore"}
        /\ func \in Early => reset
        /\ func = "" => do_hd = "none" \/ (do_hd = "reset_hd" /\ ~irq /\ ~disk.late)

DriverInv == DriverTypes /\ SameSector /\ Interrupted /\ SomeoneGoesOn /\ EndsRightly

-----------------------------------------------------------------------------
LEMMA Successor == \A n \in Nat : n + 1 \in Nat
OBVIOUS

LEMMA AppendPair == \A a, b : Append(<<a>>, b) = <<a, b>>
<1> TAKE a, b
<1> DEFINE S == {a, b}
<1>1. <<a>> \in Seq(S) /\ b \in S
  OBVIOUS
<1>2. /\ Append(<<a>>, b) \in Seq(S) /\ Len(Append(<<a>>, b)) = 2
      /\ Append(<<a>>, b)[1] = a /\ Append(<<a>>, b)[2] = b
  BY <1>1, AppendProperties
<1>3. /\ <<a, b>> \in Seq(S) /\ Len(<<a, b>>) = 2 /\ <<a, b>>[1] = a /\ <<a, b>>[2] = b
  OBVIOUS
<1>4. \A k \in 1..2 : Append(<<a>>, b)[k] = <<a, b>>[k]
  BY <1>2, <1>3
<1>. QED BY <1>2, <1>3, <1>4, SeqEqual

(* The first request. *)
LEMMA CurrentIs ==
    ASSUME DriverTypes, requests # <<>>
    PROVE  /\ Current \in Request2 /\ Current \in AnyRequest /\ RequestOK(Current) /\ Current = requests[1]
           /\ Len(requests) \in Nat /\ Len(requests) > 0
           /\ Tail(requests) \in Seq(Request2) /\ Len(Tail(requests)) = Len(requests) - 1
           /\ Current.errors \in Nat /\ Current.bad \in Nat
<1>1. requests \in Seq(Request2) /\ Len(requests) > 0 /\ Len(requests) \in Nat
  BY DEF DriverTypes
<1>2. Current = requests[1] /\ Current \in Request2
  BY <1>1 DEF Current
<1>3. Current \in AnyRequest /\ RequestOK(Current)
  BY <1>2 DEF Request2
<1>4. Current.errors \in Nat /\ Current.bad \in Nat
  BY <1>3 DEF AnyRequest
<1>5. Tail(requests) \in Seq(Request2) /\ Len(Tail(requests)) = Len(requests) - 1
  BY <1>1, HeadTailProperties
<1>. QED BY <1>1, <1>2, <1>3, <1>4, <1>5

(* Another record for the first request. *)
LEMMA SetIs ==
    ASSUME DriverTypes, requests # <<>>, NEW r
    PROVE  /\ Head(SetCurrent(r)) = r /\ Tail(SetCurrent(r)) = Tail(requests)
           /\ r \in Request2 => SetCurrent(r) \in Seq(Request2) /\ Len(SetCurrent(r)) = Len(requests)
                                /\ SetCurrent(r) # <<>>
<1>1. requests \in Seq(Request2) /\ Len(requests) > 0 /\ Len(requests) \in Nat
  BY DEF DriverTypes
<1> DEFINE S == Request2 \cup {r}
<1>2. requests \in Seq(S)
  BY <1>1
<1>3. SetCurrent(r) \in Seq(S) /\ Len(SetCurrent(r)) = Len(requests) /\ SetCurrent(r)[1] = r
      /\ \A k \in 2..Len(requests) : SetCurrent(r)[k] = requests[k]
  BY <1>1, <1>2 DEF SetCurrent
<1>4. Head(SetCurrent(r)) = r
  BY <1>1, <1>3
<1>5. Tail(SetCurrent(r)) = Tail(requests)
  <2>1. SetCurrent(r) # <<>>
    BY <1>1, <1>3
  <2>2. /\ Len(Tail(SetCurrent(r))) = Len(requests) - 1
        /\ \A k \in 1..Len(Tail(SetCurrent(r))) : Tail(SetCurrent(r))[k] = SetCurrent(r)[k + 1]
        /\ Tail(SetCurrent(r)) \in Seq(S)
    BY <1>3, <2>1, HeadTailProperties
  <2>3. /\ Len(Tail(requests)) = Len(requests) - 1
        /\ \A k \in 1..Len(Tail(requests)) : Tail(requests)[k] = requests[k + 1]
        /\ Tail(requests) \in Seq(S)
    BY <1>2, HeadTailProperties
  <2>4. ASSUME NEW k \in 1..Len(Tail(requests)) PROVE Tail(SetCurrent(r))[k] = Tail(requests)[k]
    <3>1. k + 1 \in 2..Len(requests)
      BY <1>1, <2>3
    <3>. QED BY <1>3, <2>2, <2>3, <3>1
  <2>. QED BY <2>2, <2>3, <2>4, SeqEqual
<1>6. ASSUME r \in Request2
      PROVE  SetCurrent(r) \in Seq(Request2) /\ Len(SetCurrent(r)) = Len(requests) /\ SetCurrent(r) # <<>>
  <2>1. S = Request2
    BY <1>6
  <2>. QED BY <1>1, <1>3, <2>1
<1>. QED BY <1>4, <1>5, <1>6

(* One more error of the first request. *)
LEMMA OneMoreIs ==
    ASSUME DriverTypes, requests # <<>>
    PROVE  /\ OneMore \in AnyRequest /\ OneMore.errors = Current.errors + 1 /\ OneMore.bad >= Current.errors + 1
           /\ OneMore.first = Current.first
           /\ OneMore.errors < MAX_ERRORS => OneMore \in Request2
<1>1. Current \in AnyRequest /\ RequestOK(Current)
  BY CurrentIs
<1>2. Current.errors \in Nat /\ Current.bad \in Nat /\ Current.errors <= Current.bad /\ Current.errors < MAX_ERRORS
  BY <1>1 DEF AnyRequest, RequestOK
<1> DEFINE e == Current.errors + 1
           b == IF Current.bad < MAX_ERRORS THEN Current.bad + 1 ELSE Current.bad
<1>3. e \in Nat /\ b \in Nat /\ b >= e
  BY <1>2, HardDiskAssumption
<1>4. OneMore = [Current EXCEPT !.errors = e, !.bad = b]
  BY <1>1 DEF OneMore, AnyRequest
<1>5. e = Current.errors + 1
  OBVIOUS
<1> HIDE DEF e, b
<1>6. /\ OneMore \in AnyRequest /\ OneMore.errors = e /\ OneMore.bad = b
      /\ OneMore.sector = Current.sector /\ OneMore.first = Current.first /\ OneMore.buffer = Current.buffer
      /\ OneMore.nr_sectors = Current.nr_sectors
  BY <1>1, <1>3, <1>4 DEF AnyRequest
<1>7. OneMore.errors <= OneMore.bad
  BY <1>3, <1>6
<1>8. OneMore.errors < MAX_ERRORS => RequestOK(OneMore)
  BY <1>1, <1>6, <1>7 DEF RequestOK
<1>. QED BY <1>3, <1>5, <1>6, <1>8 DEF Request2

(* The request is given up, after MAX_ERRORS errors, or has one more.      *)
LEMMA CountIs ==
    ASSUME DriverTypes, EndsRightly, requests # <<>>, CountError(SetCurrent(OneMore))
    PROVE  requests' \in Seq(Request2) /\ ended' \in Results /\ EndsRightly'
<1>1. Head(SetCurrent(OneMore)) = OneMore /\ Tail(SetCurrent(OneMore)) = Tail(requests)
  BY SetIs
<1>2. CASE OneMore.errors >= MAX_ERRORS
  <2>1. /\ requests' = Tail(requests)
        /\ ended' = [first |-> OneMore.first, uptodate |-> FALSE, buffer |-> <<>>, bad |-> OneMore.bad]
    BY <1>1, <1>2 DEF CountError, HdEndRequest
  <2>2. OneMore.first \in Nat /\ OneMore.bad \in Nat
    BY OneMoreIs DEF AnyRequest
  <2>3. ended' \in Results /\ ended'.uptodate = FALSE /\ ended'.bad = OneMore.bad
    BY <2>1, <2>2 DEF Results
  <2>4. OneMore.bad >= MAX_ERRORS
    BY <1>2, <2>2, OneMoreIs, CurrentIs, HardDiskAssumption
  <2>. QED BY <2>1, <2>3, <2>4, CurrentIs DEF EndsRightly, EachSectorOnce, FailsOnlyAfterRetries
<1>3. CASE ~(OneMore.errors >= MAX_ERRORS)
  <2>1. requests' = SetCurrent(OneMore) /\ UNCHANGED ended
    BY <1>1, <1>3 DEF CountError
  <2>2. OneMore.errors < MAX_ERRORS
    BY <1>3, OneMoreIs, CurrentIs, HardDiskAssumption
  <2>3. OneMore \in Request2
    BY <2>2, OneMoreIs
  <2>4. requests' \in Seq(Request2)
    BY <2>1, <2>3, SetIs
  <2>. QED BY <2>1, <2>4 DEF DriverTypes, EndsRightly, EachSectorOnce, FailsOnlyAfterRetries
<1>. QED BY <1>2, <1>3

LEMMA BadIs ==
    ASSUME DriverTypes, EndsRightly, BadRwIntr
    PROVE  requests' \in Seq(Request2) /\ ended' \in Results /\ EndsRightly' /\ reset' \in BOOLEAN
BY CountIs DEF BadRwIntr

-----------------------------------------------------------------------------
(* How the innermost function goes on. *)
LEMMA GoesOn ==
    ASSUME NEW p, NEW q, p # "", Running(p), GoOn(q)
    PROVE  \/ func = p /\ func' = q /\ outer' = outer
           \/ func = "" /\ func' = "" /\ outer = p /\ outer' = q
BY DEF Running, GoOn

(* Steps that leave the requests alone. *)
Same == UNCHANGED <<setup, requests, ended>>
LEMMA SameKeeps ==
    ASSUME DriverInv, Same
    PROVE  EndsRightly' /\ setup' \in Setups /\ requests' \in Seq(Request2) /\ ended' \in Results
BY DEF Same, DriverInv, DriverTypes, EndsRightly, EachSectorOnce, FailsOnlyAfterRetries

LEMMA AddKeeps ==
    ASSUME Settled, DriverInv, NEW cmd \in {WIN_READ, WIN_WRITE}, NEW s \in FirstSector, HdAddRequest(cmd, s)
    PROVE  DriverInv'
<1> DEFINE r == Request(cmd, s)
<1>1. requests' = Append(requests, r) /\ requests \in Seq(Request2)
  BY DEF HdAddRequest, DriverInv, DriverTypes
<1>2. r \in Request2
  BY HardDiskAssumption DEF Request, Request2, AnyRequest, RequestOK
<1> HIDE DEF r
<1>3. requests' \in Seq(Request2) /\ requests' # <<>>
  BY <1>1, <1>2, AppendProperties
<1>4. func = "" /\ outer = "" /\ UNCHANGED <<setup, do_hd, hd_timeout, irq, reset, func, ended>>
  BY DEF HdAddRequest, flags, interrupts
<1>5. EndsRightly'
  BY <1>4 DEF DriverInv, EndsRightly, EachSectorOnce, FailsOnlyAfterRetries
<1>6. CASE requests = <<>>
  <2>1. outer' = "do_hd_request" /\ disk' = [disk EXCEPT !.late = (disk.status = "busy")]
    BY <1>6 DEF HdAddRequest
  <2>2. do_hd = "none"
    BY <1>6 DEF HdAddRequest, Settled, DriverInv, DriverTypes
  <2>3. disk' \in Disks
    BY <2>1 DEF DriverInv, DriverTypes, Disks
  <2>4. DriverTypes'
    BY <1>3, <1>4, <2>1, <2>3 DEF DriverInv, DriverTypes, Places
  <2>5. SameSector' /\ Interrupted' /\ SomeoneGoesOn'
    BY <1>4, <2>1, <2>2 DEF SameSector, Handles, Interrupted, Early, SomeoneGoesOn
  <2>. QED BY <1>5, <2>4, <2>5 DEF DriverInv
<1>7. CASE requests # <<>>
  <2>1. UNCHANGED <<outer, disk>>
    BY <1>7 DEF HdAddRequest
  <2>2. Head(requests') = Head(requests)
    BY <1>1, <1>2, <1>7
  <2>3. SameSector' /\ Interrupted' /\ SomeoneGoesOn'
    BY <1>3, <1>4, <1>7, <2>1, <2>2 DEF DriverInv, SameSector, Handles, Current, Interrupted, Early, SomeoneGoesOn
  <2>4. DriverTypes'
    BY <1>3, <1>4, <2>1 DEF DriverInv, DriverTypes
  <2>. QED BY <1>5, <2>3, <2>4 DEF DriverInv
<1>. QED BY <1>6, <1>7

LEMMA NoRequestKeeps == ASSUME DriverInv, NoRequest PROVE DriverInv'
<1>1. /\ Same /\ requests = <<>> /\ do_hd' = "none" /\ hd_timeout' = FALSE /\ UNCHANGED <<reset, disk, irq>>
      /\ Running("do_hd_request") /\ GoOn("")
  BY DEF NoRequest, flags, Same
<1>2. \/ func = "do_hd_request" /\ func' = "" /\ outer' = outer
      \/ func = "" /\ func' = "" /\ outer = "do_hd_request" /\ outer' = ""
  BY <1>1, GoesOn
<1>3. DriverTypes'
  BY <1>1, <1>2, SameKeeps DEF DriverInv, DriverTypes, Functions, Places
<1>4. SameSector' /\ Interrupted' /\ SomeoneGoesOn'
  BY <1>1, <1>2 DEF SameSector, Handles, Interrupted, Early, SomeoneGoesOn, Same
<1>. QED BY <1>1, <1>3, <1>4, SameKeeps DEF DriverInv

(* A request that do_hd_request refuses ends at or beyond the end. *)
LEMMA RefuseKeeps == ASSUME DriverInv, RefuseRequest PROVE DriverInv'
<1>1. /\ requests # <<>> /\ Current.sector + 2 > NrSects /\ Running("do_hd_request")
      /\ UNCHANGED <<setup, reset, do_hd, hd_timeout, irq, outer, func, disk>>
  BY DEF RefuseRequest, BeyondEnd, flags, interrupts
<1>2. DriverTypes
  BY DEF DriverInv
<1>3. /\ requests' = Tail(requests)
      /\ ended' = [first |-> Current.first, uptodate |-> FALSE, buffer |-> <<>>, bad |-> Current.bad]
  BY DEF RefuseRequest, HdEndRequest, Current
<1>4. Current \in AnyRequest /\ RequestOK(Current) /\ requests' \in Seq(Request2)
  BY <1>1, <1>2, <1>3, CurrentIs
<1>5. Current.first \in Nat /\ Current.bad \in Nat /\ Current.sector \in Nat
  BY <1>4 DEF AnyRequest
<1>6. ended' \in Results /\ ended'.first = Current.first /\ ended'.uptodate = FALSE
  BY <1>3, <1>5 DEF Results
<1>7. ~(Current.first + 2 < NrSects)
  BY <1>1, <1>4, <1>5, HardDiskAssumption DEF RequestOK
<1>8. EndsRightly'
  BY <1>6, <1>7 DEF EndsRightly, EachSectorOnce, FailsOnlyAfterRetries
<1>9. DriverTypes'
  BY <1>1, <1>2, <1>4, <1>6 DEF DriverTypes
<1>10. func = "do_hd_request" \/ (func = "" /\ outer = "do_hd_request")
  BY <1>1 DEF Running
<1>11. SameSector' /\ Interrupted' /\ SomeoneGoesOn'
  BY <1>1, <1>10 DEF DriverInv, SameSector, Handles, Interrupted, Early, SomeoneGoesOn
<1>. QED BY <1>8, <1>9, <1>11 DEF DriverInv

LEMMA DecideKeeps == ASSUME DriverInv, StartReset \/ StartRecalibrate PROVE DriverInv'
<1>1. /\ Same /\ Running("do_hd_request") /\ UNCHANGED <<reset, do_hd, hd_timeout, irq, disk>>
      /\ (reset /\ GoOn("reset_hd")) \/ (~reset /\ GoOn("restore"))
  BY DEF StartReset, StartRecalibrate, Same, interrupts
<1>2. \/ func = "do_hd_request" /\ outer' = outer /\ ((reset /\ func' = "reset_hd") \/ (~reset /\ func' = "restore"))
      \/ func = "" /\ func' = "" /\ outer = "do_hd_request" /\ outer' \in {"reset_hd", "restore"}
  BY <1>1 DEF Running, GoOn
<1>3. DriverTypes'
  BY <1>1, <1>2, SameKeeps DEF DriverInv, DriverTypes, Functions, Handlers, Places
<1>4. SameSector' /\ Interrupted' /\ SomeoneGoesOn'
  BY <1>1, <1>2 DEF DriverInv, SameSector, Handles, Interrupted, Early, SomeoneGoesOn, Same
<1>. QED BY <1>1, <1>3, <1>4, SameKeeps DEF DriverInv

(* hd_out: the controller is busy with the command, and the request waits  *)
(* for its interrupt; or there is no next step.                            *)
LEMMA OutKeeps ==
    ASSUME DriverInv, Same, reset' = reset, NEW p \in {"do_hd_request", "specify", "restore"}, Running(p),
           NEW cmd \in {"read", "write", "restore", "specify"}, NEW s \in Nat, NEW h \in Handlers,
           HdOut(cmd, s, h),
           h \in {"read_intr", "write_intr"} => requests # <<>> /\ s = Current.sector,
           p = "do_hd_request" => ~reset,
           p = "specify" => h = "reset_hd"
    PROVE  DriverInv'
<1>1. CASE /\ disk' = [cmd |-> cmd, sector |-> s, status |-> "busy", late |-> FALSE]
           /\ do_hd' = h /\ hd_timeout' = TRUE /\ irq' = FALSE /\ GoOn("")
  <2>1. \/ func = p /\ func' = "" /\ outer' = outer
        \/ func = "" /\ func' = "" /\ outer = p /\ outer' = ""
    BY <1>1, GoesOn
  <2>2. disk' \in Disks /\ disk'.sector = s /\ disk'.late = FALSE
    BY <1>1 DEF Disks
  <2>3. DriverTypes'
    BY <1>1, <2>1, <2>2, SameKeeps DEF DriverInv, DriverTypes, Functions, Places
  <2>4. SameSector' /\ SomeoneGoesOn'
    BY <1>1, <2>1, <2>2 DEF SameSector, SomeoneGoesOn, Handles, Handlers, Current, Same
  <2>5. Interrupted'
    BY <1>1, <2>1, <2>2 DEF DriverInv, Interrupted, Early
  <2>. QED BY <2>3, <2>4, <2>5, SameKeeps DEF DriverInv
<1>2. CASE func' = "panic" /\ UNCHANGED <<outer, interrupts, disk>>
  <2>1. DriverTypes'
    BY <1>2, SameKeeps DEF DriverInv, DriverTypes, Functions, interrupts
  <2>2. SameSector' /\ SomeoneGoesOn' /\ Interrupted'
    BY <1>2 DEF SameSector, SomeoneGoesOn, Handles, Interrupted, Early
  <2>. QED BY <2>1, <2>2, SameKeeps DEF DriverInv
<1>. QED BY <1>1, <1>2 DEF HdOut

LEMMA StartKeeps ==
    ASSUME DriverInv, Restore \/ StartRead \/ StartWrite \/ Specify
    PROVE  DriverInv'
<1>1. Same /\ reset' = reset
  BY DEF Restore, StartRead, StartWrite, Specify, Same, flags
<1>2. requests # <<>> => Current.sector \in Nat
  BY CurrentIs DEF DriverInv, AnyRequest
<1>3. CASE Restore
  <2>1. HdOut("restore", 0, "recal_intr") /\ Running("restore")
    BY <1>3 DEF Restore
  <2>. QED BY <1>1, <2>1, OutKeeps DEF Handlers
<1>4. CASE StartRead
  <2>1. HdOut("read", Current.sector, "read_intr") /\ Running("do_hd_request") /\ requests # <<>> /\ ~reset
    BY <1>4 DEF StartRead, WIN_READ
  <2>. QED BY <1>1, <1>2, <2>1, OutKeeps DEF Handlers
<1>5. CASE StartWrite
  <2>1. HdOut("write", Current.sector, "write_intr") /\ Running("do_hd_request") /\ requests # <<>> /\ ~reset
    BY <1>5 DEF StartWrite, WIN_WRITE
  <2>. QED BY <1>1, <1>2, <2>1, OutKeeps DEF Handlers
<1>6. CASE Specify
  <2>1. HdOut("specify", 0, "reset_hd") /\ Running("specify")
    BY <1>6 DEF Specify
  <2>. QED BY <1>1, <2>1, OutKeeps DEF Handlers
<1>. QED BY <1>3, <1>4, <1>5, <1>6

LEMMA WriteRefusedKeeps == ASSUME DriverInv, WriteRefused PROVE DriverInv'
<1>1. DriverTypes /\ EndsRightly /\ requests # <<>> /\ BadRwIntr
  BY DEF DriverInv, WriteRefused
<1>2. /\ disk' = [cmd |-> "write", sector |-> Current.sector, status |-> "error", late |-> FALSE]
      /\ Current.sector \in Nat
  BY <1>1, CurrentIs DEF WriteRefused, WIN_WRITE, AnyRequest
<1>3. disk' \in Disks
  BY <1>2 DEF Disks
<1>4. do_hd' = "write_intr" /\ hd_timeout' = TRUE /\ irq' = FALSE /\ setup' = setup
      /\ func' = func /\ func = "do_hd_request" /\ outer' = outer /\ ~reset
  BY DEF WriteRefused
<1>5. DriverTypes'
  BY <1>1, <1>3, <1>4, BadIs DEF DriverTypes, Handlers
<1>6. SameSector' /\ Interrupted' /\ SomeoneGoesOn'
  BY <1>4 DEF DriverInv, SameSector, Handles, Interrupted, Early, SomeoneGoesOn
<1>. QED BY <1>1, <1>5, <1>6, BadIs DEF DriverInv

(* The steps of reset_hd. *)
LEMMA ResetKeeps == ASSUME DriverInv, ResetController PROVE DriverInv'
<1>1. /\ Same /\ Running("reset_hd") /\ reset' = FALSE /\ irq' = FALSE /\ UNCHANGED <<do_hd, hd_timeout>>
      /\ GoOn("specify") /\ disk' = Idle
  BY HardDiskAssumption DEF ResetController, AfterDrives, Same
<1>2. \/ func = "reset_hd" /\ func' = "specify" /\ outer' = outer
      \/ func = "" /\ func' = "" /\ outer = "reset_hd" /\ outer' = "specify"
  BY <1>1, GoesOn
<1>3. disk' \in Disks
  BY <1>1 DEF Disks, Idle
<1>4. DriverTypes'
  BY <1>1, <1>2, <1>3, SameKeeps DEF DriverInv, DriverTypes, Functions, Places
<1>5. SameSector' /\ Interrupted' /\ SomeoneGoesOn'
  BY <1>1, <1>2 DEF DriverInv, SameSector, Handles, Interrupted, Early, SomeoneGoesOn
<1>. QED BY <1>1, <1>4, <1>5, SameKeeps DEF DriverInv

LEMMA DrivesKeep == ASSUME DriverInv, NextDrive \/ SpecifyFailed PROVE DriverInv'
<1>1. DriverTypes /\ EndsRightly
  BY DEF DriverInv
<1>2. /\ Running("reset_hd") /\ ~reset /\ irq' = FALSE /\ setup' = setup /\ UNCHANGED <<do_hd, hd_timeout, disk>>
      /\ GoOn("reset_hd") \/ GoOn("specify") \/ GoOn("do_hd_request")
  BY DEF NextDrive, SpecifyFailed, AfterDrives
<1>3. \/ func = "reset_hd" /\ func' \in {"reset_hd", "specify", "do_hd_request"} /\ outer' = outer
      \/ func = "" /\ func' = "" /\ outer = "reset_hd" /\ outer' \in {"reset_hd", "specify", "do_hd_request"}
  BY <1>2 DEF Running, GoOn
<1>4. requests' \in Seq(Request2) /\ ended' \in Results /\ EndsRightly' /\ reset' \in BOOLEAN
  <2>1. CASE NextDrive
    BY <1>1, <2>1, SameKeeps DEF NextDrive, Same, DriverTypes
  <2>2. CASE SpecifyFailed
    BY <1>1, <2>2, BadIs DEF SpecifyFailed
  <2>. QED BY <2>1, <2>2
<1>5. DriverTypes'
  BY <1>1, <1>2, <1>3, <1>4 DEF DriverTypes, Functions, Handlers, Places
<1>6. SameSector' /\ Interrupted' /\ SomeoneGoesOn'
  BY <1>2, <1>3 DEF DriverInv, SameSector, Handles, Interrupted, Early, SomeoneGoesOn
<1>. QED BY <1>4, <1>5, <1>6 DEF DriverInv

LEMMA RestartKeeps == ASSUME DriverInv, RecalIntr \/ UnexpectedInterrupt PROVE DriverInv'
<1>1. /\ Same /\ func' = "do_hd_request" /\ reset' \in BOOLEAN /\ irq' \in BOOLEAN
      /\ UNCHANGED <<do_hd, hd_timeout, outer, disk>>
      /\ func = "recal_intr" \/ (func = "unexpected_hd_interrupt" /\ reset')
  BY DEF RecalIntr, UnexpectedInterrupt, Same, flags, interrupts, DriverInv, DriverTypes
<1>2. DriverTypes'
  BY <1>1, SameKeeps DEF DriverInv, DriverTypes, Functions
<1>3. SameSector' /\ Interrupted' /\ SomeoneGoesOn'
  BY <1>1 DEF DriverInv, SameSector, Handles, Interrupted, Early, SomeoneGoesOn
<1>. QED BY <1>1, <1>2, <1>3, SameKeeps DEF DriverInv

(* The handler gets what the request that waited for it had. *)
LEMMA InterruptKeeps == ASSUME DriverInv, Interrupt PROVE DriverInv'
<1>1. Same
  BY DEF Interrupt, Same
<1>2. /\ func = "" /\ irq /\ irq' = FALSE /\ do_hd' = "none" /\ hd_timeout' = FALSE
      /\ UNCHANGED <<requests, reset, outer, disk>>
  BY DEF Interrupt, flags
<1>3. \/ do_hd = "none" /\ func' = "unexpected_hd_interrupt"
      \/ do_hd \in Handlers /\ func' = do_hd
  BY DEF Interrupt, DriverInv, DriverTypes, Handlers
<1>4. DriverTypes'
  BY <1>1, <1>2, <1>3, SameKeeps DEF DriverInv, DriverTypes, Functions
<1>5. SameSector' /\ SomeoneGoesOn'
  BY <1>2, <1>3 DEF DriverInv, SameSector, SomeoneGoesOn, Handles, Handlers, Current
<1>6. Interrupted'
  BY <1>2, <1>3 DEF DriverInv, Interrupted, Early, Handlers
<1>. QED BY <1>1, <1>4, <1>5, <1>6, SameKeeps DEF DriverInv

LEMMA BadResultKeeps == ASSUME DriverInv, BadResult PROVE DriverInv'
<1>1. DriverTypes /\ EndsRightly /\ BadRwIntr
  BY DEF DriverInv, BadResult
<1>2. /\ func \in {"read_intr", "write_intr", "recal_intr"} /\ func' = "do_hd_request" /\ irq' = FALSE
      /\ UNCHANGED <<setup, do_hd, hd_timeout, outer, disk>>
  BY DEF BadResult
<1>3. DriverTypes'
  BY <1>1, <1>2, BadIs DEF DriverTypes, Functions
<1>4. SameSector' /\ Interrupted' /\ SomeoneGoesOn'
  BY <1>2 DEF DriverInv, SameSector, Handles, Interrupted, Early, SomeoneGoesOn
<1>. QED BY <1>1, <1>3, <1>4, BadIs DEF DriverInv

-----------------------------------------------------------------------------
(* read_intr and write_intr: the first sector, or the second one and the   *)
(* end.  r is the request with one sector more in its buffer.              *)
Moved(r) ==
    /\ r \in AnyRequest
    /\ r.first = Current.first /\ r.errors <= Current.errors /\ r.bad = Current.bad
    /\ r.nr_sectors = Current.nr_sectors - 1
    /\ r.buffer = Append(Current.buffer, disk.sector)
    /\ r.sector = Current.sector + 1

LEMMA MovedIs ==
    ASSUME DriverTypes, requests # <<>>, disk.sector = Current.sector, NEW r, Moved(r)
    PROVE  /\ r.nr_sectors > 0 => RequestOK(r)
           /\ r.nr_sectors = 0 => r.buffer = <<r.first, r.first + 1>>
<1>1. Current \in AnyRequest /\ RequestOK(Current)
  BY CurrentIs
<1>2. CASE Current.buffer = <<>> /\ Current.sector = Current.first /\ Current.nr_sectors = 2
  <2>1. r.nr_sectors = 1 /\ r.buffer = Append(<<>>, r.first) /\ r.sector = r.first + 1
    BY <1>2 DEF Moved
  <2>2. r.buffer = <<r.first>>
    BY <2>1
  <2>3. r.errors < MAX_ERRORS /\ r.errors <= r.bad
    BY <1>1, HardDiskAssumption DEF Moved, RequestOK, AnyRequest
  <2>. QED BY <2>1, <2>2, <2>3 DEF RequestOK
<1>3. CASE Current.buffer = <<Current.first>> /\ Current.sector = Current.first + 1 /\ Current.nr_sectors = 1
  <2>1. r.nr_sectors = 0 /\ r.buffer = Append(<<r.first>>, r.first + 1)
    BY <1>3 DEF Moved
  <2>2. Append(<<r.first>>, r.first + 1) = <<r.first, r.first + 1>>
    BY AppendPair, Zenon
  <2>3. ~(r.nr_sectors > 0)
    BY <2>1
  <2>. QED BY <2>1, <2>2, <2>3
<1>. QED BY <1>1, <1>2, <1>3 DEF RequestOK

LEMMA MoreKeeps ==
    ASSUME DriverInv, requests # <<>>, disk.sector = Current.sector, NEW r, Moved(r), r.nr_sectors > 0,
           requests' = SetCurrent(r), NEW h \in {"read_intr", "write_intr"}, do_hd' = h, hd_timeout' = TRUE,
           disk' = NextSector, func = h, func' = "", irq' = FALSE, UNCHANGED <<ended, setup, reset, outer>>
    PROVE  DriverInv'
<1>1. DriverTypes /\ EndsRightly
  BY DEF DriverInv
<1>2. r \in Request2
  BY <1>1, MovedIs DEF Request2, Moved
<1>3. requests' \in Seq(Request2) /\ requests' # <<>> /\ Head(requests') = r
  BY <1>1, <1>2, SetIs
<1>4. disk.sector + 1 \in Nat
  <2>1. disk.sector \in Nat
    BY <1>1 DEF DriverTypes, Disks
  <2>. QED BY <2>1, Successor, Zenon
<1>5. disk' \in Disks /\ disk'.sector = disk.sector + 1
  BY <1>1, <1>4 DEF DriverTypes, Disks, NextSector
<1>6. DriverTypes'
  BY <1>1, <1>3, <1>5 DEF DriverTypes, Functions, Handlers
<1>7. SomeoneGoesOn' /\ Interrupted'
  BY DEF DriverInv, SomeoneGoesOn, Interrupted, Early
<1>8. SameSector'
  BY <1>3, <1>5 DEF SameSector, Moved, Current
<1>9. EndsRightly'
  BY <1>1 DEF EndsRightly, EachSectorOnce, FailsOnlyAfterRetries
<1>. QED BY <1>6, <1>7, <1>8, <1>9 DEF DriverInv

LEMMA LastKeeps ==
    ASSUME DriverInv, requests # <<>>, NEW r \in AnyRequest, r.buffer = <<r.first, r.first + 1>>,
           HdEndRequest(SetCurrent(r), TRUE), func \in {"read_intr", "write_intr"}, func' = "do_hd_request",
           irq' = FALSE, UNCHANGED <<do_hd, hd_timeout, disk, setup, reset, outer>>
    PROVE  DriverInv'
<1>1. DriverTypes
  BY DEF DriverInv
<1>2. Head(SetCurrent(r)) = r /\ Tail(SetCurrent(r)) = Tail(requests)
  BY <1>1, SetIs
<1>3. /\ requests' = Tail(requests)
      /\ ended' = [first |-> r.first, uptodate |-> TRUE, buffer |-> r.buffer, bad |-> 0]
  BY <1>2 DEF HdEndRequest
<1>4. r.first \in Nat /\ r.buffer \in Seq(Nat)
  BY DEF AnyRequest
<1>5. ended' \in Results /\ ended'.first = r.first /\ ended'.buffer = r.buffer /\ ended'.uptodate = TRUE
  BY <1>3, <1>4 DEF Results
<1>6. requests' \in Seq(Request2)
  BY <1>1, <1>3, CurrentIs
<1>7. DriverTypes'
  BY <1>1, <1>5, <1>6 DEF DriverTypes, Functions
<1>8. EndsRightly'
  BY <1>5 DEF EndsRightly, EachSectorOnce, FailsOnlyAfterRetries
<1>9. SameSector' /\ Interrupted' /\ SomeoneGoesOn'
  BY DEF DriverInv, SameSector, Handles, Interrupted, Early, SomeoneGoesOn
<1>. QED BY <1>7, <1>8, <1>9 DEF DriverInv

(* A sector has come. *)
LEMMA ReadKeeps == ASSUME DriverInv, ReadIntr PROVE DriverInv'
<1> DEFINE r == [Current EXCEPT !.buffer = Append(@, disk.sector), !.errors = 0,
                                !.sector = @ + 1, !.nr_sectors = @ - 1]
<1>1. requests # <<>> /\ disk.sector = Current.sector /\ DriverTypes /\ disk.sector \in Nat
  BY DEF DriverInv, ReadIntr, SameSector, Handles, DriverTypes, Disks
<1>2. Current \in AnyRequest /\ RequestOK(Current)
  BY <1>1, CurrentIs
<1>3. Moved(r) /\ r \in AnyRequest
  <2> DEFINE b == Append(Current.buffer, disk.sector)
             s == Current.sector + 1
             n == Current.nr_sectors - 1
  <2>1. s \in Nat /\ n \in Nat
    BY <1>2 DEF AnyRequest, RequestOK
  <2>2. b \in Seq(Nat)
    BY <1>1, <1>2, AppendProperties DEF AnyRequest
  <2>3. r = [Current EXCEPT !.buffer = b, !.errors = 0, !.sector = s, !.nr_sectors = n]
    BY <1>2 DEF AnyRequest
  <2>4. b = Append(Current.buffer, disk.sector) /\ s = Current.sector + 1 /\ n = Current.nr_sectors - 1
    OBVIOUS
  <2> HIDE DEF b, s, n, r
  <2>5. r \in AnyRequest
    BY <1>2, <2>1, <2>2, <2>3 DEF AnyRequest
  <2>6. /\ r.first = Current.first /\ r.errors = 0 /\ r.bad = Current.bad
        /\ r.nr_sectors = n /\ r.buffer = b /\ r.sector = s
    BY <1>2, <2>3 DEF AnyRequest
  <2>7. 0 <= Current.errors
    BY <1>2 DEF AnyRequest
  <2>. QED BY <2>4, <2>5, <2>6, <2>7 DEF Moved
<1>4. CASE /\ r.nr_sectors > 0 /\ requests' = SetCurrent(r) /\ do_hd' = "read_intr" /\ hd_timeout' = TRUE
           /\ disk' = NextSector /\ func' = "" /\ UNCHANGED ended
  <2>1. func = "read_intr" /\ irq' = FALSE /\ UNCHANGED <<setup, reset, outer>>
    BY DEF ReadIntr, flags
  <2> HIDE DEF r
  <2>. QED BY <1>1, <1>3, <1>4, <2>1, MoreKeeps
<1>5. CASE /\ r.nr_sectors = 0 /\ HdEndRequest(SetCurrent(r), TRUE) /\ func' = "do_hd_request"
           /\ UNCHANGED <<do_hd, hd_timeout, disk>>
  <2>1. func = "read_intr" /\ irq' = FALSE /\ UNCHANGED <<setup, reset, outer>>
    BY DEF ReadIntr, flags
  <2> HIDE DEF r
  <2>2. r.buffer = <<r.first, r.first + 1>>
    BY <1>1, <1>3, <1>5, MovedIs
  <2>. QED BY <1>1, <1>3, <1>5, <2>1, <2>2, LastKeeps
<1>. QED BY <1>4, <1>5 DEF ReadIntr

(* A sector has gone. *)
LEMMA WriteKeeps == ASSUME DriverInv, WriteIntr PROVE DriverInv'
<1> DEFINE r == [Current EXCEPT !.buffer = Append(@, disk.sector), !.nr_sectors = @ - 1]
           t == [r EXCEPT !.sector = @ + 1]
<1>1. requests # <<>> /\ disk.sector = Current.sector /\ DriverTypes /\ disk.sector \in Nat
  BY DEF DriverInv, WriteIntr, SameSector, Handles, DriverTypes, Disks
<1>2. Current \in AnyRequest /\ RequestOK(Current)
  BY <1>1, CurrentIs
<1>3. Moved(t) /\ r \in AnyRequest /\ t.nr_sectors = r.nr_sectors /\ t.buffer = r.buffer /\ t.first = r.first
  <2> DEFINE b == Append(Current.buffer, disk.sector)
             s == Current.sector + 1
             n == Current.nr_sectors - 1
  <2>1. s \in Nat /\ n \in Nat
    BY <1>2 DEF AnyRequest, RequestOK
  <2>2. b \in Seq(Nat)
    BY <1>1, <1>2, AppendProperties DEF AnyRequest
  <2>3. r = [Current EXCEPT !.buffer = b, !.nr_sectors = n]
    BY <1>2 DEF AnyRequest
  <2>4. b = Append(Current.buffer, disk.sector) /\ s = Current.sector + 1 /\ n = Current.nr_sectors - 1
    OBVIOUS
  <2> HIDE DEF b, s, n, r, t
  <2>5. r \in AnyRequest
    BY <1>2, <2>1, <2>2, <2>3 DEF AnyRequest
  <2>6. /\ r.first = Current.first /\ r.errors = Current.errors /\ r.bad = Current.bad
        /\ r.nr_sectors = n /\ r.buffer = b /\ r.sector = Current.sector
    BY <1>2, <2>3 DEF AnyRequest
  <2>7. t = [r EXCEPT !.sector = s]
    BY <2>4, <2>5, <2>6 DEF t, AnyRequest
  <2>8. t \in AnyRequest
    BY <2>1, <2>5, <2>7 DEF AnyRequest
  <2>9. /\ t.first = r.first /\ t.errors = r.errors /\ t.bad = r.bad
        /\ t.nr_sectors = r.nr_sectors /\ t.buffer = r.buffer /\ t.sector = s
    BY <2>5, <2>7 DEF AnyRequest
  <2>10. t.errors <= Current.errors
    BY <1>2, <2>6, <2>9 DEF AnyRequest
  <2>. QED BY <2>4, <2>5, <2>6, <2>8, <2>9, <2>10 DEF Moved
<1>4. CASE /\ r.nr_sectors > 0 /\ requests' = SetCurrent(t) /\ do_hd' = "write_intr" /\ hd_timeout' = TRUE
           /\ disk' = NextSector /\ func' = "" /\ UNCHANGED ended
  <2>1. func = "write_intr" /\ irq' = FALSE /\ UNCHANGED <<setup, reset, outer>>
    BY DEF WriteIntr, flags
  <2> HIDE DEF r, t
  <2>2. t.nr_sectors > 0
    BY <1>3, <1>4
  <2>. QED BY <1>1, <1>3, <1>4, <2>1, <2>2, MoreKeeps
<1>5. CASE /\ r.nr_sectors = 0 /\ HdEndRequest(SetCurrent(r), TRUE) /\ func' = "do_hd_request"
           /\ UNCHANGED <<do_hd, hd_timeout, disk>>
  <2>1. func = "write_intr" /\ irq' = FALSE /\ UNCHANGED <<setup, reset, outer>>
    BY DEF WriteIntr, flags
  <2> HIDE DEF r, t
  <2>2. t.nr_sectors = 0
    BY <1>3, <1>5
  <2>3. r.buffer = <<r.first, r.first + 1>>
    BY <1>1, <1>3, <2>2, MovedIs
  <2>. QED BY <1>1, <1>3, <1>5, <2>1, <2>3, LastKeeps
<1>. QED BY <1>4, <1>5 DEF WriteIntr

(* A time-out: the message, and what comes after it. *)
LEMMA TimesOutKeeps == ASSUME DriverInv, TimesOut PROVE DriverInv'
<1>1. /\ Same /\ func = "" /\ func' = "" /\ hd_timeout' = FALSE /\ UNCHANGED <<do_hd, irq, reset>>
      /\ requests = <<>> \/ outer' = "hd_times_out"
  BY DEF TimesOut, Same, flags
<1>2. disk' \in Disks /\ disk'.sector = disk.sector /\ outer' \in {"", "hd_times_out"}
  BY DEF TimesOut, DriverInv, DriverTypes, Disks
<1>3. DriverTypes'
  BY <1>1, <1>2, SameKeeps DEF DriverInv, DriverTypes, Places
<1>4. SameSector' /\ Interrupted' /\ SomeoneGoesOn'
  BY <1>1, <1>2 DEF DriverInv, SameSector, Handles, Interrupted, Early, SomeoneGoesOn, Same, Current
<1>. QED BY <1>1, <1>3, <1>4, SameKeeps DEF DriverInv

LEMMA GivesUpKeeps == ASSUME DriverInv, GivesUp PROVE DriverInv'
<1>1. DriverTypes /\ EndsRightly /\ requests # <<>> /\ CountError(SetCurrent(OneMore))
  BY DEF DriverInv, GivesUp
<1>2. /\ do_hd' = "none" /\ hd_timeout' = TRUE /\ reset' = TRUE /\ UNCHANGED <<setup, disk, irq>>
      /\ Running("hd_times_out") /\ GoOn("do_hd_request")
  BY DEF GivesUp
<1>3. func = "" /\ func' = "" /\ outer' = "do_hd_request"
  BY <1>1, <1>2 DEF Running, GoOn, DriverTypes, Functions, Handlers
<1>4. DriverTypes'
  BY <1>1, <1>2, <1>3, CountIs DEF DriverTypes, Places
<1>5. SameSector' /\ Interrupted' /\ SomeoneGoesOn'
  BY <1>2, <1>3 DEF SameSector, Handles, Interrupted, Early, SomeoneGoesOn
<1>. QED BY <1>1, <1>4, <1>5, CountIs DEF DriverInv

LEMMA CrashKeeps == ASSUME DriverInv, Crashes PROVE DriverInv'
<1>1. Same /\ func' = "crash" /\ UNCHANGED <<reset, do_hd, hd_timeout, irq, outer, disk>>
  BY DEF Crashes, Same, flags, interrupts
<1>2. DriverTypes'
  BY <1>1, SameKeeps DEF DriverInv, DriverTypes, Functions
<1>3. SameSector' /\ Interrupted' /\ SomeoneGoesOn'
  BY <1>1 DEF SameSector, Handles, Interrupted, Early, SomeoneGoesOn
<1>. QED BY <1>1, <1>2, <1>3, SameKeeps DEF DriverInv

(* An answer that comes in early is late: no handler waits for it. *)
LEMMA DiskKeeps ==
    ASSUME DriverInv, NEW status \in {"ready", "error"}, DiskAnswers(status)
    PROVE  DriverInv'
<1>1. Same
  BY DEF DiskAnswers, Same
<1>2. /\ func = "" /\ irq' = TRUE /\ disk' = [disk EXCEPT !.status = status]
      /\ UNCHANGED <<requests, reset, do_hd, hd_timeout, outer, func>>
      /\ outer \in {"", "specify", "restore"} \/ disk.late
  BY DEF DiskAnswers, flags
<1>3. disk' \in Disks /\ disk'.sector = disk.sector
  BY <1>2 DEF DriverInv, DriverTypes, Disks
<1>4. DriverTypes'
  BY <1>1, <1>2, <1>3, SameKeeps DEF DriverInv, DriverTypes
<1>5. SomeoneGoesOn' /\ SameSector'
  BY <1>2, <1>3 DEF DriverInv, SomeoneGoesOn, SameSector, Handles, Current
<1>6. Interrupted'
  BY <1>2 DEF DriverInv, Interrupted, Early
<1>. QED BY <1>1, <1>4, <1>5, <1>6, SameKeeps DEF DriverInv

-----------------------------------------------------------------------------
LEMMA DriverInit == HdInit => DriverInv
<1> SUFFICES ASSUME HdInit PROVE DriverInv
  OBVIOUS
<1>1. /\ setup \in Setups /\ requests = <<>> /\ do_hd = "none" /\ hd_timeout = FALSE /\ reset = FALSE
      /\ outer = "" /\ func = "" /\ disk = Idle /\ irq = FALSE
      /\ ended = [first |-> 0, buffer |-> <<0, 1>>, bad |-> 0, uptodate |-> TRUE]
  BY DEF HdInit, Nothing
<1>2. <<0, 1>> \in Seq(Nat)
  OBVIOUS
<1>3. ended \in Results /\ ended.first = 0 /\ ended.buffer = <<0, 1>> /\ ended.uptodate = TRUE
  BY <1>1, <1>2 DEF Results
<1>4. EndsRightly
  BY <1>3 DEF EndsRightly, EachSectorOnce, FailsOnlyAfterRetries
<1>5. DriverTypes
  <2>1. requests \in Seq(Request2)
    BY <1>1, EmptySeq, Zenon
  <2>2. disk \in Disks
    BY <1>1 DEF Disks, Idle
  <2>. QED BY <1>1, <1>3, <2>1, <2>2 DEF DriverTypes, Functions, Places
<1>6. SameSector /\ Interrupted /\ SomeoneGoesOn
  BY <1>1 DEF SameSector, Handles, Interrupted, Early, SomeoneGoesOn
<1>. QED BY <1>4, <1>5, <1>6 DEF DriverInv

LEMMA DriverStep == ASSUME Settled, DriverInv, [HdNext]_hd_vars PROVE DriverInv'
<1>1. CASE UNCHANGED hd_vars
  <2>1. UNCHANGED <<setup, requests, do_hd, hd_timeout, reset, outer, func, disk, irq, ended>>
    BY <1>1 DEF hd_vars
  <2>2. DriverTypes'
    BY <2>1 DEF DriverInv, DriverTypes
  <2>3. SameSector' /\ Interrupted' /\ SomeoneGoesOn'
    BY <2>1 DEF DriverInv, SameSector, Handles, Current, Interrupted, Early, SomeoneGoesOn
  <2>4. EndsRightly'
    BY <2>1 DEF DriverInv, EndsRightly, EachSectorOnce, FailsOnlyAfterRetries
  <2>. QED BY <2>2, <2>3, <2>4 DEF DriverInv
<1>2. CASE \E cmd \in {WIN_READ, WIN_WRITE}, s \in FirstSector : HdAddRequest(cmd, s)
  BY <1>2, AddKeeps
<1>3. CASE DoRequest
  BY <1>3, NoRequestKeeps, RefuseKeeps, DecideKeeps, StartKeeps, WriteRefusedKeeps DEF DoRequest
<1>4. CASE Handler
  BY <1>4, ResetKeeps, DrivesKeep, StartKeeps, RestartKeeps, BadResultKeeps, ReadKeeps, WriteKeeps,
     GivesUpKeeps, CrashKeeps DEF Handler
<1>5. CASE Interrupt
  BY <1>5, InterruptKeeps
<1>6. CASE TimesOut
  BY <1>6, TimesOutKeeps
<1>7. CASE \E status \in {"ready", "error"} : DiskAnswers(status)
  BY <1>7, DiskKeeps
<1>. QED BY <1>1, <1>2, <1>3, <1>4, <1>5, <1>6, <1>7 DEF HdNext

(* The driver never leaves a request behind: while one is queued and no    *)
(* function of the driver runs, an interrupt is expected and its time-out  *)
(* is running, also after answers that came too late.                      *)
THEOREM DriverGoesOn == ASSUME Settled PROVE HdSpec => []SomeoneGoesOn
<1>1. HdInit => DriverInv
  BY DriverInit
<1>2. DriverInv /\ [HdNext]_hd_vars => DriverInv'
  BY DriverStep
<1>3. DriverInv => SomeoneGoesOn
  BY DEF DriverInv
<1>. QED BY <1>1, <1>2, <1>3, PTL DEF HdSpec

(* A request that end_request marks uptodate has moved both its sectors,   *)
(* each once and in order, whatever was retried; one that failed has had   *)
(* MAX_ERRORS errors, unless it reaches the end of the partition.          *)
THEOREM RequestsEndRightly == ASSUME Settled PROVE HdSpec => []EndsRightly
<1>1. HdInit => DriverInv
  BY DriverInit
<1>2. DriverInv /\ [HdNext]_hd_vars => DriverInv'
  BY DriverStep
<1>3. DriverInv => EndsRightly
  BY DEF DriverInv
<1>. QED BY <1>1, <1>2, <1>3, PTL DEF HdSpec

-----------------------------------------------------------------------------
(* The kernel timers. *)

(* The timers, each with what was asked for. *)
Timers == [jiffies : Int, due : Int, alone : BOOLEAN]

(* What the first n timers have to wait together, and what of j is left    *)
(* behind them: the two recursive functions of Timer.                      *)
Sum(l, n) == LET sum[m \in 0..n] == IF m = 0 THEN 0 ELSE sum[m - 1] + l[m].jiffies IN sum[n]
Left(l, j, n) == LET sum[m \in 0..n] == IF m = 0 THEN j ELSE sum[m - 1] - l[m].jiffies IN sum[n]

Sums(f, l, n) == f = [m \in 0..n |-> IF m = 0 THEN 0 ELSE f[m - 1] + l[m].jiffies]
Lefts(f, l, j, n) == f = [m \in 0..n |-> IF m = 0 THEN j ELSE f[m - 1] - l[m].jiffies]

(* Each is the only function with its equation, and there is one.          *)
LEMMA SumsAgree ==
    ASSUME NEW l, NEW N \in Nat, NEW M \in Nat, NEW f, NEW g, Sums(f, l, N), Sums(g, l, M),
           NEW n \in 0..N, n \in 0..M
    PROVE  f[n] = g[n]
<1> DEFINE Bad == {m \in 0..N : m \in 0..M /\ f[m] # g[m]}
<1> SUFFICES ASSUME Bad # {} PROVE FALSE
  OBVIOUS
<1>a. Bad \in SUBSET Nat OBVIOUS
<1>1. PICK m \in Bad : \A i \in Bad : m <= i
  <2>. HIDE DEF Bad
  <2>. QED BY <1>a, LeastOf
<1>2. f[0] = 0 /\ g[0] = 0 BY DEF Sums
<1>3. m # 0 /\ m \in 0..N /\ m \in 0..M BY <1>1, <1>2
<1>4. m - 1 \in 0..N /\ m - 1 \in 0..M /\ ~(m <= m - 1) BY <1>3
<1>5. f[m - 1] = g[m - 1] BY <1>1, <1>4
<1>6. f[m] = f[m - 1] + l[m].jiffies /\ g[m] = g[m - 1] + l[m].jiffies BY <1>3 DEF Sums
<1>. QED BY <1>1, <1>5, <1>6

LEMMA LeftsAgree ==
    ASSUME NEW l, NEW j, NEW N \in Nat, NEW f, NEW g, Lefts(f, l, j, N), Lefts(g, l, j, N), NEW n \in 0..N
    PROVE  f[n] = g[n]
<1> DEFINE Bad == {m \in 0..N : f[m] # g[m]}
<1> SUFFICES ASSUME Bad # {} PROVE FALSE
  OBVIOUS
<1>a. Bad \in SUBSET Nat OBVIOUS
<1>1. PICK m \in Bad : \A i \in Bad : m <= i
  <2>. HIDE DEF Bad
  <2>. QED BY <1>a, LeastOf
<1>2. f[0] = j /\ g[0] = j BY DEF Lefts
<1>3. m # 0 /\ m \in 0..N BY <1>1, <1>2
<1>4. m - 1 \in 0..N /\ ~(m <= m - 1) BY <1>3
<1>5. f[m - 1] = g[m - 1] BY <1>1, <1>4
<1>6. f[m] = f[m - 1] - l[m].jiffies /\ g[m] = g[m - 1] - l[m].jiffies BY <1>3 DEF Lefts
<1>. QED BY <1>1, <1>5, <1>6

LEMMA SumsExist ==
    ASSUME NEW l, NEW N \in Nat, \A m \in 1..N : l[m].jiffies \in Int, NEW n \in 0..N
    PROVE  \E f : Sums(f, l, n) /\ \A m \in 0..n : f[m] \in Int
<1> DEFINE Is(f, i) == Sums(f, l, i) /\ \A m \in 0..i : f[m] \in Int
           Bad == {i \in 0..N : ~\E f : Is(f, i)}
<1> SUFFICES ASSUME Bad # {} PROVE FALSE
  OBVIOUS
<1>a. Bad \in SUBSET Nat OBVIOUS
<1>1. PICK i \in Bad : \A m \in Bad : i <= m
  <2>. HIDE DEF Bad
  <2>. QED BY <1>a, LeastOf
<1>2. CASE i = 0
  <2> DEFINE g == [m \in 0..0 |-> 0]
  <2>1. g[0] = 0 /\ \A m \in 0..0 : m = 0 OBVIOUS
  <2>2. Is(g, 0) BY <2>1 DEF Sums
  <2>. QED BY <1>1, <1>2, <2>2
<1>3. CASE i # 0
  <2>1. i \in 1..N /\ i - 1 \in 0..N /\ ~(i <= i - 1) BY <1>1, <1>3
  <2>2. PICK f : Is(f, i - 1) BY <1>1, <2>1
  <2> DEFINE g == [m \in 0..i |-> IF m = i THEN f[i - 1] + l[i].jiffies ELSE f[m]]
  <2>3. \A m \in 0..i : m # i => m \in 0..(i - 1) BY <2>1
  <2>4. f[i - 1] \in Int /\ l[i].jiffies \in Int BY <2>1, <2>2
  <2>5. \A m \in 0..i : g[m] \in Int
    BY <2>2, <2>3, <2>4
  <2>6. ASSUME NEW m \in 0..i PROVE g[m] = IF m = 0 THEN 0 ELSE g[m - 1] + l[m].jiffies
    <3>1. CASE m = i BY <3>1, <2>1
    <3>2. CASE m # i
      <4>1. m \in 0..(i - 1) BY <2>3, <3>2
      <4>2. f[m] = IF m = 0 THEN 0 ELSE f[m - 1] + l[m].jiffies BY <4>1, <2>2 DEF Sums
      <4>3. m # 0 => m - 1 \in 0..i /\ m - 1 # i BY <4>1, <2>1
      <4>. QED BY <4>2, <4>3, <3>2
    <3>. QED BY <3>1, <3>2
  <2>7. Sums(g, l, i)
    <3>1. g = [m \in 0..i |-> g[m]] OBVIOUS
    <3>. HIDE DEF g
    <3>. QED BY <3>1, <2>6 DEF Sums
  <2>8. Is(g, i) BY <2>5, <2>7
  <2>. HIDE DEF g, Is
  <2>. QED BY <1>1, <2>8
<1>. QED BY <1>2, <1>3

LEMMA SumIs ==
    ASSUME NEW l, NEW N \in Nat, \A m \in 1..N : l[m].jiffies \in Int, NEW n \in 0..N
    PROVE  /\ \A f : Sums(f, l, n) => Sum(l, n) = f[n]
           /\ \A j \in Int : Left(l, j, n) = j - Sum(l, n)
           /\ Sum(l, n) \in Int
<1>1. PICK f : Sums(f, l, n) /\ \A m \in 0..n : f[m] \in Int BY SumsExist
<1>2. Sum(l, n) = f[n]
  <2> DEFINE g == CHOOSE h : Sums(h, l, n)
  <2>1. Sum(l, n) = g[n] BY DEF Sum, Sums
  <2>2. Sums(g, l, n) BY <1>1
  <2>3. n \in Nat /\ n \in 0..n OBVIOUS
  <2>. HIDE DEF g
  <2>4. Sums(f, l, n) BY <1>1
  <2>5. f[n] = g[n] BY <2>2, <2>3, <2>4, SumsAgree
  <2>. QED BY <2>1, <2>5
<1>3. ASSUME NEW j \in Int PROVE Left(l, j, n) = j - f[n]
  <2> DEFINE g == CHOOSE h : Lefts(h, l, j, n)
             k == [m \in 0..n |-> j - f[m]]
  <2>1. Left(l, j, n) = g[n] BY DEF Left, Lefts
  <2>2. Lefts(k, l, j, n)
    <3>1. ASSUME NEW m \in 0..n PROVE k[m] = IF m = 0 THEN j ELSE k[m - 1] - l[m].jiffies
      <4>1. f[m] = IF m = 0 THEN 0 ELSE f[m - 1] + l[m].jiffies BY <1>1 DEF Sums
      <4>2. m # 0 => m - 1 \in 0..n /\ m \in 1..N OBVIOUS
      <4>3. m # 0 => f[m - 1] \in Int /\ l[m].jiffies \in Int BY <4>2, <1>1
      <4>. QED BY <4>1, <4>2, <4>3
    <3>2. k = [m \in 0..n |-> k[m]] OBVIOUS
    <3>. HIDE DEF k
    <3>. QED BY <3>1, <3>2 DEF Lefts
  <2>3. Lefts(g, l, j, n) BY <2>2
  <2>4. k[n] = j - f[n] OBVIOUS
  <2>5. n \in Nat /\ n \in 0..n OBVIOUS
  <2>. HIDE DEF g, k
  <2>6. g[n] = k[n] BY <2>2, <2>3, <2>5, LeftsAgree
  <2>. QED BY <2>1, <2>4, <2>6
<1>4. ASSUME NEW g, Sums(g, l, n) PROVE g[n] = f[n]
  <2>1. Sums(f, l, n) BY <1>1
  <2>2. n \in Nat /\ n \in 0..n OBVIOUS
  <2>3. f[n] = g[n] BY <1>4, <2>1, <2>2, SumsAgree
  <2>. QED BY <2>3
<1>. QED BY <1>1, <1>2, <1>3, <1>4

(* How the sum goes on.                                                    *)
LEMMA SumStep ==
    ASSUME NEW l, NEW N \in Nat, \A m \in 1..N : l[m].jiffies \in Int, NEW n \in 0..N
    PROVE  Sum(l, n) = IF n = 0 THEN 0 ELSE Sum(l, n - 1) + l[n].jiffies
<1>1. PICK f : Sums(f, l, n) /\ \A m \in 0..n : f[m] \in Int BY SumsExist
<1>2. Sum(l, n) = f[n] BY <1>1, SumIs
<1>3. CASE n = 0 BY <1>1, <1>2, <1>3 DEF Sums
<1>4. CASE n # 0
  <2>1. n - 1 \in 0..N /\ n - 1 \in Nat BY <1>4
  <2>2. PICK g : Sums(g, l, n - 1) /\ \A m \in 0..(n - 1) : g[m] \in Int BY <2>1, SumsExist
  <2>3. Sum(l, n - 1) = g[n - 1] BY <2>1, <2>2, SumIs
  <2>4. g[n - 1] = f[n - 1]
    <3>1. n \in Nat /\ n - 1 \in 0..n /\ n - 1 \in 0..(n - 1) BY <1>4
    <3>. QED BY <1>1, <2>1, <2>2, <3>1, SumsAgree
  <2>5. f[n] = f[n - 1] + l[n].jiffies BY <1>1, <1>4 DEF Sums
  <2>. QED BY <1>2, <1>4, <2>3, <2>4, <2>5
<1>. QED BY <1>3, <1>4

(* A list whose sums are not too low.  That a timer is alone means it is   *)
(* the head, and was never passed by another: its jiffies are exact.       *)
Lasts(l) ==
    /\ l \in Seq(Timers) /\ Len(l) <= TIME_REQUESTS
    /\ \A n \in 1..Len(l) : /\ n > 1 => l[n].jiffies >= 0
                            /\ Sum(l, n) >= l[n].due
                            /\ l[n].alone => n = 1 /\ l[n].due = l[n].jiffies

(* The head is as far below zero as do_timer calls have counted it down    *)
(* that have not taken it off yet; each of them fires all that has expired *)
(* before it returns.                                                      *)
TimersInv ==
    /\ Lasts(list)
    /\ nested \in 0..MaxNested /\ sti \in BOOLEAN /\ astray \in BOOLEAN
    /\ at \in [1..MaxNested -> {"count", "test", "take", "call"}]
    /\ list # <<>> => /\ list[1].jiffies >= -nested
                      /\ nested > 0 /\ at[nested] = "count" => list[1].jiffies >= 1 - nested
                      /\ nested = 0 => list[1].jiffies > 0

LEMMA SumZero == ASSUME NEW l PROVE Sum(l, 0) = 0
<1>1. 0 \in Nat /\ 0 \in 0..0 /\ \A m \in 1..0 : l[m].jiffies \in Int OBVIOUS
<1>. QED BY <1>1, SumStep

LEMMA ListIs ==
    ASSUME NEW l \in Seq(Timers)
    PROVE  /\ Len(l) \in Nat
           /\ \A n \in 1..Len(l) : l[n] \in Timers /\ l[n].jiffies \in Int /\ l[n].due \in Int
                                   /\ l[n].alone \in BOOLEAN
           /\ \A n \in 0..Len(l) : Sum(l, n) \in Int
           /\ l # <<>> <=> Len(l) # 0
<1>1. Len(l) \in Nat BY LenProperties
<1>2. \A n \in 1..Len(l) : l[n] \in Timers BY ElementOfSeq
<1>3. \A n \in 1..Len(l) : l[n].jiffies \in Int BY <1>2 DEF Timers
<1>4. \A n \in 0..Len(l) : Sum(l, n) \in Int BY <1>1, <1>3, SumIs
<1>5. l # <<>> <=> Len(l) # 0 BY EmptySeq
<1>. QED BY <1>1, <1>2, <1>3, <1>4, <1>5 DEF Timers

(* Two lists with the same timers behind some places, or at the front.     *)
Alike(l, a, q, b, c) == \A i \in 1..c : l[a + i].jiffies = q[b + i].jiffies

LEMMA GrowAlike ==
    ASSUME NEW l \in Seq(Timers), NEW q \in Seq(Timers),
           NEW a \in Nat, NEW x \in Nat, NEW b \in Nat, NEW y \in Nat, NEW c \in Nat,
           x = a + c, y = b + c, x <= Len(l), y <= Len(q), Alike(l, a, q, b, c)
    PROVE  Sum(l, x) - Sum(l, a) = Sum(q, y) - Sum(q, b)
<1> DEFINE Bad == {i \in 0..c : Sum(l, a + i) - Sum(l, a) # Sum(q, b + i) - Sum(q, b)}
<1>0. /\ Len(l) \in Nat /\ \A m \in 1..Len(l) : l[m].jiffies \in Int
      /\ Len(q) \in Nat /\ \A m \in 1..Len(q) : q[m].jiffies \in Int
      /\ \A m \in 0..Len(l) : Sum(l, m) \in Int
      /\ \A m \in 0..Len(q) : Sum(q, m) \in Int
  BY ListIs
<1>1. c \in Nat /\ a + c = x /\ b + c = y OBVIOUS
<1>2. \A i \in 1..c : l[a + i].jiffies = q[b + i].jiffies BY DEF Alike
<1>3. \A i \in 0..c : a + i \in 0..Len(l) /\ b + i \in 0..Len(q) BY <1>0, <1>1
<1>4. Bad = {}
  <2>. SUFFICES ASSUME Bad # {} PROVE FALSE
    OBVIOUS
  <2>a. Bad \in SUBSET Nat BY <1>1
  <2>1. PICK i \in Bad : \A m \in Bad : i <= m
    <3>. HIDE DEF Bad
    <3>. QED BY <2>a, LeastOf
  <2>3. i # 0
    <3>1. a + 0 = a /\ b + 0 = b /\ Sum(l, a) \in Int /\ Sum(q, b) \in Int
      <4>1. 0 \in 0..c BY <1>1
      <4>2. a + 0 = a /\ b + 0 = b OBVIOUS
      <4>. QED BY <4>1, <4>2, <1>0, <1>3
    <3>2. i = 0 => Sum(l, a + i) = Sum(l, a) /\ Sum(q, b + i) = Sum(q, b) BY <3>1
    <3>. QED BY <2>1, <3>1, <3>2
  <2>4. i \in 1..c /\ i - 1 \in 0..c /\ ~(i <= i - 1) BY <2>1, <2>3, <1>1
  <2>5. Sum(l, a + (i - 1)) - Sum(l, a) = Sum(q, b + (i - 1)) - Sum(q, b) BY <2>1, <2>4
  <2>6. /\ a + i \in 0..Len(l) /\ b + i \in 0..Len(q) /\ a + i # 0 /\ b + i # 0
        /\ (a + i) - 1 = a + (i - 1) /\ (b + i) - 1 = b + (i - 1)
        /\ a + (i - 1) \in 0..Len(l) /\ b + (i - 1) \in 0..Len(q)
        /\ a \in 0..Len(l) /\ b \in 0..Len(q)
    <3>1. a + i \in 0..Len(l) /\ b + i \in 0..Len(q) BY <1>3, <2>4
    <3>2. a + (i - 1) \in 0..Len(l) /\ b + (i - 1) \in 0..Len(q) BY <1>3, <2>4
    <3>3. a \in 0..Len(l) /\ b \in 0..Len(q) BY <1>0, <1>1
    <3>4. i \in Nat /\ i # 0 BY <2>4
    <3>5. a + i # 0 /\ b + i # 0 /\ (a + i) - 1 = a + (i - 1) /\ (b + i) - 1 = b + (i - 1) BY <3>4
    <3>. QED BY <3>1, <3>2, <3>3, <3>5
  <2>7. Sum(l, a + i) = Sum(l, a + (i - 1)) + l[a + i].jiffies BY <1>0, <2>6, SumStep
  <2>8. Sum(q, b + i) = Sum(q, b + (i - 1)) + q[b + i].jiffies BY <1>0, <2>6, SumStep
  <2>9. l[a + i].jiffies = q[b + i].jiffies /\ q[b + i].jiffies \in Int
    <3>1. b + i \in 1..Len(q) BY <2>6
    <3>. QED BY <1>0, <1>2, <2>4, <3>1
  <2>10. Sum(l, a + i) - Sum(l, a) # Sum(q, b + i) - Sum(q, b) BY <2>1
  <2>11. /\ Sum(l, a + i) \in Int /\ Sum(l, a + (i - 1)) \in Int /\ Sum(l, a) \in Int
         /\ Sum(q, b + i) \in Int /\ Sum(q, b + (i - 1)) \in Int /\ Sum(q, b) \in Int
    BY <1>0, <2>6
  <2>12. \A u, v, w, r, s, t, d \in Int :
           v - u = s - r /\ w = v + d /\ t = s + d => w - u = t - r
    OBVIOUS
  <2>13. l[a + i].jiffies \in Int BY <2>9
  <2>. HIDE DEF Bad
  <2> DEFINE u == Sum(l, a)
             v == Sum(l, a + (i - 1))
             w == Sum(l, a + i)
             r == Sum(q, b)
             s == Sum(q, b + (i - 1))
             t == Sum(q, b + i)
             d == l[a + i].jiffies
  <2>14. u \in Int /\ v \in Int /\ w \in Int /\ r \in Int /\ s \in Int /\ t \in Int /\ d \in Int
    BY <2>11, <2>13
  <2>15. v - u = s - r BY <2>5
  <2>16. w = v + d BY <2>7
  <2>17. t = s + d BY <2>8, <2>9
  <2>18. w - u # t - r BY <2>10
  <2>. HIDE DEF u, v, w, r, s, t, d
  <2>. QED BY <2>12, <2>14, <2>15, <2>16, <2>17, <2>18
<1>5. c \in 0..c BY <1>1
<1>6. Sum(l, a + c) - Sum(l, a) = Sum(q, b + c) - Sum(q, b) BY <1>4, <1>5
<1>. QED BY <1>1, <1>6

LEMMA BeginAlike ==
    ASSUME NEW l \in Seq(Timers), NEW q \in Seq(Timers), NEW n \in Nat,
           n <= Len(l), n <= Len(q), \A i \in 1..n : l[i].jiffies = q[i].jiffies
    PROVE  Sum(l, n) = Sum(q, n)
<1>1. PICK z \in Nat : z = 0 OBVIOUS
<1>2. Sum(l, z) = 0 /\ Sum(q, z) = 0 BY <1>1, SumZero
<1>3. n = z + n /\ \A i \in 1..n : z + i = i BY <1>1
<1>4. Alike(l, z, q, z, n) BY <1>3 DEF Alike
<1>5. Sum(l, n) - Sum(l, z) = Sum(q, n) - Sum(q, z) BY <1>3, <1>4, GrowAlike
<1>6. Sum(l, n) \in Int /\ Sum(q, n) \in Int
  <2>1. Len(l) \in Nat /\ Len(q) \in Nat BY LenProperties
  <2>2. n \in 0..Len(l) /\ n \in 0..Len(q) BY <2>1
  <2>. QED BY <2>2, ListIs
<1>. QED BY <1>2, <1>5, <1>6

(* add_timer: the new timer stops where it has something left.             *)
LEMMA TimerGoesIn ==
    ASSUME NEW l \in Seq(Timers), NEW j \in Int, j > 0
    PROVE  \E spot \in 0..Len(l) :
             /\ Insert(l, j) \in Seq(Timers) /\ Len(Insert(l, j)) = Len(l) + 1
             /\ \A n \in 1..spot : Insert(l, j)[n] = l[n]
             /\ Insert(l, j)[spot + 1] = [jiffies |-> j - Sum(l, spot), due |-> j, alone |-> l = <<>>]
             /\ \A n \in (spot + 2)..(Len(l) + 1) : Insert(l, j)[n] = [l[n - 1] EXCEPT !.alone = FALSE]
             /\ j - Sum(l, spot) > 0
             /\ spot = 0 /\ l # <<>> => l[1].jiffies >= j
<1> DEFINE stops == {n \in 0..Len(l) : n = Len(l) \/ l[n + 1].jiffies >= Left(l, j, n)}
           spot == CHOOSE n \in stops : \A m \in stops : n <= m
           a == SubSeq(l, 1, spot)
           e == [jiffies |-> Left(l, j, spot), due |-> j, alone |-> l = <<>>]
           b == [n \in 1..(Len(l) - spot) |-> [l[spot + n] EXCEPT !.alone = FALSE]]
<1>0. /\ Len(l) \in Nat
      /\ \A n \in 1..Len(l) : l[n] \in Timers /\ l[n].jiffies \in Int
      /\ \A n \in 0..Len(l) : Sum(l, n) \in Int /\ Left(l, j, n) = j - Sum(l, n)
  BY ListIs, SumIs
<1>1. Insert(l, j) = a \o <<e>> \o b
  BY DEF Insert, Left
<1>2. spot \in stops /\ \A m \in stops : spot <= m
  <2>1. stops \in SUBSET Nat /\ Len(l) \in stops BY <1>0
  <2>. HIDE DEF stops
  <2>. QED BY <2>1, LeastOf
<1>3. spot \in 0..Len(l) BY <1>2
<1>. HIDE DEF spot, a, b, e
<1>4. j - Sum(l, spot) > 0
  <2>1. CASE spot = 0
    <3>. QED BY <2>1, SumZero
  <2>2. CASE spot # 0
    <3>1. spot - 1 \in 0..Len(l) /\ spot - 1 # Len(l) /\ ~(spot <= spot - 1) /\ spot \in 0..Len(l) /\ spot \in 1..Len(l)
          /\ (spot - 1) + 1 = spot
      BY <1>0, <1>3, <2>2
    <3>2. ~(l[(spot - 1) + 1].jiffies >= Left(l, j, spot - 1)) BY <1>2, <3>1
    <3>3. Sum(l, spot) = Sum(l, spot - 1) + l[spot].jiffies BY <1>0, <3>1, <2>2, SumStep
    <3>4. l[spot].jiffies \in Int /\ Left(l, j, spot - 1) = j - Sum(l, spot - 1) /\ Sum(l, spot - 1) \in Int
      BY <1>0, <3>1
    <3>. QED BY <3>1, <3>2, <3>3, <3>4
  <2>. QED BY <2>1, <2>2
<1>5. a \in Seq(Timers) /\ Len(a) = spot /\ \A n \in 1..spot : a[n] = l[n]
  BY <1>0, <1>3, SubSeqProperties DEF a
<1>6. e \in Timers
  BY <1>0, <1>3 DEF Timers, e
<1>7. b \in Seq(Timers) /\ Len(b) = Len(l) - spot
      /\ \A n \in 1..(Len(l) - spot) : b[n] = [l[spot + n] EXCEPT !.alone = FALSE]
  <2>1. \A n \in 1..(Len(l) - spot) : spot + n \in 1..Len(l) BY <1>0, <1>3
  <2>2. \A n \in 1..(Len(l) - spot) : [l[spot + n] EXCEPT !.alone = FALSE] \in Timers
    BY <1>0, <2>1 DEF Timers
  <2>3. Len(l) - spot \in Nat BY <1>0, <1>3
  <2>. QED BY <2>2, <2>3 DEF b
<1>8. DEFINE c == a \o <<e>>
<1>9. c \in Seq(Timers) /\ Len(c) = spot + 1 /\ (\A n \in 1..spot : c[n] = l[n]) /\ c[spot + 1] = e
  BY <1>3, <1>5, <1>6
<1>. HIDE DEF c
<1>10. /\ Insert(l, j) \in Seq(Timers) /\ Len(Insert(l, j)) = Len(l) + 1
       /\ \A n \in 1..(spot + 1) : Insert(l, j)[n] = c[n]
       /\ \A n \in (spot + 2)..(Len(l) + 1) : Insert(l, j)[n] = b[n - (spot + 1)]
  <2>1. Insert(l, j) = c \o b BY <1>1 DEF c
  <2>2. Insert(l, j) \in Seq(Timers) /\ Len(Insert(l, j)) = Len(c) + Len(b)
        /\ \A n \in 1..(Len(c) + Len(b)) : Insert(l, j)[n] = IF n <= Len(c) THEN c[n] ELSE b[n - Len(c)]
    BY <2>1, <1>7, <1>9, ConcatProperties
  <2>. QED BY <2>2, <1>0, <1>3, <1>7, <1>9
<1>11. ASSUME NEW n \in (spot + 2)..(Len(l) + 1) PROVE Insert(l, j)[n] = [l[n - 1] EXCEPT !.alone = FALSE]
  <2>1. n - (spot + 1) \in 1..(Len(l) - spot) /\ spot + (n - (spot + 1)) = n - 1 BY <1>0, <1>3
  <2>. QED BY <2>1, <1>7, <1>10
<1>12. \A n \in 1..spot : Insert(l, j)[n] = l[n] BY <1>3, <1>9, <1>10
<1>13. Insert(l, j)[spot + 1] = e /\ e = [jiffies |-> j - Sum(l, spot), due |-> j, alone |-> l = <<>>]
  BY <1>0, <1>3, <1>9, <1>10 DEF e
<1>14. ASSUME spot = 0, l # <<>> PROVE l[1].jiffies >= j
  <2>1. Len(l) # 0 /\ 0 \in 0..Len(l) /\ 0 + 1 = 1 BY <1>0, <1>14, ListIs
  <2>2. l[1].jiffies >= Left(l, j, 0) BY <1>2, <1>14, <2>1
  <2>3. Left(l, j, 0) = j BY <1>0, <2>1, SumZero
  <2>. QED BY <2>2, <2>3
<1>. QED BY <1>3, <1>4, <1>10, <1>11, <1>12, <1>13, <1>14

LEMMA InsertLasts ==
    ASSUME NEW l, Lasts(l), Len(l) < TIME_REQUESTS, NEW j \in Int, j > 0
    PROVE  /\ Lasts(Insert(l, j)) /\ Insert(l, j) # <<>> /\ Len(Insert(l, j)) = Len(l) + 1
           /\ \/ Insert(l, j)[1].jiffies > 0
              \/ l # <<>> /\ Insert(l, j)[1].jiffies = l[1].jiffies
<1> DEFINE q == Insert(l, j)
<1>0. /\ l \in Seq(Timers) /\ Len(l) \in Nat
      /\ \A n \in 1..Len(l) : l[n] \in Timers /\ l[n].jiffies \in Int /\ l[n].due \in Int /\ l[n].alone \in BOOLEAN
      /\ \A n \in 0..Len(l) : Sum(l, n) \in Int
      /\ l # <<>> <=> Len(l) # 0
  BY ListIs DEF Lasts
<1>1. PICK spot \in 0..Len(l) :
         /\ q \in Seq(Timers) /\ Len(q) = Len(l) + 1
         /\ \A n \in 1..spot : q[n] = l[n]
         /\ q[spot + 1] = [jiffies |-> j - Sum(l, spot), due |-> j, alone |-> l = <<>>]
         /\ \A n \in (spot + 2)..(Len(l) + 1) : q[n] = [l[n - 1] EXCEPT !.alone = FALSE]
         /\ j - Sum(l, spot) > 0
         /\ spot = 0 /\ l # <<>> => l[1].jiffies >= j
  BY <1>0, TimerGoesIn
<1>. HIDE DEF q
<1>2. /\ \A n \in 1..Len(q) : q[n] \in Timers /\ q[n].jiffies \in Int
      /\ \A n \in 0..Len(q) : Sum(q, n) \in Int
  BY <1>1, ListIs
<1>3. \A n \in (spot + 2)..(Len(l) + 1) : /\ n - 1 \in (spot + 1)..Len(l)
                                        /\ q[n].jiffies = l[n - 1].jiffies /\ q[n].due = l[n - 1].due
                                        /\ q[n].alone = FALSE
  <2>1. \A n \in (spot + 2)..(Len(l) + 1) : n - 1 \in (spot + 1)..Len(l) /\ n - 1 \in 1..Len(l)
    BY <1>0
  <2>2. ASSUME NEW n \in (spot + 2)..(Len(l) + 1)
        PROVE  q[n].jiffies = l[n - 1].jiffies /\ q[n].due = l[n - 1].due /\ q[n].alone = FALSE
    <3>1. q[n] = [l[n - 1] EXCEPT !.alone = FALSE] /\ l[n - 1] \in Timers BY <1>0, <1>1, <2>1
    <3>. QED BY <3>1 DEF Timers
  <2>. QED BY <2>1, <2>2
<1>4. ASSUME NEW n \in 1..spot PROVE Sum(q, n) = Sum(l, n)
  <2>1. n \in Nat /\ n <= Len(l) /\ n <= Len(q) /\ \A i \in 1..n : i \in 1..spot BY <1>0, <1>1
  <2>2. \A i \in 1..n : q[i].jiffies = l[i].jiffies BY <2>1, <1>1
  <2>. QED BY <2>1, <2>2, <1>0, <1>1, BeginAlike
<1>5. Sum(q, spot) = Sum(l, spot)
  <2>1. CASE spot = 0
    <3>. QED BY <2>1, SumZero
  <2>2. CASE spot # 0 BY <1>4, <2>2
  <2>. QED BY <2>1, <2>2
<1>6. Sum(q, spot + 1) = j
  <2>1. spot + 1 \in 0..Len(q) /\ (spot + 1) - 1 = spot /\ spot + 1 # 0 /\ Len(q) \in Nat BY <1>0, <1>1
  <2>2. Sum(q, spot + 1) = Sum(q, spot) + q[spot + 1].jiffies BY <1>2, <2>1, SumStep
  <2>3. Sum(l, spot) \in Int BY <1>0
  <2>. QED BY <1>1, <1>5, <2>2, <2>3
<1>7. ASSUME NEW n \in (spot + 2)..(Len(l) + 1) PROVE Sum(q, n) >= Sum(l, n - 1)
  <2>1. /\ spot \in Nat /\ spot + 1 \in Nat /\ n - 1 \in Nat /\ n \in Nat
        /\ (n - 1) - spot = n - (spot + 1) /\ spot <= n - 1 /\ n - 1 <= Len(l) /\ n <= Len(q)
        /\ n \in 0..Len(q) /\ n - 1 \in 0..Len(l)
    BY <1>0, <1>1
  <2>2. ASSUME NEW i \in 1..((n - 1) - spot) PROVE l[spot + i].jiffies = q[(spot + 1) + i].jiffies
    <3>1. (spot + 1) + i \in (spot + 2)..(Len(l) + 1) /\ ((spot + 1) + i) - 1 = spot + i
      BY <1>0, <2>1
    <3>. QED BY <3>1, <1>3
  <2>3. Sum(l, n - 1) - Sum(l, spot) = Sum(q, n) - Sum(q, spot + 1)
    <3>1. PICK a \in Nat, x \in Nat, b \in Nat, y \in Nat :
            a = spot /\ x = n - 1 /\ b = spot + 1 /\ y = n
      BY <2>1
    <3>2. PICK c \in Nat : c = x - a
      <4>1. x - a \in Nat BY <2>1, <3>1
      <4>. QED BY <4>1
    <3>3. x = a + c /\ y = b + c /\ x <= Len(l) /\ y <= Len(q) BY <2>1, <3>1, <3>2
    <3>4. Alike(l, a, q, b, c) BY <2>2, <3>1, <3>2 DEF Alike
    <3>5. l \in Seq(Timers) /\ q \in Seq(Timers) BY <1>0, <1>1
    <3>6. Sum(l, x) - Sum(l, a) = Sum(q, y) - Sum(q, b)
      BY <3>3, <3>4, <3>5, GrowAlike
    <3>. QED BY <3>1, <3>6
  <2>4. Sum(l, n - 1) \in Int /\ Sum(l, spot) \in Int /\ Sum(q, n) \in Int BY <1>0, <1>2, <2>1
  <2>. QED BY <1>1, <1>6, <2>3, <2>4
<1>8. ASSUME NEW n \in 1..Len(q)
      PROVE  /\ n > 1 => q[n].jiffies >= 0
             /\ Sum(q, n) >= q[n].due
             /\ q[n].alone => n = 1 /\ q[n].due = q[n].jiffies
  <2>1. n \in 1..spot \/ n = spot + 1 \/ n \in (spot + 2)..(Len(l) + 1) BY <1>0, <1>1
  <2>2. CASE n \in 1..spot
    <3>1. n \in 1..Len(l) BY <1>0, <2>2
    <3>. QED BY <1>1, <1>4, <2>2, <3>1 DEF Lasts
  <2>3. CASE n = spot + 1
    <3>1. q[n].jiffies = j - Sum(l, spot) /\ q[n].due = j /\ q[n].alone = (l = <<>>) BY <1>1, <2>3
    <3>2. Sum(l, spot) \in Int BY <1>0
    <3>3. l = <<>> => spot = 0 /\ Sum(l, spot) = 0
      <4>1. l = <<>> => spot = 0 BY <1>0
      <4>. QED BY <4>1, SumZero
    <3>4. ASSUME q[n].alone PROVE n = 1 /\ q[n].due = q[n].jiffies
      <4>1. l = <<>> BY <3>1, <3>4
      <4>2. spot = 0 /\ Sum(l, spot) = 0 BY <4>1, <3>3
      <4>. QED BY <3>1, <4>2, <2>3
    <3>. QED BY <1>1, <1>6, <2>3, <3>1, <3>2, <3>4
  <2>4. CASE n \in (spot + 2)..(Len(l) + 1)
    <3>1. q[n].jiffies = l[n - 1].jiffies /\ q[n].due = l[n - 1].due /\ ~q[n].alone /\ n - 1 \in 1..Len(l)
      BY <1>0, <1>3, <2>4
    <3>2. l[n - 1].jiffies >= 0
      <4>1. CASE n - 1 = 1
        <5>1. spot = 0 /\ l # <<>> BY <4>1, <1>0, <2>4, <3>1
        <5>2. l[1].jiffies >= j /\ l[1].jiffies \in Int BY <1>0, <1>1, <3>1, <4>1, <5>1
        <5>. QED BY <4>1, <5>2
      <4>2. CASE n - 1 # 1 BY <4>2, <3>1, <1>0 DEF Lasts
      <4>. QED BY <4>1, <4>2
    <3>3. Sum(q, n) >= Sum(l, n - 1) /\ Sum(l, n - 1) >= l[n - 1].due BY <1>7, <2>4, <3>1 DEF Lasts
    <3>4. Sum(q, n) \in Int /\ Sum(l, n - 1) \in Int /\ l[n - 1].due \in Int BY <1>0, <1>2, <1>1, <3>1
    <3>. QED BY <3>1, <3>2, <3>3, <3>4
  <2>. QED BY <2>1, <2>2, <2>3, <2>4
<1>9. q[1].jiffies > 0 \/ (l # <<>> /\ q[1].jiffies = l[1].jiffies)
  <2>1. CASE spot = 0
    <3>1. q[1].jiffies = j - Sum(l, spot) BY <1>1, <2>1
    <3>2. Sum(l, spot) \in Int BY <1>0
    <3>. QED BY <1>1, <3>1, <3>2
  <2>2. CASE spot # 0
    <3>1. q[1] = l[1] /\ l # <<>>
      <4>1. 1 \in 1..spot /\ Len(l) # 0 BY <1>0, <2>2
      <4>. QED BY <4>1, <1>0, <1>1
    <3>. QED BY <3>1
  <2>. QED BY <2>1, <2>2
<1>10. Len(q) <= TIME_REQUESTS /\ q # <<>>
  <2>1. Len(q) # 0 BY <1>0, <1>1
  <2>2. TIME_REQUESTS \in Nat BY TimerAssumption
  <2>. QED BY <1>0, <1>1, <2>1, <2>2, EmptySeq
<1>11. Lasts(q) BY <1>1, <1>8, <1>10 DEF Lasts
<1>. QED BY <1>1, <1>9, <1>10, <1>11 DEF q

(* The sums do not fall behind the head.                                   *)
LEMMA SumsGrow ==
    ASSUME NEW l, Lasts(l), NEW n \in 1..Len(l)
    PROVE  Sum(l, 1) = l[1].jiffies /\ Sum(l, n) >= l[1].jiffies
<1>0. /\ Len(l) \in Nat
      /\ \A m \in 1..Len(l) : l[m].jiffies \in Int
      /\ \A m \in 0..Len(l) : Sum(l, m) \in Int
  BY ListIs DEF Lasts
<1>1. Sum(l, 1) = l[1].jiffies
  <2>1. 1 \in 0..Len(l) /\ 1 \in 1..Len(l) /\ 1 # 0 /\ 1 - 1 = 0 BY <1>0
  <2>2. Sum(l, 1) = Sum(l, 0) + l[1].jiffies BY <1>0, <2>1, SumStep
  <2>. QED BY <1>0, <2>1, <2>2, SumZero
<1>2. \A m \in 2..Len(l) : /\ m \in 0..Len(l) /\ m # 0 /\ m - 1 \in 1..Len(l) /\ m - 1 \in 0..Len(l)
                           /\ l[m].jiffies \in Int /\ l[m].jiffies >= 0
  <2>1. \A m \in 2..Len(l) : m \in 1..Len(l) /\ m > 1 /\ m \in 0..Len(l) /\ m # 0
                             /\ m - 1 \in 1..Len(l) /\ m - 1 \in 0..Len(l)
    BY <1>0
  <2>. QED BY <1>0, <2>1 DEF Lasts
<1> DEFINE Bad == {m \in 1..Len(l) : ~(Sum(l, m) >= l[1].jiffies)}
<1>3. Bad = {}
  <2>. SUFFICES ASSUME Bad # {} PROVE FALSE
    OBVIOUS
  <2>1. Bad \in SUBSET Nat OBVIOUS
  <2>2. PICK m \in Bad : \A i \in Bad : m <= i
    <3>. HIDE DEF Bad
    <3>. QED BY <2>1, LeastOf
  <2>3. m # 1
    <3>1. 1 \in 1..Len(l) => l[1].jiffies >= l[1].jiffies BY <1>0
    <3>. QED BY <2>2, <1>1, <3>1
  <2>4. m \in 2..Len(l) /\ ~(m <= m - 1) BY <2>2, <2>3, <1>0
  <2>5. Sum(l, m - 1) >= l[1].jiffies BY <2>2, <2>4, <1>2
  <2>6. Sum(l, m) = Sum(l, m - 1) + l[m].jiffies
    BY <1>0, <1>2, <2>4, SumStep
  <2>7. Sum(l, m) \in Int /\ Sum(l, m - 1) \in Int /\ l[1].jiffies \in Int
    <3>1. 1 \in 1..Len(l) BY <1>0
    <3>. QED BY <1>0, <1>2, <2>4, <3>1
  <2>8. l[m].jiffies \in Int /\ l[m].jiffies >= 0 BY <1>2, <2>4
  <2>9. ~(Sum(l, m) >= l[1].jiffies) BY <2>2
  <2>. QED BY <2>5, <2>6, <2>7, <2>8, <2>9
<1>. QED BY <1>1, <1>3

(* do_timer takes an expired head off: the timers behind it have waited    *)
(* for it no longer than they had to.                                      *)
LEMMA TailLasts ==
    ASSUME NEW l, Lasts(l), l # <<>>, l[1].jiffies <= 0
    PROVE  Lasts(Tail(l)) /\ (Tail(l) # <<>> => Tail(l)[1].jiffies >= 0)
<1> DEFINE q == Tail(l)
<1>0. /\ l \in Seq(Timers) /\ Len(l) \in Nat /\ Len(l) # 0 /\ Len(l) <= TIME_REQUESTS
      /\ \A n \in 1..Len(l) : l[n].jiffies \in Int /\ l[n].due \in Int
      /\ \A n \in 0..Len(l) : Sum(l, n) \in Int
  BY ListIs DEF Lasts
<1>1. q \in Seq(Timers) /\ Len(q) = Len(l) - 1 /\ \A i \in 1..Len(q) : q[i] = l[i + 1]
  BY <1>0, HeadTailProperties
<1>. HIDE DEF q
<1>2. ASSUME NEW n \in 1..Len(q)
      PROVE  /\ n + 1 \in 1..Len(l) /\ n + 1 > 1 /\ q[n] = l[n + 1]
             /\ q[n].jiffies >= 0 /\ ~q[n].alone
             /\ Sum(q, n) >= q[n].due
  <2>1. n \in Nat /\ n + 1 \in Nat /\ n + 1 \in 1..Len(l) /\ n + 1 \in 0..Len(l) /\ n + 1 > 1 /\ n + 1 # 1
        /\ n \in 0..Len(q) /\ 1 \in 1..Len(l) /\ n + 1 <= Len(l) /\ n <= Len(q)
    BY <1>0, <1>1
  <2>2. q[n] = l[n + 1] BY <1>1
  <2>3. q[n].jiffies >= 0 /\ ~q[n].alone /\ Sum(l, n + 1) >= q[n].due BY <2>1, <2>2 DEF Lasts
  <2>4. Sum(l, n + 1) - Sum(l, 1) = Sum(q, n) - Sum(q, 0)
    <3>1. PICK x \in Nat, o \in Nat, z \in Nat : x = n + 1 /\ o = 1 /\ z = 0 BY <2>1
    <3>2. ASSUME NEW i \in 1..n PROVE l[o + i].jiffies = q[z + i].jiffies
      <4>1. i \in 1..Len(q) /\ z + i = i /\ o + i = i + 1 BY <1>0, <1>1, <3>1
      <4>. QED BY <4>1, <1>1
    <3>3. Alike(l, o, q, z, n) BY <3>2 DEF Alike
    <3>4. x = o + n /\ n = z + n /\ x <= Len(l) /\ n <= Len(q) BY <2>1, <3>1
    <3>5. Sum(l, x) - Sum(l, o) = Sum(q, n) - Sum(q, z)
      BY <1>0, <1>1, <2>1, <3>3, <3>4, GrowAlike
    <3>. QED BY <3>1, <3>5
  <2>5. Sum(l, 1) = l[1].jiffies BY <2>1, SumsGrow
  <2>6. Sum(q, n) >= Sum(l, n + 1)
    <3>1. Sum(q, n) \in Int /\ Sum(q, 0) = 0 BY <1>1, <2>1, ListIs, SumZero
    <3>2. Sum(l, n + 1) \in Int /\ l[1].jiffies \in Int BY <1>0, <2>1
    <3>. QED BY <2>4, <2>5, <3>1, <3>2
  <2>7. Sum(q, n) \in Int /\ Sum(l, n + 1) \in Int /\ q[n].due \in Int
    BY <1>0, <1>1, <2>1, <2>2, ListIs
  <2>8. Sum(q, n) >= q[n].due BY <2>3, <2>6, <2>7
  <2>. QED BY <2>1, <2>2, <2>3, <2>8
<1>3. Len(q) <= TIME_REQUESTS
  <2>1. TIME_REQUESTS \in Nat BY TimerAssumption
  <2>. QED BY <2>1, <1>0, <1>1
<1>4. Lasts(q) BY <1>1, <1>2, <1>3 DEF Lasts
<1>5. q # <<>> => q[1].jiffies >= 0
  <2>1. q # <<>> => 1 \in 1..Len(q) BY <1>0, <1>1, ListIs
  <2>. QED BY <2>1, <1>2
<1>. QED BY <1>4, <1>5 DEF q

(* One more count: every sum is one less, and so is what is left, down     *)
(* to the bound.                                                           *)
LEMMA TickLasts ==
    ASSUME Lasts(list), list # <<>>, list[1].jiffies > -MaxLate,
           NEW q, q = [n \in 1..Len(list) |->
              [jiffies |-> CountDown(list)[n],
               due |-> IF list[n].due > -MaxLate THEN list[n].due - 1 ELSE -MaxLate,
               alone |-> list[n].alone]]
    PROVE  Lasts(q) /\ q # <<>> /\ Len(q) = Len(list) /\ q[1].jiffies = list[1].jiffies - 1
<1>0. /\ list \in Seq(Timers) /\ Len(list) \in Nat /\ Len(list) # 0 /\ Len(list) <= TIME_REQUESTS
      /\ \A n \in 1..Len(list) : list[n] \in Timers /\ list[n].jiffies \in Int /\ list[n].due \in Int
                                 /\ list[n].alone \in BOOLEAN
      /\ \A n \in 0..Len(list) : Sum(list, n) \in Int
      /\ 1 \in 1..Len(list)
  BY ListIs DEF Lasts
<1>1. MaxLate \in Nat BY TimerAssumption
<1>2. q = [n \in 1..Len(list) |->
              [jiffies |-> CountDown(list)[n],
               due |-> IF list[n].due > -MaxLate THEN list[n].due - 1 ELSE -MaxLate,
               alone |-> list[n].alone]]
  OBVIOUS
<1>3. ASSUME NEW n \in 1..Len(list)
      PROVE  CountDown(list)[n] = list[n].jiffies - (IF n = 1 THEN 1 ELSE 0)
  BY DEF CountDown
<1>4. ASSUME NEW n \in 1..Len(list)
      PROVE  /\ q[n] = [jiffies |-> CountDown(list)[n],
                        due |-> IF list[n].due > -MaxLate THEN list[n].due - 1 ELSE -MaxLate,
                        alone |-> list[n].alone]
             /\ q[n] \in Timers
             /\ n = 1 => q[n].jiffies = list[n].jiffies - 1
             /\ n # 1 => q[n].jiffies = list[n].jiffies
             /\ list[n].due > -MaxLate => q[n].due = list[n].due - 1
             /\ ~(list[n].due > -MaxLate) => q[n].due = -MaxLate
             /\ q[n].alone = list[n].alone
  <2>1. q[n] = [jiffies |-> CountDown(list)[n],
                due |-> IF list[n].due > -MaxLate THEN list[n].due - 1 ELSE -MaxLate,
                alone |-> list[n].alone]
    BY <1>2
  <2>2. /\ list[n].due > -MaxLate => q[n].due = list[n].due - 1
        /\ ~(list[n].due > -MaxLate) => q[n].due = -MaxLate
        /\ q[n].alone = list[n].alone
        /\ q[n].jiffies = CountDown(list)[n]
    BY <2>1
  <2>3. /\ n = 1 => q[n].jiffies = list[n].jiffies - 1
        /\ n # 1 => q[n].jiffies = list[n].jiffies
    <3>1. list[n].jiffies \in Int BY <1>0
    <3>. QED BY <1>3, <2>2, <3>1
  <2>4. q[n].jiffies \in Int /\ q[n].due \in Int /\ q[n].alone \in BOOLEAN
    <3>1. list[n].jiffies \in Int /\ list[n].due \in Int /\ list[n].alone \in BOOLEAN BY <1>0
    <3>. QED BY <3>1, <2>2, <2>3, <1>1
  <2>5. q[n] \in Timers
    <3>. DEFINE jj == CountDown(list)[n]
                dd == IF list[n].due > -MaxLate THEN list[n].due - 1 ELSE -MaxLate
    <3>1. q[n] = [jiffies |-> jj, due |-> dd, alone |-> list[n].alone] BY <2>1
    <3>. HIDE DEF jj, dd
    <3>2. jj \in Int /\ dd \in Int /\ list[n].alone \in BOOLEAN BY <2>4, <3>1
    <3>. QED BY <3>1, <3>2 DEF Timers
  <2>. QED BY <2>1, <2>2, <2>3, <2>5
<1>5. q \in Seq(Timers) /\ Len(q) = Len(list)
  <2>1. DOMAIN q = 1..Len(list) BY <1>2
  <2>2. q = [n \in 1..Len(list) |-> q[n]] BY <1>2
  <2>. QED BY <1>0, <1>4, <2>1, <2>2
<1>6. /\ \A n \in 1..Len(list) : q[n].jiffies \in Int /\ q[n].due \in Int
      /\ \A n \in 0..Len(list) : Sum(q, n) \in Int
  BY <1>5, ListIs
<1>7. Sum(q, 1) = list[1].jiffies - 1 /\ Sum(list, 1) = list[1].jiffies
  <2>1. 1 \in 0..Len(q) /\ 1 # 0 /\ 1 - 1 = 0 /\ Len(q) \in Nat BY <1>0, <1>5
  <2>2. Sum(q, 1) = Sum(q, 0) + q[1].jiffies BY <1>5, <1>6, <2>1, SumStep
  <2>3. q[1].jiffies = list[1].jiffies - 1 BY <1>0, <1>4
  <2>4. Sum(list, 1) = list[1].jiffies BY <1>0, SumsGrow
  <2>. QED BY <1>0, <2>2, <2>3, <2>4, SumZero
<1>8. ASSUME NEW n \in 1..Len(list) PROVE Sum(q, n) = Sum(list, n) - 1
  <2>1. PICK c \in Nat, o \in Nat : c = n - 1 /\ o = 1
    <3>1. n - 1 \in Nat OBVIOUS
    <3>. QED BY <3>1
  <2>2. ASSUME NEW i \in 1..c PROVE list[o + i].jiffies = q[o + i].jiffies
    <3>1. o + i \in 1..Len(list) /\ o + i # 1 BY <1>0, <2>1
    <3>. QED BY <3>1, <1>4
  <2>3. Alike(list, o, q, o, c) BY <2>2 DEF Alike
  <2>4. n \in Nat /\ n = o + c /\ n <= Len(list) /\ n <= Len(q) BY <1>0, <1>5, <2>1
  <2>5. Sum(list, n) - Sum(list, o) = Sum(q, n) - Sum(q, o)
    <3>1. list \in Seq(Timers) /\ q \in Seq(Timers) BY <1>0, <1>5
    <3>2. PICK p \in Seq(Timers) : p = q BY <3>1
    <3>3. Alike(list, o, p, o, c) /\ n <= Len(p) BY <2>3, <2>4, <3>2
    <3>4. Sum(list, n) - Sum(list, o) = Sum(p, n) - Sum(p, o)
      BY <3>1, <3>3, <2>1, <2>4, GrowAlike
    <3>. QED BY <3>2, <3>4
  <2>6. Sum(list, n) \in Int /\ Sum(q, n) \in Int BY <1>0, <1>6
  <2>. QED BY <1>0, <1>7, <2>1, <2>5, <2>6
<1>9. ASSUME NEW n \in 1..Len(q)
      PROVE  /\ n > 1 => q[n].jiffies >= 0
             /\ Sum(q, n) >= q[n].due
             /\ q[n].alone => n = 1 /\ q[n].due = q[n].jiffies
  <2>0. n \in 1..Len(list) BY <1>5
  <2>1. n > 1 => q[n].jiffies >= 0
    <3>1. n > 1 => n # 1 OBVIOUS
    <3>. QED BY <2>0, <3>1, <1>4 DEF Lasts
  <2>2. Sum(q, n) >= q[n].due
    <3>1. Sum(list, n) >= list[n].due BY <2>0 DEF Lasts
    <3>2. Sum(list, n) >= list[1].jiffies BY <2>0, SumsGrow
    <3>3. Sum(list, n) \in Int /\ list[n].due \in Int /\ list[1].jiffies \in Int BY <1>0, <2>0
    <3>4. Sum(q, n) = Sum(list, n) - 1 BY <1>8, <2>0
    <3>5. CASE list[n].due > -MaxLate
      <4>1. q[n].due = list[n].due - 1 BY <1>4, <2>0, <3>5
      <4>. QED BY <4>1, <3>1, <3>3, <3>4
    <3>6. CASE ~(list[n].due > -MaxLate)
      <4>1. q[n].due = -MaxLate BY <1>4, <2>0, <3>6
      <4>. QED BY <4>1, <3>2, <3>3, <3>4, <1>1
    <3>. QED BY <3>5, <3>6
  <2>3. ASSUME q[n].alone PROVE n = 1 /\ q[n].due = q[n].jiffies
    <3>1. list[n].alone BY <2>0, <2>3, <1>4
    <3>2. n = 1 /\ list[n].due = list[n].jiffies BY <2>0, <3>1 DEF Lasts
    <3>3. list[n].jiffies \in Int /\ list[n].jiffies > -MaxLate BY <1>0, <3>2
    <3>4. list[n].due > -MaxLate BY <1>1, <3>2, <3>3
    <3>5. q[n].due = list[n].due - 1 /\ q[n].jiffies = list[n].jiffies - 1
      BY <1>4, <2>0, <3>2, <3>4
    <3>. QED BY <3>2, <3>5
  <2>. QED BY <2>1, <2>2, <2>3
<1>10. q # <<>> /\ q[1].jiffies = list[1].jiffies - 1
  <2>1. q[1].jiffies = list[1].jiffies - 1 BY <1>0, <1>4
  <2>. QED BY <1>0, <1>5, <2>1, ListIs
<1>11. Lasts(q) BY <1>0, <1>5, <1>9 DEF Lasts
<1>. QED BY <1>5, <1>10, <1>11

LEMMA TimersInit == TmInit => TimersInv
<1>. SUFFICES ASSUME TmInit PROVE TimersInv
  OBVIOUS
<1>1. /\ list = <<>> /\ entries = <<>> /\ nested = 0 /\ sti = FALSE /\ astray = FALSE
      /\ at = [n \in 1..MaxNested |-> "count"]
  BY DEF TmInit
<1>2. <<>> \in Seq(Timers) /\ Len(<<>>) = 0 /\ 1..0 = {} OBVIOUS
<1>3. MaxNested \in Nat /\ TIME_REQUESTS \in Nat BY TimerAssumption
<1>4. Lasts(<<>>) BY <1>2, <1>3 DEF Lasts
<1>5. Lasts(list) BY <1>1, <1>4
<1>6. nested \in 0..MaxNested /\ sti \in BOOLEAN /\ astray \in BOOLEAN
  <2>1. 0 \in 0..MaxNested BY <1>3
  <2>. QED BY <1>1, <2>1, Zenon
<1>7. at \in [1..MaxNested -> {"count", "test", "take", "call"}] BY <1>1
<1>8. ~(list # <<>>) BY <1>1
<1>. QED BY <1>5, <1>6, <1>7, <1>8, Zenon DEF TimersInv

(* What do_timer's steps leave when the innermost call stays or returns.   *)
LEMMA StaysHere ==
    ASSUME TimersInv, nested > 0, NEW where \in {"count", "test", "take", "call"},
           NEW entry, Goes(where, entry), nested' = nested, sti' \in BOOLEAN, astray' \in BOOLEAN,
           Lasts(list'),
           list' # <<>> => /\ list'[1].jiffies >= -nested
                           /\ where = "count" => list'[1].jiffies >= 1 - nested
    PROVE  TimersInv'
<1>1. nested \in 1..MaxNested /\ at \in [1..MaxNested -> {"count", "test", "take", "call"}]
      /\ nested \in 0..MaxNested /\ nested # 0
  <2>1. nested \in 0..MaxNested /\ MaxNested \in Nat BY TimerAssumption DEF TimersInv
  <2>. QED BY <2>1 DEF TimersInv
<1>2. at' = [at EXCEPT ![nested] = where] BY DEF Goes
<1>3. at' \in [1..MaxNested -> {"count", "test", "take", "call"}] /\ at'[nested'] = where BY <1>1, <1>2
<1>. QED BY <1>1, <1>3 DEF TimersInv

LEMMA TimersStep == TimersInv /\ [TmNext]_tm_vars => TimersInv'
<1>. SUFFICES ASSUME TimersInv, [TmNext]_tm_vars PROVE TimersInv'
  OBVIOUS
<1>0. /\ Lasts(list) /\ list \in Seq(Timers)
      /\ nested \in Nat /\ nested <= MaxNested /\ nested \in 0..MaxNested
      /\ sti \in BOOLEAN /\ astray \in BOOLEAN
      /\ at \in [1..MaxNested -> {"count", "test", "take", "call"}]
      /\ MaxNested \in Nat /\ MaxLate \in Nat /\ MaxNested <= MaxLate
      /\ list # <<>> => /\ list[1].jiffies \in Int
                        /\ list[1].jiffies >= -nested
                        /\ nested > 0 /\ at[nested] = "count" => list[1].jiffies >= 1 - nested
                        /\ nested = 0 => list[1].jiffies > 0
  <2>1. Lasts(list) /\ nested \in 0..MaxNested BY DEF TimersInv
  <2>2. list # <<>> => list[1].jiffies \in Int
    <3>1. list # <<>> => 1 \in 1..Len(list) BY <2>1, ListIs DEF Lasts
    <3>. QED BY <2>1, <3>1, ListIs DEF Lasts
  <2>3. MaxNested \in Nat /\ MaxLate \in Nat /\ MaxNested <= MaxLate BY TimerAssumption
  <2>4. list \in Seq(Timers) BY <2>1 DEF Lasts
  <2>. QED BY <2>1, <2>2, <2>3, <2>4 DEF TimersInv
<1>1. ASSUME NEW j \in Delay, AddTimer(j) PROVE TimersInv'
  <2>1. nested' = nested /\ at' = at /\ astray' = astray /\ sti' = (nested > 0) BY <1>1 DEF AddTimer
  <2>2. sti' \in BOOLEAN
    <3>1. (nested > 0) \in BOOLEAN OBVIOUS
    <3>. QED BY <2>1, <3>1, Zenon
  <2>3. CASE j <= 0 /\ list' = list
    <3>. QED BY <2>1, <2>2, <2>3, <1>0 DEF TimersInv
  <2>4. CASE j > 0 /\ Len(list) < TIME_REQUESTS /\ list' = Insert(list, j)
    <3>1. j \in Int BY TimerAssumption
    <3>2. /\ Lasts(list') /\ Len(list') = Len(list) + 1
          /\ list'[1].jiffies > 0 \/ (list # <<>> /\ list'[1].jiffies = list[1].jiffies)
      BY <2>4, <3>1, <1>0, InsertLasts
    <3>4. list' # <<>> => list'[1].jiffies \in Int
      <4>1. list' # <<>> => 1 \in 1..Len(list') BY <3>2, ListIs DEF Lasts
      <4>. QED BY <3>2, <4>1, ListIs DEF Lasts
    <3>5. list' # <<>> => /\ list'[1].jiffies >= -nested
                          /\ nested > 0 /\ at[nested] = "count" => list'[1].jiffies >= 1 - nested
                          /\ nested = 0 => list'[1].jiffies > 0
      BY <3>2, <3>4, <1>0
    <3>. QED BY <2>1, <2>2, <3>2, <3>5, <1>0 DEF TimersInv
  <2>. QED BY <1>1, <2>3, <2>4 DEF AddTimer
<1>2. ASSUME Tick PROVE TimersInv'
  <2>1. /\ nested < MaxNested /\ nested' = nested + 1 /\ sti' \in BOOLEAN
        /\ list' = list /\ at' = at /\ astray' = astray
    BY <1>2 DEF Tick
  <2>2. nested' \in 0..MaxNested /\ nested' # 0 BY <1>0, <2>1
  <2>3. list # <<>> => list[1].jiffies >= -nested' /\ list[1].jiffies >= 1 - nested' BY <1>0, <2>1
  <2>. QED BY <1>0, <2>1, <2>2, <2>3 DEF TimersInv
<1>3. ASSUME ReadHead PROVE TimersInv'
  <2>1. nested > 0 /\ at[nested] \in {"count", "test"} /\ Goes(at[nested], entries[1])
        /\ list' = list /\ nested' = nested /\ sti' = sti /\ astray' = astray
    BY <1>3 DEF ReadHead, Runs
  <2>. QED BY <1>0, <2>1, StaysHere
<1>4. ASSUME Count PROVE TimersInv'
  <2>1. nested > 0 /\ at[nested] = "count" /\ Goes("test", 0)
        /\ nested' = nested /\ sti' = sti /\ astray' = astray
    BY <1>4 DEF Count, Runs
  <2>2. CASE list' = list BY <1>0, <2>1, <2>2, StaysHere
  <2>3. CASE /\ list # <<>>
             /\ list' = [n \in 1..Len(list) |->
                            [jiffies |-> CountDown(list)[n],
                             due |-> IF list[n].due > -MaxLate THEN list[n].due - 1 ELSE -MaxLate,
                             alone |-> list[n].alone]]
    <3>1. list[1].jiffies > -MaxLate BY <1>0, <2>1, <2>3
    <3>2. Lasts(list') /\ Len(list') = Len(list) /\ list'[1].jiffies = list[1].jiffies - 1
      BY <1>0, <2>3, <3>1, TickLasts
    <3>3. list'[1].jiffies >= -nested BY <1>0, <2>1, <2>3, <3>2
    <3>. QED BY <1>0, <2>1, <3>2, <3>3, StaysHere
  <2>. QED BY <1>4, <2>2, <2>3 DEF Count
<1>5. ASSUME Test PROVE TimersInv'
  <2>1. nested > 0 /\ Goes("take", held[nested])
        /\ list' = list /\ nested' = nested /\ sti' = sti /\ astray' = astray
    BY <1>5 DEF Test, Runs
  <2>. QED BY <1>0, <2>1, StaysHere
<1>6. ASSUME Take PROVE TimersInv'
  <2>1. /\ nested > 0 /\ list # <<>> /\ list[1].jiffies <= 0 /\ Goes("call", 0)
        /\ list' = Tail(list) /\ nested' = nested /\ sti' = sti /\ astray' = astray
    BY <1>6 DEF Take, Runs, Expired
  <2>2. Lasts(list') /\ (list' # <<>> => list'[1].jiffies >= 0) BY <1>0, <2>1, TailLasts
  <2>4. list' # <<>> => list'[1].jiffies \in Int
    <3>1. list' # <<>> => 1 \in 1..Len(list') BY <2>2, ListIs DEF Lasts
    <3>. QED BY <2>2, <3>1, ListIs DEF Lasts
  <2>5. list' # <<>> => list'[1].jiffies >= -nested BY <1>0, <2>2, <2>4
  <2>. QED BY <1>0, <2>1, <2>2, <2>5, StaysHere
<1>7. ASSUME TurnsOn PROVE TimersInv'
  <2>1. list' = list /\ nested' = nested /\ at' = at /\ sti' = TRUE /\ astray' = astray
    BY <1>7 DEF TurnsOn
  <2>. QED BY <1>0, <2>1 DEF TimersInv
<1>8. ASSUME Returns PROVE TimersInv'
  <2>1. nested > 0 /\ Goes("test", 0)
        /\ list' = list /\ nested' = nested /\ sti' = sti /\ astray' = astray
    BY <1>8 DEF Returns, Runs
  <2>. QED BY <1>0, <2>1, StaysHere
<1>9. ASSUME LoopEnds PROVE TimersInv'
  <2>1. /\ nested > 0 /\ (list = <<>> \/ ~Expired)
        /\ Goes("count", 0) /\ nested' = nested - 1 /\ sti' = (nested > 1)
        /\ list' = list /\ astray' = astray
    BY <1>9 DEF LoopEnds, Runs
  <2>2. list # <<>> => list[1].jiffies > 0
    <3>1. list # <<>> => ~(list[1].jiffies <= 0) BY <2>1 DEF Expired
    <3>. QED BY <1>0, <3>1
  <2>3. sti' \in BOOLEAN
    <3>1. (nested > 1) \in BOOLEAN OBVIOUS
    <3>. QED BY <2>1, <3>1, Zenon
  <2>4. nested' \in 0..MaxNested BY <1>0, <2>1
  <2>5. at' \in [1..MaxNested -> {"count", "test", "take", "call"}]
    <3>1. at' = [at EXCEPT ![nested] = "count"] BY <2>1 DEF Goes
    <3>. QED BY <1>0, <3>1
  <2>6. list # <<>> /\ nested' > 0 => list[1].jiffies >= 1 - nested'
    BY <1>0, <2>1, <2>2, <2>4
  <2>7. list # <<>> => list[1].jiffies >= -nested' BY <1>0, <2>1, <2>2, <2>4
  <2>. QED BY <1>0, <2>1, <2>2, <2>3, <2>4, <2>5, <2>6, <2>7 DEF TimersInv
<1>10. ASSUME GoesAstray PROVE TimersInv'
  <2>1. list' = list /\ nested' = nested /\ at' = at /\ sti' = sti /\ astray' = TRUE
    BY <1>10 DEF GoesAstray
  <2>. QED BY <1>0, <2>1 DEF TimersInv
<1>11. CASE UNCHANGED tm_vars
  <2>1. list' = list /\ nested' = nested /\ at' = at /\ sti' = sti /\ astray' = astray
    BY <1>11 DEF tm_vars
  <2>. QED BY <1>0, <2>1 DEF TimersInv
<1>. QED BY <1>1, <1>2, <1>3, <1>4, <1>5, <1>6, <1>7, <1>8, <1>9, <1>10, <1>11 DEF TmNext, DoTimer

(* Elapsed is the sum of the list.                                         *)
LEMMA TimersSound == TimersInv => TimersOnTime
<1>. SUFFICES ASSUME TimersInv PROVE TimersOnTime
  OBVIOUS
<1>0. /\ Lasts(list) /\ nested \in 0..MaxNested /\ sti \in BOOLEAN /\ astray \in BOOLEAN /\ nested \in Nat
      /\ list \in Seq(Timers) /\ Len(list) <= TIME_REQUESTS
      /\ \A n \in 1..Len(list) : list[n] \in Timers /\ list[n].jiffies \in Int
      /\ Len(list) \in Nat /\ (list # <<>> <=> Len(list) # 0)
  <2>1. Lasts(list) /\ nested \in 0..MaxNested /\ sti \in BOOLEAN /\ astray \in BOOLEAN BY DEF TimersInv
  <2>2. MaxNested \in Nat BY TimerAssumption
  <2>3. list \in Seq(Timers) /\ Len(list) <= TIME_REQUESTS BY <2>1 DEF Lasts
  <2>. QED BY <2>1, <2>2, <2>3, ListIs
<1>1. TmTypeOK BY <1>0 DEF TmTypeOK, Timers
<1>2. OnlyHeadExpires
  <2>. SUFFICES ASSUME NEW n \in 1..Len(list), list[n].jiffies < 0 PROVE n = 1 /\ nested > 0
    BY DEF OnlyHeadExpires
  <2>1. list[n].jiffies \in Int /\ ~(list[n].jiffies >= 0) BY <1>0
  <2>2. n = 1
    <3>1. ~(n > 1) BY <1>0, <2>1 DEF Lasts
    <3>. QED BY <3>1
  <2>3. list # <<>> BY <1>0
  <2>4. nested # 0
    <3>1. ~(list[1].jiffies > 0) BY <2>1, <2>2
    <3>. QED BY <2>3, <3>1 DEF TimersInv
  <2>. QED BY <1>0, <2>2, <2>4
<1>3. NeverEarly
  <2>1. \A n \in 1..Len(list) : Elapsed(n) = Sum(list, n) BY DEF Elapsed, Sum
  <2>2. \A n \in 1..Len(list) : Sum(list, n) >= list[n].due BY <1>0 DEF Lasts
  <2>. QED BY <2>1, <2>2 DEF NeverEarly
<1>4. OnTime
  <2>. SUFFICES ASSUME nested = 0, NEW n \in 1..Len(list), list[n].alone PROVE list[n].due > 0
    BY DEF OnTime
  <2>1. n = 1 /\ list[n].due = list[n].jiffies BY <1>0 DEF Lasts
  <2>2. list # <<>> BY <1>0
  <2>3. list[1].jiffies > 0 BY <2>2 DEF TimersInv
  <2>. QED BY <2>1, <2>3
<1>. QED BY <1>1, <1>2, <1>3, <1>4 DEF TimersOnTime, ListOK

(* The kernel timers (kernel/sched.c: add_timer, do_timer), with do_timer   *)
(* interrupting itself at any of its steps: as long as none of them uses   *)
(* an entry that is next_timer no more, no timer fires before the time     *)
(* asked for, and one that has the list to itself fires at the tick asked  *)
(* for; and always only the head of the list, while do_timer is under way, *)
(* is below zero.                                                          *)
THEOREM TimersFireOnTime == TmSpec => []TimersOnTime
<1>1. TmInit => TimersInv BY TimersInit
<1>2. TimersInv /\ [TmNext]_tm_vars => TimersInv' BY TimersStep
<1>3. TimersInv => TimersOnTime BY TimersSound
<1>. QED BY <1>1, <1>2, <1>3, PTL DEF TmSpec
=============================================================================
