----------------------------- MODULE FileProofs -----------------------------
(***************************************************************************)
(* Proofs about the files that processes have open, for any number of      *)
(* tasks, descriptors, files and inodes.                                   *)
(*                                                                         *)
(* The first part is about the tables of open files: f_count and i_count   *)
(* are what refers to a file and to an inode in all interleavings of the   *)
(* system calls.  The invariant adds what a task that sleeps in open or    *)
(* pipe has reserved: files with no inode yet, in descriptors of its own.  *)
(*                                                                         *)
(* The second part is about the inodes in memory: which reference each     *)
(* task has while it sleeps in iget, iput, sync_inodes, mount and umount.  *)
(* From it follow the counts of the inodes, that no inode is in memory     *)
(* twice, and that what was stored in an inode is not lost.                *)
(***************************************************************************)
EXTENDS OpenFiles, InodeTable, FiniteSetTheorems, WellFoundedInduction, NaturalsInduction, TLAPS

-----------------------------------------------------------------------------
(* The tables of open files. *)

Pcs == {"unborn", "user", "open_namei", "opened", "pipe", "iput", "dup2", "chdir",
        "exec", "exit", "zombie"}

FilesTypeOK ==
    /\ of_setup \in OfSetups
    /\ filp \in [Proc -> [Fd -> File \cup {NULL}]]
    /\ close_on_exec \in [Proc -> SUBSET Fd]
    /\ pwd \in [Proc -> InodeSlot \cup {NoSlot}]
    /\ f_count \in [File -> Nat]
    /\ f_inode \in [File -> InodeSlot \cup {NoSlot}]
    /\ i_count \in [InodeSlot -> Int]
    /\ pc \in [Proc -> Pcs]
    /\ fds \in [Proc -> SUBSET Fd]
    /\ inode \in [Proc -> InodeSlot \cup {NoSlot}]
    /\ after \in [Proc -> {"user", "dup2", "exec", "exit", "zombie"}]

Opening == {"open_namei", "opened", "pipe"}

(* A file that is being opened stands for one descriptor of the task that  *)
(* opens it, which exec does not close, and nobody else has it.            *)
Reserved(t) ==
    \A fd \in fds[t] : /\ filp[t][fd] # NULL
                       /\ fd \notin close_on_exec[t]
                       /\ \A u \in Proc, d \in Fd :
                             filp[u][d] = filp[t][fd] => u = t /\ d = fd

Gone(t) == pc[t] \in {"unborn", "zombie"} \/ (pc[t] = "iput" /\ after[t] = "zombie")

TaskOK(t) ==
    /\ pc[t] \in Opening => Reserved(t)
    /\ pc[t] \in {"open_namei", "opened"} => \E fd \in Fd : fds[t] = {fd}
    /\ pc[t] = "pipe" => \E fd, d \in Fd : fd # d /\ fds[t] = {fd, d}
    /\ pc[t] \in {"opened", "chdir"} => inode[t] \in InodeSlot
    /\ pc[t] \notin {"opened", "chdir", "iput"} => inode[t] = NoSlot
    /\ IF Gone(t) THEN OpenFds(t) = {} /\ pwd[t] = NoSlot ELSE pwd[t] \in InodeSlot

FilesInv == FilesTypeOK /\ (\A t \in Proc : TaskOK(t)) /\ DescriptorsSound

Refs(f) == {r \in Proc \X Fd : filp[r[1]][r[2]] = f}
Busy(n) == {t \in Proc : inode[t] = n}
Cwd(n) == {t \in Proc : pwd[t] = n}

(* What the inodes are counted for: the inode of a file that is open.      *)
Node(f) == IF f \in HalfOpen \/ f_count[f] = 0 THEN NoSlot ELSE f_inode[f]
Nodes(n) == {f \in File : Node(f) = n}

LEMMA FilesConstants ==
    /\ File \subseteq Nat /\ NULL \notin File /\ IsFiniteSet(File)
    /\ Fd \subseteq Nat /\ IsFiniteSet(Fd)
    /\ IsFiniteSet(Proc) /\ IsFiniteSet(Proc \X Fd)
<1>1. IsFiniteSet(File) /\ IsFiniteSet(Fd)
  BY OpenFilesAssumption, FS_Interval DEF File, Fd
<1>2. IsFiniteSet(Proc \X Fd)
  BY <1>1, OpenFilesAssumption, FS_Product
<1>. QED BY <1>1, <1>2, OpenFilesAssumption DEF File, Fd, NULL

LEMMA LeastOf == ASSUME NEW S \in SUBSET Nat, S # {} PROVE \E n \in S : \A m \in S : n <= m
<1>1. \E n \in S : \A m \in S : ~(<<m, n>> \in OpToRel(<, Nat))
  BY NatLessThanWellFounded, WFMin
<1>2. \E n \in S : \A m \in S : ~(m < n)
  BY <1>1 DEF OpToRel
<1>. QED BY <1>2

(* One element of S has another value: how many have the value n.          *)
LEMMA OneChanged ==
    ASSUME NEW S, IsFiniteSet(S), NEW T, T \subseteq S, NEW U, U \subseteq S, NEW t \in S,
           \A u \in S \ {t} : u \in U <=> u \in T
    PROVE  /\ Cardinality(T) \in Nat /\ Cardinality(U) \in Nat
           /\ Cardinality(U) = Cardinality(T) + (IF t \in U THEN 1 ELSE 0)
                                              - (IF t \in T THEN 1 ELSE 0)
<1>1. IsFiniteSet(T) /\ IsFiniteSet(U)
  BY FS_Subset
<1>2. Cardinality(T) \in Nat /\ Cardinality(U) \in Nat
  BY <1>1, FS_CardinalityType
<1>3. CASE t \in T /\ t \notin U
  <2>1. U = T \ {t} BY <1>3
  <2>. QED BY <2>1, <1>1, <1>2, <1>3, FS_RemoveElement
<1>4. CASE t \in U /\ t \notin T
  <2>1. U = T \cup {t} BY <1>4
  <2>. QED BY <2>1, <1>1, <1>2, <1>4, FS_AddElement
<1>5. CASE t \in U <=> t \in T
  <2>1. U = T BY <1>5
  <2>. QED BY <2>1, <1>2
<1>. QED BY <1>3, <1>4, <1>5

LEMMA Few ==
    ASSUME NEW S, IsFiniteSet(S)
    PROVE  /\ Cardinality(S) \in Nat
           /\ Cardinality(S) >= 1 => S # {}
           /\ Cardinality(S) >= 2 => \E a, b \in S : a # b
<1>1. Cardinality(S) \in Nat BY FS_CardinalityType
<1>2. Cardinality(S) >= 1 => S # {} BY FS_EmptySet
<1>3. ASSUME Cardinality(S) >= 2, \A a, b \in S : a = b PROVE FALSE
  <2>1. PICK a : a \in S BY <1>2, <1>3, <1>1
  <2>2. S = {a} BY <2>1, <1>3
  <2>. QED BY <2>2, <1>3, FS_Singleton
<1>. QED BY <1>1, <1>2, <1>3

LEMMA PairIs == ASSUME NEW a, NEW b, a # b PROVE Cardinality({a, b}) = 2
<1>1. IsFiniteSet({a}) /\ Cardinality({a}) = 1 BY FS_Singleton
<1>2. Cardinality({a} \cup {b}) = 2 BY <1>1, FS_AddElement
<1>3. {a, b} = {a} \cup {b} OBVIOUS
<1>. QED BY <1>2, <1>3

LEMMA BelowIs ==
    ASSUME NEW S \in SUBSET Nat, NEW x \in S
    PROVE  /\ IsFiniteSet({y \in S : y < x})
           /\ Cardinality({y \in S : y < x}) \in Nat
<1>1. {y \in S : y < x} \subseteq 0..x
  <2> SUFFICES ASSUME NEW y \in S, y < x PROVE y \in 0..x OBVIOUS
  <2>1. y \in Nat /\ x \in Nat OBVIOUS
  <2>. QED BY <2>1
<1>2. IsFiniteSet(0..x) BY FS_Interval
<1>. QED BY <1>1, <1>2, FS_Subset, FS_CardinalityType

LEMMA FirstOne ==
    ASSUME NEW S \in SUBSET Nat, S # {}
    PROVE  \E n \in S : /\ Lowest(S, 1) = {n} /\ \A m \in S : n <= m
                        /\ Cardinality({y \in S : y < n}) = 0
<1>1. PICK n \in S : \A m \in S : n <= m BY LeastOf
<1>2. {y \in S : y < n} = {}
  <2> SUFFICES ASSUME NEW y \in S, y < n PROVE FALSE OBVIOUS
  <2>1. y \in Nat /\ n \in Nat /\ n <= y BY <1>1
  <2>. QED BY <2>1
<1>3. ASSUME NEW x \in S, Cardinality({y \in S : y < x}) < 1 PROVE x = n
  <2>1. Cardinality({y \in S : y < x}) = 0 BY <1>3, BelowIs
  <2>2. {y \in S : y < x} = {} BY <2>1, BelowIs, FS_EmptySet
  <2>. QED BY <1>1, <2>2
<1>4. Cardinality({y \in S : y < n}) = 0 BY <1>2, FS_EmptySet
<1>5. Lowest(S, 1) = {n}
  <2>1. n \in Lowest(S, 1) BY <1>4 DEF Lowest
  <2>2. ASSUME NEW x \in Lowest(S, 1) PROVE x = n BY <1>3 DEF Lowest
  <2>. QED BY <2>1, <2>2
<1>. QED BY <1>1, <1>4, <1>5

LEMMA FirstTwo ==
    ASSUME NEW S \in SUBSET Nat, \E a, b \in S : a # b
    PROVE  \E n, m \in S : /\ n # m /\ Lowest(S, 2) = {n, m}
                           /\ Cardinality({y \in S : y < n}) = 0
                           /\ Cardinality({y \in S : y < m}) = 1
<1>1. PICK n \in S : \A m \in S : n <= m BY LeastOf
<1>2. PICK m \in S \ {n} : \A x \in S \ {n} : m <= x
  <2>1. S \ {n} # {} OBVIOUS
  <2>. QED BY <2>1, LeastOf
<1>3. {y \in S : y < n} = {} /\ {y \in S : y < m} = {n}
  <2>1. S \subseteq Nat OBVIOUS
  <2>2. n \in Nat /\ m \in Nat /\ n < m BY <1>1, <1>2, <2>1
  <2>3. ASSUME NEW y \in S PROVE y \in Nat /\ ~(y < n) /\ (y < m <=> y = n)
    <3>1. y \in Nat /\ n <= y BY <1>1, <2>1
    <3>2. y # n => m <= y BY <1>2
    <3>. QED BY <2>2, <3>1, <3>2
  <2>. QED BY <2>3
<1>4. Cardinality({y \in S : y < n}) = 0 /\ Cardinality({y \in S : y < m}) = 1
  BY <1>3, FS_EmptySet, FS_Singleton
<1>5. ASSUME NEW x \in S \ {n, m} PROVE ~(Cardinality({y \in S : y < x}) < 2)
  <2>1. {n, m} \subseteq {y \in S : y < x} BY <1>1, <1>2
  <2>2. Cardinality({n, m}) = 2
    BY PairIs
  <2>3. Cardinality({n, m}) <= Cardinality({y \in S : y < x})
    BY <2>1, BelowIs, FS_Subset
  <2>. QED BY <2>2, <2>3, BelowIs
<1>6. Lowest(S, 2) = {n, m}
  <2>1. n \in Lowest(S, 2) /\ m \in Lowest(S, 2) BY <1>4 DEF Lowest
  <2>2. ASSUME NEW x \in Lowest(S, 2) PROVE x \in {n, m} BY <1>5 DEF Lowest
  <2>. QED BY <2>1, <2>2
<1>. QED BY <1>2, <1>4, <1>6

LEMMA FirstPair ==
    ASSUME NEW S \in SUBSET Nat, NEW n \in S, NEW m \in S, n # m,
           Cardinality({y \in S : y < n}) = 0, Cardinality({y \in S : y < m}) = 1
    PROVE  /\ Cardinality({y \in {n, m} : y < n}) = 0
           /\ Cardinality({y \in {n, m} : y < m}) = 1
<1>1. {y \in S : y < n} = {} BY BelowIs, FS_EmptySet
<1>2. n \in Nat /\ m \in Nat /\ ~(m < n) BY <1>1
<1>3. \A y \in {n, m} : ~(y < n) /\ (y < m <=> y = n) BY <1>2
<1>4. {y \in {n, m} : y < n} = {} /\ {y \in {n, m} : y < m} = {n} BY <1>3
<1>. QED BY <1>4, FS_EmptySet, FS_Singleton

LEMMA HalfOpenIs ==
    ASSUME FilesTypeOK
    PROVE  /\ \A f : f \in HalfOpen <=> \E t \in Proc : pc[t] \in Opening /\ f \in Mine(t)
           /\ \A t \in Proc : Mine(t) \subseteq File \cup {NULL}
BY DEF HalfOpen, Mine, Opening, FilesTypeOK

LEMMA NodesIs ==
    ASSUME FilesTypeOK, NEW n \in InodeSlot
    PROVE  /\ Nodes(n) = {f \in File \ HalfOpen : f_count[f] > 0 /\ f_inode[f] = n}
           /\ IsFiniteSet(Nodes(n)) /\ IsFiniteSet(Busy(n)) /\ IsFiniteSet(Cwd(n))
           /\ Cardinality(Nodes(n)) \in Nat /\ Cardinality(Busy(n)) \in Nat
           /\ Cardinality(Cwd(n)) \in Nat
<1>1. Nodes(n) = {f \in File \ HalfOpen : f_count[f] > 0 /\ f_inode[f] = n}
  BY OpenFilesAssumption DEF Nodes, Node, FilesTypeOK
<1>2. IsFiniteSet(Nodes(n)) /\ IsFiniteSet(Busy(n)) /\ IsFiniteSet(Cwd(n))
  BY FilesConstants, FS_Subset DEF Nodes, Busy, Cwd
<1>. QED BY <1>1, <1>2, FS_CardinalityType

LEMMA Counts ==
    ASSUME FilesTypeOK
    PROVE  InodesCounted <=>
             \A n \in InodeSlot : i_count[n] = Cardinality(Nodes(n)) + Cardinality(Busy(n))
                                               + Cardinality(Cwd(n))
BY NodesIs DEF InodesCounted, Busy, Cwd

LEMMA RefsIs ==
    ASSUME NEW f
    PROVE  IsFiniteSet(Refs(f)) /\ Cardinality(Refs(f)) \in Nat
           /\ (Cardinality(Refs(f)) = 0 <=> Refs(f) = {})
<1>1. IsFiniteSet(Refs(f)) BY FilesConstants, FS_Subset DEF Refs
<1>. QED BY <1>1, FS_CardinalityType, FS_EmptySet

(* A file that a descriptor stands for is counted. *)
LEMMA Counted ==
    ASSUME FilesInv
    PROVE  /\ \A f \in File : f_count[f] = Cardinality(Refs(f))
           /\ \A t \in Proc, fd \in Fd : filp[t][fd] # NULL => f_count[filp[t][fd]] > 0
<1>1. \A f \in File : f_count[f] = Cardinality(Refs(f))
  BY DEF FilesInv, DescriptorsSound, DescriptorsExact, Refs
<1>2. ASSUME NEW t \in Proc, NEW fd \in Fd, filp[t][fd] # NULL
      PROVE  f_count[filp[t][fd]] > 0
  <2>1. filp[t][fd] \in File BY <1>2 DEF FilesInv, FilesTypeOK
  <2>2. <<t, fd>> \in Refs(filp[t][fd]) BY DEF Refs
  <2>. QED BY <1>1, <2>1, <2>2, RefsIs
<1>. QED BY <1>1, <1>2

-----------------------------------------------------------------------------
LEMMA OthersKept ==
    ASSUME FilesInv, FilesTypeOK', NEW t \in Proc,
           \A u \in Proc \ {t} : /\ filp'[u] = filp[u] /\ pwd'[u] = pwd[u] /\ pc'[u] = pc[u]
                                 /\ fds'[u] = fds[u] /\ inode'[u] = inode[u]
                                 /\ after'[u] = after[u]
                                 /\ close_on_exec'[u] \subseteq close_on_exec[u],
           \A fd \in Fd : \/ filp'[t][fd] \in {filp[t][fd], NULL}
                          \/ \A u \in Proc \ {t} : pc[u] \in Opening => filp'[t][fd] \notin Mine(u)
    PROVE  \A u \in Proc \ {t} : TaskOK(u)'
<1> SUFFICES ASSUME NEW u \in Proc \ {t} PROVE TaskOK(u)'
  OBVIOUS
<1>1. TaskOK(u) /\ FilesTypeOK
  BY DEF FilesInv
<1>2. pc[u] \in Opening => Reserved(u)'
  <2> SUFFICES ASSUME pc[u] \in Opening, NEW fd \in fds[u]
               PROVE  /\ filp[u][fd] # NULL /\ fd \notin close_on_exec'[u]
                      /\ \A w \in Proc, d \in Fd : filp'[w][d] = filp[u][fd] => w = u /\ d = fd
    BY DEF Reserved
  <2>1. Reserved(u) BY <1>1 DEF TaskOK
  <2>2. filp[u][fd] \in Mine(u) /\ filp[u][fd] # NULL BY <2>1 DEF Mine, Reserved
  <2>3. ASSUME NEW w \in Proc, NEW d \in Fd, filp'[w][d] = filp[u][fd]
        PROVE  w = u /\ d = fd
    <3>1. filp[w][d] = filp[u][fd] BY <2>2, <2>3
    <3>. QED BY <2>1, <3>1 DEF Reserved
  <2>4. fd \notin close_on_exec'[u] BY <2>1 DEF Reserved
  <2>. QED BY <2>2, <2>3, <2>4
<1>. QED BY <1>1, <1>2 DEF TaskOK, Gone, OpenFds

(* What nobody opens stays away from the files that are being opened. *)
LEMMA NotHalfOpen ==
    ASSUME FilesInv, NEW t \in Proc, pc[t] \notin Opening, NEW fd \in Fd, filp[t][fd] # NULL
    PROVE  /\ \A u \in Proc : pc[u] \in Opening => filp[t][fd] \notin Mine(u)
           /\ filp[t][fd] \notin HalfOpen
<1>1. ASSUME NEW u \in Proc, pc[u] \in Opening, NEW d \in fds[u], filp[u][d] = filp[t][fd]
      PROVE  FALSE
  <2>1. Reserved(u) BY <1>1 DEF FilesInv, TaskOK
  <2>. QED BY <2>1, <1>1 DEF Reserved
<1>2. \A u \in Proc : pc[u] \in Opening => filp[t][fd] \notin Mine(u)
  BY <1>1 DEF Mine
<1>. QED BY <1>2, HalfOpenIs DEF FilesInv

LEMMA HalfOpenSame ==
    ASSUME FilesTypeOK, FilesTypeOK',
           \A u \in Proc : pc'[u] \in Opening <=> pc[u] \in Opening,
           \A u \in Proc : pc[u] \in Opening => fds'[u] = fds[u] /\ filp'[u] = filp[u]
    PROVE  HalfOpen' = HalfOpen
<1>1. \A u \in Proc : pc[u] \in Opening => Mine(u)' = Mine(u)
  BY DEF Mine
<1>2. \A f : f \in HalfOpen' <=> \E t \in Proc : pc'[t] \in Opening /\ f \in Mine(t)'
  BY DEF HalfOpen, Mine, Opening, FilesTypeOK
<1>. QED BY <1>1, <1>2, HalfOpenIs

LEMMA OneFd ==
    ASSUME NEW t \in Proc, NEW fd \in Fd, NEW f,
           \A u \in Proc, d \in Fd : u # t \/ d # fd => filp'[u][d] = filp[u][d]
    PROVE  Cardinality(Refs(f)') = Cardinality(Refs(f)) + (IF filp'[t][fd] = f THEN 1 ELSE 0)
                                                        - (IF filp[t][fd] = f THEN 1 ELSE 0)
<1>1. <<t, fd>> \in Proc \X Fd
  OBVIOUS
<1>2. <<t, fd>> \in Refs(f)' <=> filp'[t][fd] = f
  BY DEF Refs
<1>3. <<t, fd>> \in Refs(f) <=> filp[t][fd] = f
  BY DEF Refs
<1>4. ASSUME NEW r \in (Proc \X Fd) \ {<<t, fd>>} PROVE r \in Refs(f)' <=> r \in Refs(f)
  <2>1. r[1] \in Proc /\ r[2] \in Fd /\ (r[1] # t \/ r[2] # fd)
    BY <1>4
  <2>2. filp'[r[1]][r[2]] = filp[r[1]][r[2]]
    BY <2>1
  <2>. QED BY <2>2 DEF Refs
<1>5. Refs(f) \subseteq Proc \X Fd /\ Refs(f)' \subseteq Proc \X Fd
  BY DEF Refs
<1>. QED BY <1>1, <1>2, <1>3, <1>4, <1>5, FilesConstants, OneChanged

(* The counts of one task's working directory and inode change. *)
LEMMA OneTask ==
    ASSUME NEW t \in Proc, NEW n,
           \A u \in Proc \ {t} : pwd'[u] = pwd[u] /\ inode'[u] = inode[u]
    PROVE  /\ Cardinality(Busy(n)') = Cardinality(Busy(n)) + (IF inode'[t] = n THEN 1 ELSE 0)
                                                           - (IF inode[t] = n THEN 1 ELSE 0)
           /\ Cardinality(Cwd(n)') = Cardinality(Cwd(n)) + (IF pwd'[t] = n THEN 1 ELSE 0)
                                                         - (IF pwd[t] = n THEN 1 ELSE 0)
<1>1. /\ Busy(n) \subseteq Proc /\ Busy(n)' \subseteq Proc
      /\ Cwd(n) \subseteq Proc /\ Cwd(n)' \subseteq Proc
      /\ \A u \in Proc \ {t} : (u \in Busy(n)' <=> u \in Busy(n)) /\ (u \in Cwd(n)' <=> u \in Cwd(n))
      /\ t \in Busy(n) <=> inode[t] = n
      /\ t \in Busy(n)' <=> inode'[t] = n
      /\ t \in Cwd(n) <=> pwd[t] = n
      /\ t \in Cwd(n)' <=> pwd'[t] = n
  BY DEF Busy, Cwd
<1>2. Cardinality(Busy(n)') = Cardinality(Busy(n)) + (IF inode'[t] = n THEN 1 ELSE 0)
                                                   - (IF inode[t] = n THEN 1 ELSE 0)
  BY <1>1, FilesConstants, OneChanged
<1>3. Cardinality(Cwd(n)') = Cardinality(Cwd(n)) + (IF pwd'[t] = n THEN 1 ELSE 0)
                                                 - (IF pwd[t] = n THEN 1 ELSE 0)
  BY <1>1, FilesConstants, OneChanged
<1>. QED BY <1>2, <1>3

(* One file changes. *)
LEMMA OneFile ==
    ASSUME NEW f \in File, NEW n, \A g \in File \ {f} : Node(g)' = Node(g)
    PROVE  Cardinality(Nodes(n)') = Cardinality(Nodes(n)) + (IF Node(f)' = n THEN 1 ELSE 0)
                                                          - (IF Node(f) = n THEN 1 ELSE 0)
<1>1. /\ Nodes(n) \subseteq File /\ Nodes(n)' \subseteq File
      /\ \A g \in File \ {f} : g \in Nodes(n)' <=> g \in Nodes(n)
      /\ f \in Nodes(n) <=> Node(f) = n
      /\ f \in Nodes(n)' <=> Node(f)' = n
  BY DEF Nodes
<1>2. IsFiniteSet(File)
  BY FilesConstants
<1>3. Cardinality(Nodes(n)') = Cardinality(Nodes(n)) + (IF f \in Nodes(n)' THEN 1 ELSE 0)
                                                     - (IF f \in Nodes(n) THEN 1 ELSE 0)
  BY <1>1, <1>2, OneChanged
<1>. QED BY <1>1, <1>3

(* What a step has to show. *)
LEMMA FilesSound ==
    ASSUME FilesInv, FilesTypeOK',
           \A t \in Proc : TaskOK(t)' /\ close_on_exec'[t] \subseteq OpenFds(t)',
           \A f \in File : f_count'[f] = Cardinality(Refs(f)'),
           ~of_setup'.faults => 
               \A n \in InodeSlot : i_count'[n] = Cardinality(Nodes(n)') + Cardinality(Busy(n)')
                                                   + Cardinality(Cwd(n)')
    PROVE  FilesInv'
<1>1. \A n \in InodeSlot : Nodes(n)' = {f \in File \ HalfOpen' : f_count'[f] > 0 /\ f_inode'[f] = n}
  BY OpenFilesAssumption DEF Nodes, Node, FilesTypeOK
<1>2. ~of_setup'.faults => InodesCounted'
  BY <1>1 DEF InodesCounted, Busy, Cwd
<1>3. DescriptorsExact'
  BY DEF DescriptorsExact, Refs
<1>. QED BY <1>2, <1>3 DEF FilesInv, DescriptorsSound

LEMMA FilesCounted ==
    ASSUME FilesInv
    PROVE  /\ FilesTypeOK /\ \A t \in Proc : TaskOK(t) /\ close_on_exec[t] \subseteq OpenFds(t)
           /\ ~of_setup.faults =>
                \A n \in InodeSlot : i_count[n] = Cardinality(Nodes(n)) + Cardinality(Busy(n))
                                                  + Cardinality(Cwd(n))
BY Counts DEF FilesInv, DescriptorsSound, DescriptorsExact

-----------------------------------------------------------------------------
(* The descriptors ds of task t are taken, each with a file of its own.     *)
Takes(t, c, l, ds, h) ==
    /\ ds = Lowest(FreeFds(t), c)
    /\ \A d \in ds : filp[t][d] = NULL /\ f_count[h[d]] = 0
    /\ \A d, e \in ds : h[d] = h[e] => d = e
    /\ c = 1 => \E d \in Fd : ds = {d}
    /\ c = 2 => \E d, e \in Fd : d # e /\ ds = {d, e}
    /\ filp' = [filp EXCEPT ![t] = [fd \in Fd |->
                      IF fd \in ds THEN h[fd] ELSE filp[t][fd]]]
    /\ f_count' = [f \in File |-> IF \E d \in ds : h[d] = f THEN 1 ELSE f_count[f]]
    /\ fds' = [fds EXCEPT ![t] = ds]
    /\ pc' = [pc EXCEPT ![t] = l]

(* sys_open and sys_pipe reserve one descriptor, or two, and as many files. *)
LEMMA ReserveIs ==
    ASSUME FilesInv, NEW t \in Proc, NEW c \in {1, 2}, NEW l, Reserve(t, c, l)
    PROVE  \E ds \in SUBSET Fd : \E h \in [ds -> File] :
              Takes(t, c, l, ds, h)
<1> DEFINE ds == Lowest(FreeFds(t), c)
           fs == Lowest(FreeFiles, c)
           h == [fd \in ds |-> CHOOSE f \in fs : Cardinality({y \in fs : y < f})
                                                = Cardinality({y \in ds : y < fd})]
<1>1. /\ Cardinality(FreeFds(t)) >= c /\ Cardinality(FreeFiles) >= c
      /\ filp' = [filp EXCEPT ![t] = [fd \in Fd |->
                      IF fd \in ds THEN CHOOSE f \in fs : Cardinality({y \in fs : y < f})
                                                          = Cardinality({y \in ds : y < fd})
                                   ELSE filp[t][fd]]]
      /\ f_count' = [f \in File |-> IF f \in fs THEN 1 ELSE f_count[f]]
      /\ fds' = [fds EXCEPT ![t] = ds] /\ pc' = [pc EXCEPT ![t] = l]
  BY DEF Reserve, Goto
<1>2. /\ FreeFds(t) \subseteq Fd /\ FreeFiles \subseteq File
      /\ FreeFds(t) \in SUBSET Nat /\ FreeFiles \in SUBSET Nat
      /\ IsFiniteSet(FreeFds(t)) /\ IsFiniteSet(FreeFiles)
  BY FilesConstants, FS_Subset DEF FreeFds, FreeFiles
<1>3. /\ ds \subseteq FreeFds(t) /\ fs \subseteq FreeFiles
      /\ \A d \in ds : d \in Fd /\ filp[t][d] = NULL
      /\ \A f \in fs : f \in File /\ f_count[f] = 0
  BY <1>2 DEF Lowest, FreeFds, OpenFds, FreeFiles
<1>4. /\ \A d \in ds : h[d] \in fs
      /\ \A f \in fs : \E d \in ds : h[d] = f
      /\ \A d, e \in ds : h[d] = h[e] => d = e
      /\ c = 1 => \E d \in Fd : ds = {d}
      /\ c = 2 => \E d, e \in Fd : d # e /\ ds = {d, e}
  <2>1. CASE c = 1
    <3>1. FreeFds(t) # {} /\ FreeFiles # {} BY <2>1, <1>1, <1>2, Few
    <3>2. PICK d \in FreeFds(t) : ds = {d} BY <2>1, <3>1, <1>2, FirstOne
    <3>3. PICK f \in FreeFiles : fs = {f} BY <2>1, <3>1, <1>2, FirstOne
    <3>4. {y \in fs : y < f} = {} /\ {y \in ds : y < d} = {}
      <4>1. d \in Nat /\ f \in Nat BY <1>2
      <4>2. ~(d < d) /\ ~(f < f) BY <4>1
      <4>. QED BY <3>2, <3>3, <4>2
    <3>5. h[d] = f BY <3>2, <3>3, <3>4
    <3>. HIDE DEF ds, fs, h
    <3>. QED BY <3>2, <3>3, <3>5, <2>1, <1>2
  <2>2. CASE c = 2
    <3>1. (\E a, b \in FreeFds(t) : a # b) /\ (\E a, b \in FreeFiles : a # b)
      <4>1. Cardinality(FreeFds(t)) >= 2 /\ Cardinality(FreeFiles) >= 2 BY <2>2, <1>1
      <4>2. \E a, b \in FreeFds(t) : a # b BY <4>1, <1>2, Few
      <4>3. IsFiniteSet(FreeFiles) BY <1>2
      <4>4. \E a, b \in FreeFiles : a # b BY <4>1, <4>3, Few
      <4>. QED BY <4>2, <4>4
    <3>2. PICK d, e \in FreeFds(t) : /\ d # e /\ ds = {d, e}
                                     /\ Cardinality({y \in FreeFds(t) : y < d}) = 0
                                     /\ Cardinality({y \in FreeFds(t) : y < e}) = 1
      BY <2>2, <3>1, <1>2, FirstTwo
    <3>3. PICK f, g \in FreeFiles : /\ f # g /\ fs = {f, g}
                                    /\ Cardinality({y \in FreeFiles : y < f}) = 0
                                    /\ Cardinality({y \in FreeFiles : y < g}) = 1
      BY <2>2, <3>1, <1>2, FirstTwo
    <3>. HIDE DEF ds, fs
    <3>4. Cardinality({y \in ds : y < d}) = 0 /\ Cardinality({y \in ds : y < e}) = 1
      BY <3>2, <1>2, FirstPair
    <3>5. Cardinality({y \in fs : y < f}) = 0 /\ Cardinality({y \in fs : y < g}) = 1
      BY <3>3, <1>2, FirstPair
    <3>6. h[d] = f /\ h[e] = g BY <3>2, <3>3, <3>4, <3>5
    <3>. HIDE DEF h
    <3>. QED BY <3>2, <3>3, <3>6, <2>2, <1>2
  <2>. QED BY <2>1, <2>2
<1>5. h \in [ds -> File]
  <2>. HIDE DEF ds, fs
  <2>1. \A d \in ds : h[d] \in File BY <1>3, <1>4
  <2>. DEFINE w(d) == CHOOSE f \in fs : Cardinality({y \in fs : y < f})
                                       = Cardinality({y \in ds : y < d})
  <2>2. h = [d \in ds |-> w(d)] OBVIOUS
  <2>. HIDE DEF h, w
  <2>. QED BY <2>1, <2>2
<1>6. /\ filp' = [filp EXCEPT ![t] = [fd \in Fd |-> IF fd \in ds THEN h[fd] ELSE filp[t][fd]]]
      /\ f_count' = [f \in File |-> IF \E d \in ds : h[d] = f THEN 1 ELSE f_count[f]]
  <2>1. [fd \in Fd |-> IF fd \in ds THEN CHOOSE f \in fs : Cardinality({y \in fs : y < f})
                                                          = Cardinality({y \in ds : y < fd})
                                   ELSE filp[t][fd]]
        = [fd \in Fd |-> IF fd \in ds THEN h[fd] ELSE filp[t][fd]]
    OBVIOUS
  <2>2. \A f : f \in fs <=> \E d \in ds : h[d] = f
    BY <1>4
  <2>. HIDE DEF ds, fs, h
  <2>3. f_count' = [f \in File |-> IF \E d \in ds : h[d] = f THEN 1 ELSE f_count[f]]
    BY <1>1, <2>2
  <2>. QED BY <1>1, <2>1, <2>3
<1>7. ds \in SUBSET Fd BY <1>3
<1>8. ds = Lowest(FreeFds(t), c) OBVIOUS
<1>. HIDE DEF ds, fs, h
<1>9. \A d \in ds : filp[t][d] = NULL /\ f_count[h[d]] = 0
  BY <1>3, <1>4
<1>. WITNESS ds \in SUBSET Fd
<1>. WITNESS h \in [ds -> File]
<1>. QED BY <1>1, <1>4, <1>6, <1>8, <1>9 DEF Takes

LEMMA ReserveKeeps ==
    ASSUME FilesInv, NEW t \in Proc, NEW c \in {1, 2}, NEW l, pc[t] = "user", Reserve(t, c, l),
           (c = 1 /\ l = "open_namei") \/ (c = 2 /\ l = "pipe"),
           close_on_exec' \in [Proc -> SUBSET Fd],
           \A u \in Proc : close_on_exec'[u] \subseteq close_on_exec[u],
           UNCHANGED <<of_setup, pwd, f_inode, i_count, inode, after>>
    PROVE  FilesInv'
<1>b. PICK ds \in SUBSET Fd : \E h \in [ds -> File] :
              Takes(t, c, l, ds, h)
  BY ReserveIs
<1>a. PICK h \in [ds -> File] : Takes(t, c, l, ds, h)
  BY <1>b
<1>1.         /\ \A d \in ds : filp[t][d] = NULL /\ f_count[h[d]] = 0
              /\ \A d, e \in ds : h[d] = h[e] => d = e
              /\ c = 1 => \E d \in Fd : ds = {d}
              /\ c = 2 => \E d, e \in Fd : d # e /\ ds = {d, e}
              /\ filp' = [filp EXCEPT ![t] = [fd \in Fd |-> IF fd \in ds THEN h[fd] ELSE filp[t][fd]]]
              /\ f_count' = [f \in File |-> IF \E d \in ds : h[d] = f THEN 1 ELSE f_count[f]]
              /\ fds' = [fds EXCEPT ![t] = ds]
              /\ pc' = [pc EXCEPT ![t] = l]
  BY <1>a DEF Takes
<1>2. /\ FilesTypeOK /\ TaskOK(t)
      /\ \A u \in Proc : close_on_exec[u] \subseteq OpenFds(u)
  BY FilesCounted
<1>3. FilesTypeOK'
  BY <1>1, <1>2 DEF FilesTypeOK, Pcs
<1>4. \A d \in ds : \A u \in Proc, e \in Fd : filp[u][e] # h[d]
  <2> SUFFICES ASSUME NEW d \in ds, NEW u \in Proc, NEW e \in Fd, filp[u][e] = h[d] PROVE FALSE
    OBVIOUS
  <2>1. h[d] \in File /\ f_count[h[d]] = 0
    BY <1>1
  <2>2. filp[u][e] # NULL
    BY <2>1, FilesConstants
  <2>. QED BY <2>1, <2>2, Counted
<1>5. /\ \A u \in Proc \ {t} : filp'[u] = filp[u] /\ fds'[u] = fds[u] /\ pc'[u] = pc[u]
      /\ \A d \in Fd : filp'[t][d] = IF d \in ds THEN h[d] ELSE filp[t][d]
      /\ fds'[t] = ds /\ pc'[t] = l
  BY <1>1, <1>2 DEF FilesTypeOK
<1>6. \A u \in Proc \ {t} : TaskOK(u)'
  <2>1. ASSUME NEW d \in Fd, NEW u \in Proc \ {t}, pc[u] \in Opening, d \in ds
        PROVE  filp'[t][d] \notin Mine(u)
    BY <2>1, <1>2, <1>4, <1>5 DEF Mine, FilesTypeOK
  <2>2. \A d \in Fd : \/ filp'[t][d] \in {filp[t][d], NULL}
                       \/ \A u \in Proc \ {t} : pc[u] \in Opening => filp'[t][d] \notin Mine(u)
    BY <2>1, <1>5
  <2>. QED BY <2>2, <1>3, <1>5, OthersKept
<1>7. TaskOK(t)'
  <2>1. Reserved(t)'
    <3> SUFFICES ASSUME NEW d \in ds
                 PROVE  /\ filp'[t][d] # NULL /\ d \notin close_on_exec'[t]
                        /\ \A u \in Proc, e \in Fd : filp'[u][e] = filp'[t][d] => u = t /\ e = d
      BY <1>5 DEF Reserved
    <3>1. filp'[t][d] = h[d] /\ h[d] \in File /\ h[d] # NULL
      BY <1>5, FilesConstants
    <3>2. ASSUME NEW u \in Proc, NEW e \in Fd, filp'[u][e] = h[d] PROVE u = t /\ e = d
      <4>1. u = t BY <3>2, <1>4, <1>5
      <4>2. e \in ds BY <4>1, <3>2, <1>4, <1>5
      <4>3. h[e] = h[d] BY <4>1, <4>2, <3>2, <1>5
      <4>. QED BY <1>1, <4>1, <4>2, <4>3
    <3>3. d \notin close_on_exec[t]
      BY <1>1, <1>2 DEF OpenFds
    <3>. QED BY <3>1, <3>2, <3>3
  <2>2. l = "open_namei" => \E d \in Fd : fds'[t] = {d}
    BY <1>1, <1>5
  <2>3. l = "pipe" => \E d, e \in Fd : d # e /\ fds'[t] = {d, e}
    BY <1>1, <1>5
  <2>4. pwd[t] \in InodeSlot /\ inode[t] = NoSlot
    BY <1>2 DEF TaskOK, Gone
  <2>. QED BY <2>1, <2>2, <2>3, <2>4, <1>5 DEF TaskOK, Gone
<1>8. \A u \in Proc : close_on_exec'[u] \subseteq OpenFds(u)'
  <2> SUFFICES ASSUME NEW u \in Proc, NEW d \in close_on_exec'[u] PROVE d \in OpenFds(u)'
    OBVIOUS
  <2>1. d \in Fd /\ filp[u][d] # NULL
    BY <1>2 DEF OpenFds
  <2>2. filp'[u][d] = filp[u][d]
    BY <2>1, <1>1, <1>5
  <2>. QED BY <2>1, <2>2 DEF OpenFds
<1>9. \A f \in File : f_count'[f] = Cardinality(Refs(f)')
  <2> SUFFICES ASSUME NEW f \in File PROVE f_count'[f] = Cardinality(Refs(f)')
    OBVIOUS
  <2>1. CASE \E d \in ds : h[d] = f
    <3>1. PICK d \in ds : h[d] = f BY <2>1
    <3>2. Refs(f)' = {<<t, d>>}
      <4>1. <<t, d>> \in Refs(f)' BY <3>1, <1>5 DEF Refs
      <4>2. ASSUME NEW r \in Refs(f)' PROVE r = <<t, d>>
        <5>1. r \in Proc \X Fd /\ filp'[r[1]][r[2]] = h[d] BY <3>1 DEF Refs
        <5>2. r[1] = t BY <5>1, <1>4, <1>5
        <5>3. r[2] \in ds BY <5>1, <5>2, <1>4, <1>5
        <5>4. h[r[2]] = h[d] BY <5>1, <5>2, <5>3, <1>5
        <5>. QED BY <5>1, <5>2, <5>3, <5>4, <1>1
      <4>. QED BY <4>1, <4>2
    <3>3. f_count'[f] = 1 BY <2>1, <1>1
    <3>. QED BY <3>2, <3>3, FS_Singleton
  <2>2. CASE ~ \E d \in ds : h[d] = f
    <3>1. ASSUME NEW r \in Proc \X Fd PROVE r \in Refs(f)' <=> r \in Refs(f)
      <4>1. r[1] \in Proc /\ r[2] \in Fd OBVIOUS
      <4>2. CASE r[1] = t /\ r[2] \in ds
        <5>1. filp'[r[1]][r[2]] # f BY <4>1, <4>2, <2>2, <1>5
        <5>2. filp[r[1]][r[2]] = NULL BY <4>2, <1>1
        <5>. QED BY <5>1, <5>2, FilesConstants DEF Refs
      <4>3. CASE ~(r[1] = t /\ r[2] \in ds)
        <5>1. filp'[r[1]][r[2]] = filp[r[1]][r[2]] BY <4>1, <4>3, <1>5
        <5>. QED BY <5>1 DEF Refs
      <4>. QED BY <4>2, <4>3
    <3>2. Refs(f)' = Refs(f) BY <3>1 DEF Refs
    <3>3. f_count'[f] = f_count[f] BY <2>2, <1>1
    <3>. QED BY <3>2, <3>3, Counted
  <2>. QED BY <2>1, <2>2
<1>10. \A n \in InodeSlot : Nodes(n)' = Nodes(n) /\ Busy(n)' = Busy(n) /\ Cwd(n)' = Cwd(n)
  <2>1. ASSUME NEW f \in File PROVE Node(f)' = Node(f)
    <3>1. CASE \E d \in ds : h[d] = f
      <4>1. f_count[f] = 0 BY <3>1, <1>1
      <4>2. f \in Mine(t)' BY <3>1, <1>5 DEF Mine
      <4>3. f \in HalfOpen' BY <4>2, <1>5 DEF HalfOpen
      <4>. QED BY <4>1, <4>3 DEF Node
    <3>2. CASE ~ \E d \in ds : h[d] = f
      <4>1. f \in HalfOpen' <=> f \in HalfOpen
        <5>1. f \notin Mine(t)' BY <3>2, <1>5 DEF Mine
        <5>2. \A u \in Proc \ {t} : Mine(u)' = Mine(u) BY <1>5 DEF Mine
        <5>. QED BY <5>1, <5>2, <1>5 DEF HalfOpen
      <4>2. f_count'[f] = f_count[f] BY <3>2, <1>1
      <4>. QED BY <4>1, <4>2 DEF Node
    <3>. QED BY <3>1, <3>2
  <2>. QED BY <2>1 DEF Nodes, Busy, Cwd
<1>. QED BY <1>3, <1>6, <1>7, <1>8, <1>9, <1>10, FilesSound, FilesCounted

(* The call gives back what it reserved, and the inode if it holds one. *)
LEMMA UnreserveKeeps ==
    ASSUME FilesInv, NEW t \in Proc, pc[t] \in Opening, Unreserve(t), Goto(t, "user"),
           inode' = [inode EXCEPT ![t] = NoSlot],
           i_count' \in [InodeSlot -> Int],
           \A n \in InodeSlot : i_count'[n] = i_count[n] - (IF inode[t] = n THEN 1 ELSE 0),
           UNCHANGED <<of_setup, close_on_exec, pwd, f_inode, after>>
    PROVE  FilesInv'
<1>1. /\ FilesTypeOK /\ TaskOK(t) /\ Reserved(t)
      /\ \A u \in Proc : TaskOK(u) /\ close_on_exec[u] \subseteq OpenFds(u)
  BY FilesCounted DEF TaskOK
<1>2. FilesTypeOK'
  BY <1>1 DEF FilesTypeOK, Pcs, Unreserve, Goto
<1>3. /\ \A u \in Proc \ {t} : /\ filp'[u] = filp[u] /\ fds'[u] = fds[u] /\ pc'[u] = pc[u]
                               /\ inode'[u] = inode[u]
      /\ \A d \in Fd : filp'[t][d] = IF d \in fds[t] THEN NULL ELSE filp[t][d]
      /\ fds'[t] = {} /\ pc'[t] = "user" /\ inode'[t] = NoSlot
      /\ \A f \in File : f_count'[f] = IF f \in Mine(t) THEN 0 ELSE f_count[f]
  BY <1>1 DEF FilesTypeOK, Unreserve, Goto
<1>4. \A u \in Proc \ {t} : TaskOK(u)'
  BY <1>2, <1>3, OthersKept
<1>5. TaskOK(t)'
  BY <1>1, <1>3 DEF TaskOK, Gone, Opening
<1>6. \A u \in Proc : close_on_exec'[u] \subseteq OpenFds(u)'
  <2> SUFFICES ASSUME NEW u \in Proc, NEW d \in close_on_exec[u] PROVE d \in OpenFds(u)'
    OBVIOUS
  <2>1. d \in Fd /\ filp[u][d] # NULL
    BY <1>1 DEF OpenFds
  <2>2. u = t => d \notin fds[t]
    BY <1>1 DEF Reserved
  <2>3. filp'[u][d] = filp[u][d]
    BY <2>1, <2>2, <1>3
  <2>. QED BY <2>1, <2>3 DEF OpenFds
<1>7. \A f \in File : f_count'[f] = Cardinality(Refs(f)')
  <2> SUFFICES ASSUME NEW f \in File PROVE f_count'[f] = Cardinality(Refs(f)')
    OBVIOUS
  <2>1. CASE f \in Mine(t)
    <3>1. PICK d \in fds[t] : filp[t][d] = f BY <2>1 DEF Mine
    <3>2. ASSUME NEW r \in Proc \X Fd, filp'[r[1]][r[2]] = f PROVE FALSE
      <4>1. r[1] \in Proc /\ r[2] \in Fd OBVIOUS
      <4>0. f # NULL BY FilesConstants
      <4>2. filp[r[1]][r[2]] = f BY <3>2, <4>0, <4>1, <1>3
      <4>3. r[1] = t /\ r[2] = d BY <3>1, <4>1, <4>2, <1>1 DEF Reserved
      <4>. QED BY <3>2, <4>1, <4>3, <1>3, FilesConstants
    <3>3. Refs(f)' = {} BY <3>2 DEF Refs
    <3>. QED BY <3>3, <2>1, <1>3, FS_EmptySet
  <2>2. CASE f \notin Mine(t)
    <3>1. ASSUME NEW r \in Proc \X Fd PROVE r \in Refs(f)' <=> r \in Refs(f)
      <4>1. r[1] \in Proc /\ r[2] \in Fd OBVIOUS
      <4>2. CASE r[1] = t /\ r[2] \in fds[t]
        <5>1. filp'[r[1]][r[2]] = NULL BY <4>1, <4>2, <1>3
        <5>2. filp[r[1]][r[2]] # f BY <4>2, <2>2 DEF Mine
        <5>. QED BY <5>1, <5>2, FilesConstants DEF Refs
      <4>3. CASE ~(r[1] = t /\ r[2] \in fds[t])
        <5>1. filp'[r[1]][r[2]] = filp[r[1]][r[2]] BY <4>1, <4>3, <1>3
        <5>. QED BY <5>1 DEF Refs
      <4>. QED BY <4>2, <4>3
    <3>2. Refs(f)' = Refs(f) BY <3>1 DEF Refs
    <3>. QED BY <3>2, <2>2, <1>3, Counted
  <2>. QED BY <2>1, <2>2
<1>8. \A n \in InodeSlot : Nodes(n)' = Nodes(n)
  <2>1. ASSUME NEW f \in File PROVE Node(f)' = Node(f)
    <3>1. CASE f \in Mine(t)
      <4>1. f \in HalfOpen BY <3>1, <1>1, HalfOpenIs
      <4>2. f_count'[f] = 0 BY <3>1, <1>3
      <4>. QED BY <4>1, <4>2 DEF Node
    <3>2. CASE f \notin Mine(t)
      <4>1. \A u \in Proc \ {t} : Mine(u)' = Mine(u) BY <1>3 DEF Mine
      <4>2. f \in HalfOpen' <=> f \in HalfOpen
        BY <3>2, <4>1, <1>3 DEF HalfOpen, Opening
      <4>3. f_count'[f] = f_count[f] BY <3>2, <1>3
      <4>. QED BY <4>2, <4>3 DEF Node
    <3>. QED BY <3>1, <3>2
  <2>. QED BY <2>1 DEF Nodes
<1>9. ~of_setup.faults => \A n \in InodeSlot : i_count'[n] = Cardinality(Nodes(n)')
                                        + Cardinality(Busy(n)') + Cardinality(Cwd(n)')
  <2> SUFFICES ASSUME ~of_setup.faults, NEW n \in InodeSlot
               PROVE  i_count'[n] = Cardinality(Nodes(n)') + Cardinality(Busy(n)')
                                    + Cardinality(Cwd(n)')
    OBVIOUS
  <2>1. Cardinality(Busy(n)') = Cardinality(Busy(n)) - (IF inode[t] = n THEN 1 ELSE 0)
    <3>1. Cardinality(Busy(n)') = Cardinality(Busy(n)) + (IF inode'[t] = n THEN 1 ELSE 0)
                                                       - (IF inode[t] = n THEN 1 ELSE 0)
      BY <1>3, OneTask
    <3>2. inode'[t] # n BY <1>3, OpenFilesAssumption
    <3>. QED BY <3>1, <3>2, NodesIs, <1>1
  <2>2. Cwd(n)' = Cwd(n) BY DEF Cwd
  <2>. QED BY <2>1, <2>2, <1>1, <1>8, NodesIs, FilesCounted
<1>. QED BY <1>2, <1>4, <1>5, <1>6, <1>7, <1>9, FilesSound

(* The descriptors and the files stay: a step of one task about inodes. *)
LEMMA TableKept ==
    ASSUME FilesInv, FilesTypeOK', NEW t \in Proc, TaskOK(t)',
           UNCHANGED <<of_setup, filp, files>>,
           close_on_exec'[t] \subseteq OpenFds(t),
           \A u \in Proc \ {t} : /\ pwd'[u] = pwd[u] /\ pc'[u] = pc[u] /\ fds'[u] = fds[u]
                                 /\ inode'[u] = inode[u] /\ after'[u] = after[u]
                                 /\ close_on_exec'[u] = close_on_exec[u],
           ~of_setup.faults => HalfOpen' = HalfOpen,
           \A n \in InodeSlot :
              ~of_setup.faults =>
                i_count'[n] = i_count[n] + (IF inode'[t] = n THEN 1 ELSE 0)
                    - (IF inode[t] = n THEN 1 ELSE 0) + (IF pwd'[t] = n THEN 1 ELSE 0)
                    - (IF pwd[t] = n THEN 1 ELSE 0)
    PROVE  FilesInv'
<1>1. /\ FilesTypeOK
      /\ \A u \in Proc : TaskOK(u) /\ close_on_exec[u] \subseteq OpenFds(u)
  BY FilesCounted
<1>2. \A u \in Proc \ {t} : TaskOK(u)'
  BY <1>1, OthersKept
<1>3. \A u \in Proc : close_on_exec'[u] \subseteq OpenFds(u)'
  BY <1>1 DEF OpenFds
<1>4. \A f \in File : f_count'[f] = Cardinality(Refs(f)')
  BY Counted DEF Refs, files
<1>5. ~of_setup.faults => \A n \in InodeSlot : i_count'[n] = Cardinality(Nodes(n)')
                                        + Cardinality(Busy(n)') + Cardinality(Cwd(n)')
  <2> SUFFICES ASSUME ~of_setup.faults, NEW n \in InodeSlot
               PROVE  i_count'[n] = Cardinality(Nodes(n)') + Cardinality(Busy(n)')
                                    + Cardinality(Cwd(n)')
    OBVIOUS
  <2>1. Nodes(n)' = Nodes(n) BY DEF Nodes, Node, files
  <2>2. Cardinality(Busy(n)') = Cardinality(Busy(n)) + (IF inode'[t] = n THEN 1 ELSE 0)
                                                     - (IF inode[t] = n THEN 1 ELSE 0)
        /\ Cardinality(Cwd(n)') = Cardinality(Cwd(n)) + (IF pwd'[t] = n THEN 1 ELSE 0)
                                                     - (IF pwd[t] = n THEN 1 ELSE 0)
    BY OneTask
  <2>3. /\ Cardinality(Nodes(n)) \in Nat /\ Cardinality(Busy(n)) \in Nat
        /\ Cardinality(Cwd(n)) \in Nat
        /\ i_count[n] = Cardinality(Nodes(n)) + Cardinality(Busy(n)) + Cardinality(Cwd(n))
    BY <1>1, NodesIs, FilesCounted
  <2>. QED BY <2>1, <2>2, <2>3
<1>. QED BY <1>1, <1>2, <1>3, <1>4, <1>5, FilesSound

(* One descriptor is closed, or a free one is made the copy of another.    *)
LEMMA FdKept ==
    ASSUME FilesInv, FilesTypeOK', NEW t \in Proc, TaskOK(t)', NEW fd \in Fd,
           pc[t] \notin Opening, pc'[t] \notin Opening,
           \A u \in Proc, d \in Fd : u # t \/ d # fd => filp'[u][d] = filp[u][d],
           filp'[t][fd] # NULL => \E d \in Fd : filp'[t][fd] = filp[t][d],
           \A f \in File : f_count'[f] = f_count[f] + (IF filp'[t][fd] = f THEN 1 ELSE 0)
                                                   - (IF filp[t][fd] = f THEN 1 ELSE 0),
           UNCHANGED <<of_setup, pwd, f_inode, i_count>>,
           close_on_exec'[t] \subseteq OpenFds(t)',
           \A u \in Proc \ {t} : /\ pc'[u] = pc[u] /\ fds'[u] = fds[u]
                                 /\ inode'[u] = inode[u] /\ after'[u] = after[u]
                                 /\ close_on_exec'[u] = close_on_exec[u],
           inode[t] = NoSlot,
           inode'[t] = IF \E f \in File : f_count[f] = 1 /\ f_count'[f] = 0
                         THEN f_inode[filp[t][fd]] ELSE NoSlot
    PROVE  FilesInv'
<1>1. /\ FilesTypeOK
      /\ \A u \in Proc : TaskOK(u) /\ close_on_exec[u] \subseteq OpenFds(u)
  BY FilesCounted
<1>2. \A u \in Proc \ {t} : filp'[u] = filp[u]
  <2>1. ASSUME NEW u \in Proc \ {t} PROVE filp'[u] = filp[u]
    <3>1. filp[u] \in [Fd -> File \cup {NULL}] /\ filp'[u] \in [Fd -> File \cup {NULL}]
      BY <1>1 DEF FilesTypeOK
    <3>. QED BY <3>1
  <2>. QED BY <2>1
<1>3. \A d \in Fd : filp'[t][d] = IF d = fd THEN filp'[t][fd] ELSE filp[t][d]
  OBVIOUS
<1>4. \A u \in Proc \ {t} : TaskOK(u)'
  <2>1. filp'[t][fd] = NULL \/ \A u \in Proc \ {t} : pc[u] \in Opening => filp'[t][fd] \notin Mine(u)
    BY NotHalfOpen
  <2>2. \A d \in Fd : \/ filp'[t][d] \in {filp[t][d], NULL}
                       \/ \A u \in Proc \ {t} : pc[u] \in Opening => filp'[t][d] \notin Mine(u)
    BY <2>1, <1>3
  <2>. QED BY <1>2, <2>2, OthersKept
<1>5. \A u \in Proc : close_on_exec'[u] \subseteq OpenFds(u)'
  BY <1>1, <1>2 DEF OpenFds
<1>6. \A f \in File : f_count'[f] = Cardinality(Refs(f)')
  <2> SUFFICES ASSUME NEW f \in File PROVE f_count'[f] = Cardinality(Refs(f)')
    OBVIOUS
  <2>1. Cardinality(Refs(f)') = Cardinality(Refs(f)) + (IF filp'[t][fd] = f THEN 1 ELSE 0)
                                                     - (IF filp[t][fd] = f THEN 1 ELSE 0)
    BY OneFd
  <2>. QED BY <2>1, Counted
<1>7. HalfOpen' = HalfOpen
  BY <1>1, <1>2, HalfOpenSame
<1>8. ASSUME NEW f \in File, f_count'[f] = 0, f_count[f] # 0
      PROVE  filp[t][fd] = f /\ f_count[f] = 1 /\ f \notin HalfOpen
  <2>1. f_count[f] \in Nat BY <1>1 DEF FilesTypeOK
  <2>2. filp[t][fd] = f /\ f_count[f] = 1 BY <2>1, <1>8
  <2>3. f # NULL BY FilesConstants
  <2>. QED BY <2>2, <2>3, NotHalfOpen
<1>9. ASSUME NEW f \in File, f_count[f] = 0 PROVE f_count'[f] = 0
  <2>1. \A d \in Fd : filp[t][d] # f
    BY <1>9, Counted, FilesConstants
  <2>2. filp'[t][fd] # f BY <2>1, FilesConstants
  <2>. QED BY <2>1, <2>2, <1>9
<1>10. ASSUME NEW n \in InodeSlot
       PROVE  Cardinality(Nodes(n)') + Cardinality(Busy(n)')
                 = Cardinality(Nodes(n)) + Cardinality(Busy(n))
  <2>1. Cardinality(Busy(n)') = Cardinality(Busy(n)) + (IF inode'[t] = n THEN 1 ELSE 0)
                                                     - (IF inode[t] = n THEN 1 ELSE 0)
    <3>1. \A u \in Proc \ {t} : pwd'[u] = pwd[u] /\ inode'[u] = inode[u] OBVIOUS
    <3>. QED BY <3>1, OneTask
  <2>2. inode[t] # n BY OpenFilesAssumption
  <2>3. Cardinality(Nodes(n)) \in Nat /\ Cardinality(Busy(n)) \in Nat BY <1>1, NodesIs
  <2>4. CASE \E f \in File : f_count[f] = 1 /\ f_count'[f] = 0
    <3>1. PICK f \in File : f_count[f] = 1 /\ f_count'[f] = 0 BY <2>4
    <3>2. filp[t][fd] = f /\ f \notin HalfOpen BY <3>1, <1>8
    <3>3. \A g \in File \ {f} : f_count'[g] = 0 <=> f_count[g] = 0 BY <1>8, <1>9, <3>2
    <3>4. \A g \in File \ {f} : Node(g)' = Node(g) BY <3>3, <1>7 DEF Node
    <3>5. Node(f)' = NoSlot /\ Node(f) = f_inode[f] BY <3>1, <3>2 DEF Node
    <3>6. Cardinality(Nodes(n)') = Cardinality(Nodes(n)) + (IF Node(f)' = n THEN 1 ELSE 0)
                                                          - (IF Node(f) = n THEN 1 ELSE 0)
      BY <3>4, OneFile
    <3>7. inode'[t] = f_inode[f] BY <2>4, <3>2
    <3>. QED BY <2>1, <2>2, <2>3, <3>5, <3>6, <3>7, OpenFilesAssumption
  <2>5. CASE ~ \E f \in File : f_count[f] = 1 /\ f_count'[f] = 0
    <3>1. \A g \in File : f_count'[g] = 0 <=> f_count[g] = 0 BY <1>8, <1>9, <2>5
    <3>2. \A g \in File : Node(g)' = Node(g) BY <3>1, <1>7 DEF Node
    <3>3. Nodes(n)' = Nodes(n) BY <3>2 DEF Nodes
    <3>4. inode'[t] # n BY <2>5, OpenFilesAssumption
    <3>. QED BY <2>1, <2>2, <2>3, <3>3, <3>4
  <2>. QED BY <2>4, <2>5
<1>11. ~of_setup.faults => \A n \in InodeSlot : i_count'[n] = Cardinality(Nodes(n)')
                                        + Cardinality(Busy(n)') + Cardinality(Cwd(n)')
  <2> SUFFICES ASSUME ~of_setup.faults, NEW n \in InodeSlot
               PROVE  i_count'[n] = Cardinality(Nodes(n)') + Cardinality(Busy(n)')
                                    + Cardinality(Cwd(n)')
    OBVIOUS
  <2>1. Cwd(n)' = Cwd(n) BY DEF Cwd
  <2>2. i_count[n] = Cardinality(Nodes(n)) + Cardinality(Busy(n)) + Cardinality(Cwd(n))
    BY FilesCounted
  <2>3. Cardinality(Nodes(n)) \in Nat /\ Cardinality(Busy(n)) \in Nat
        /\ Cardinality(Cwd(n)) \in Nat BY <1>1, NodesIs
  <2>. QED BY <2>1, <2>2, <2>3, <1>10
<1>. QED BY <1>4, <1>5, <1>6, <1>11, FilesSound

-----------------------------------------------------------------------------
LEMMA CloseKeeps ==
    ASSUME FilesInv, NEW t \in Proc, NEW fd \in Fd, NEW l \in {"user", "dup2", "exec", "exit"},
           pc[t] \in {"user", "exec", "exit"}, CloseFd(t, fd, l),
           fds' \in [Proc -> SUBSET Fd], \A u \in Proc \ {t} : fds'[u] = fds[u]
    PROVE  FilesInv'
<1> DEFINE f == filp[t][fd]
           last == f # NULL /\ f_count[f] = 1
<1>1. /\ FilesTypeOK /\ TaskOK(t) /\ close_on_exec[t] \subseteq OpenFds(t)
  BY FilesCounted
<1>2. /\ inode[t] = NoSlot /\ pwd[t] \in InodeSlot /\ f \in File \cup {NULL}
  BY <1>1 DEF TaskOK, Gone, FilesTypeOK
<1>3. /\ filp' = [filp EXCEPT ![t][fd] = NULL]
      /\ close_on_exec' = [close_on_exec EXCEPT ![t] = @ \ {fd}]
      /\ f_count' = IF f = NULL THEN f_count ELSE [f_count EXCEPT ![f] = @ - 1]
      /\ after' = [after EXCEPT ![t] = l]
      /\ IF last THEN inode' = [inode EXCEPT ![t] = f_inode[f]] /\ pc' = [pc EXCEPT ![t] = "iput"]
                 ELSE inode' = inode /\ pc' = [pc EXCEPT ![t] = l]
      /\ UNCHANGED <<of_setup, pwd, f_inode, i_count>>
  BY DEF CloseFd, Goto
<1>4. f # NULL => f \in File /\ f_count[f] > 0 /\ f_count[f] \in Nat
  BY <1>1, <1>2, Counted DEF FilesTypeOK
<1>. HIDE DEF f
<1>5. FilesTypeOK'
  <2>1. f_count' \in [File -> Nat] BY <1>1, <1>3, <1>4 DEF FilesTypeOK
  <2>2. filp' \in [Proc -> [Fd -> File \cup {NULL}]] BY <1>1, <1>3 DEF FilesTypeOK
  <2>3. close_on_exec' \in [Proc -> SUBSET Fd] BY <1>1, <1>3 DEF FilesTypeOK
  <2>4. inode' \in [Proc -> InodeSlot \cup {NoSlot}] /\ pc' \in [Proc -> Pcs]
    <3>1. last => f_inode[f] \in InodeSlot \cup {NoSlot} BY <1>1, <1>4 DEF FilesTypeOK
    <3>2. pc' \in [Proc -> Pcs] BY <1>1, <1>3 DEF FilesTypeOK, Pcs
    <3>3. inode \in [Proc -> InodeSlot \cup {NoSlot}] BY <1>1 DEF FilesTypeOK
    <3>. HIDE DEF last
    <3>4. inode' \in [Proc -> InodeSlot \cup {NoSlot}] BY <1>3, <3>1, <3>3
    <3>. QED BY <3>2, <3>4
  <2>5. after' \in [Proc -> {"user", "dup2", "exec", "exit", "zombie"}]
    BY <1>1, <1>3 DEF FilesTypeOK
  <2>. QED BY <1>1, <1>3, <2>1, <2>2, <2>3, <2>4, <2>5 DEF FilesTypeOK
<1>6. /\ pc'[t] = (IF last THEN "iput" ELSE l) /\ after'[t] = l
      /\ inode'[t] = (IF last THEN f_inode[f] ELSE NoSlot)
      /\ \A u \in Proc \ {t} : /\ pc'[u] = pc[u] /\ inode'[u] = inode[u] /\ after'[u] = after[u]
                               /\ close_on_exec'[u] = close_on_exec[u]
      /\ close_on_exec'[t] = close_on_exec[t] \ {fd}
  BY <1>1, <1>2, <1>3 DEF FilesTypeOK
<1>7. TaskOK(t)'
  BY <1>2, <1>3, <1>6 DEF TaskOK, Gone, Opening
<1>8. close_on_exec'[t] \subseteq OpenFds(t)'
  BY <1>1, <1>3, <1>6 DEF OpenFds, FilesTypeOK
<1>14. filp'[t][fd] = NULL /\ \A u \in Proc, d \in Fd : u # t \/ d # fd => filp'[u][d] = filp[u][d]
  BY <1>1, <1>3 DEF FilesTypeOK
<1>9. \A g \in File : f_count'[g] = f_count[g] + (IF filp'[t][fd] = g THEN 1 ELSE 0)
                                               - (IF filp[t][fd] = g THEN 1 ELSE 0)
  <2> SUFFICES ASSUME NEW g \in File
               PROVE  f_count'[g] = f_count[g] + (IF filp'[t][fd] = g THEN 1 ELSE 0)
                                               - (IF f = g THEN 1 ELSE 0)
    BY DEF f
  <2>1. f_count[g] \in Nat /\ filp'[t][fd] # g BY <1>1, <1>14, FilesConstants DEF FilesTypeOK
  <2>2. f_count'[g] = IF f = g THEN f_count[g] - 1 ELSE f_count[g]
    BY <1>1, <1>3, <1>4, FilesConstants DEF FilesTypeOK
  <2>. QED BY <2>1, <2>2
<1>10. (\E g \in File : f_count[g] = 1 /\ f_count'[g] = 0) <=> last
  BY <1>1, <1>3, <1>4 DEF FilesTypeOK
<1>11. inode'[t] = IF \E g \in File : f_count[g] = 1 /\ f_count'[g] = 0
                     THEN f_inode[filp[t][fd]] ELSE NoSlot
  BY <1>6, <1>10 DEF f
<1>12. pc[t] \notin Opening /\ pc'[t] \notin Opening
  BY <1>6 DEF Opening
<1>. HIDE DEF last
<1>. QED BY <1>14, <1>2, <1>3, <1>5, <1>6, <1>7, <1>8, <1>9, <1>11, <1>12, FdKept

LEMMA DupKeeps ==
    ASSUME FilesInv, NEW t \in Proc, NEW fd \in Fd, NEW arg \in Fd,
           pc[t] \in {"user", "dup2"}, DupFd(t, fd, arg),
           pc' = [pc EXCEPT ![t] = "user"],
           fds' \in [Proc -> SUBSET Fd], \A u \in Proc \ {t} : fds'[u] = fds[u]
    PROVE  FilesInv'
<1> DEFINE free == {d \in FreeFds(t) : d >= arg}
<1>1. /\ FilesTypeOK /\ TaskOK(t) /\ close_on_exec[t] \subseteq OpenFds(t)
  BY FilesCounted
<1>2. /\ pwd[t] \in InodeSlot /\ inode[t] = NoSlot
      /\ pc'[t] = "user" /\ \A u \in Proc \ {t} : pc'[u] = pc[u]
      /\ pc[t] \notin Opening /\ pc'[t] \notin Opening
  BY <1>1 DEF TaskOK, Gone, FilesTypeOK, Opening
<1>3. UNCHANGED <<of_setup, pwd, f_inode, i_count, inode, after>>
  BY DEF DupFd
<1>4. CASE filp[t][fd] = NULL \/ free = {}
  <2>1. UNCHANGED <<filp, close_on_exec, f_count>> BY <1>4 DEF DupFd
  <2>2. FilesTypeOK' BY <1>1, <1>3, <2>1 DEF FilesTypeOK, Pcs
  <2>3. TaskOK(t)' BY <1>2, <1>3 DEF TaskOK, Gone, Opening
  <2>4. HalfOpen' = HalfOpen
    <3>1. \A u \in Proc : (pc'[u] \in Opening <=> pc[u] \in Opening)
                        /\ (pc[u] \in Opening => fds'[u] = fds[u] /\ filp'[u] = filp[u])
      BY <1>2, <2>1
    <3>. QED BY <3>1, <1>1, <2>2, HalfOpenSame
  <2>5. \A n \in InodeSlot :
              i_count'[n] = i_count[n] + (IF inode'[t] = n THEN 1 ELSE 0)
                    - (IF inode[t] = n THEN 1 ELSE 0) + (IF pwd'[t] = n THEN 1 ELSE 0)
                    - (IF pwd[t] = n THEN 1 ELSE 0)
    BY <1>1, <1>3 DEF FilesTypeOK
  <2>. QED BY <1>1, <1>2, <1>3, <2>1, <2>2, <2>3, <2>4, <2>5, TableKept DEF files
<1>5. CASE ~(filp[t][fd] = NULL \/ free = {})
  <2>1. /\ close_on_exec' = [close_on_exec EXCEPT ![t] = @ \ Lowest(free, 1)]
        /\ filp' = [filp EXCEPT ![t] = [d \in Fd |-> IF d \in Lowest(free, 1) THEN @[fd] ELSE @[d]]]
        /\ f_count' = [f_count EXCEPT ![filp[t][fd]] = @ + 1]
    BY <1>5 DEF DupFd
  <2>2. free \in SUBSET Nat /\ free # {} BY <1>5, FilesConstants DEF FreeFds
  <2>3. PICK d \in free : Lowest(free, 1) = {d} BY <2>2, FirstOne
  <2>4. d \in Fd /\ filp[t][d] = NULL BY DEF FreeFds, OpenFds
  <2>. HIDE DEF free
  <2>5. filp' = [filp EXCEPT ![t][d] = filp[t][fd]]
    <3>1. [e \in Fd |-> IF e \in Lowest(free, 1) THEN filp[t][fd] ELSE filp[t][e]]
            = [filp[t] EXCEPT ![d] = filp[t][fd]]
      BY <1>1, <2>3, <2>4 DEF FilesTypeOK
    <3>. QED BY <1>1, <2>1, <3>1 DEF FilesTypeOK
  <2>6. filp[t][fd] \in File /\ filp[t][fd] # NULL BY <1>1, <1>5 DEF FilesTypeOK
  <2>7. FilesTypeOK'
    <3>1. f_count' \in [File -> Nat] BY <1>1, <2>1, <2>6 DEF FilesTypeOK
    <3>2. filp' \in [Proc -> [Fd -> File \cup {NULL}]] BY <1>1, <2>5, <2>6 DEF FilesTypeOK
    <3>3. close_on_exec' \in [Proc -> SUBSET Fd] BY <1>1, <2>1 DEF FilesTypeOK
    <3>. QED BY <1>1, <1>3, <3>1, <3>2, <3>3 DEF FilesTypeOK, Pcs
  <2>8. \A u \in Proc \ {t} : close_on_exec'[u] = close_on_exec[u] BY <1>1, <2>1 DEF FilesTypeOK
  <2>9. close_on_exec'[t] \subseteq OpenFds(t)'
    <3>1. \A e \in Fd : filp[t][e] # NULL => filp'[t][e] # NULL
      BY <1>1, <2>4, <2>5, <2>6 DEF FilesTypeOK
    <3>2. close_on_exec'[t] \subseteq close_on_exec[t] BY <1>1, <2>1 DEF FilesTypeOK
    <3>. QED BY <1>1, <3>1, <3>2 DEF OpenFds
  <2>10. TaskOK(t)' BY <1>2, <1>3 DEF TaskOK, Gone, Opening
  <2>16. /\ filp'[t][d] = filp[t][fd]
         /\ \A u \in Proc, e \in Fd : u # t \/ e # d => filp'[u][e] = filp[u][e]
    BY <1>1, <2>4, <2>5 DEF FilesTypeOK
  <2>11. \A f \in File : f_count'[f] = f_count[f] + (IF filp'[t][d] = f THEN 1 ELSE 0)
                                                - (IF filp[t][d] = f THEN 1 ELSE 0)
    <3> SUFFICES ASSUME NEW f \in File
                 PROVE  f_count'[f] = f_count[f] + (IF filp'[t][d] = f THEN 1 ELSE 0)
                                                 - (IF filp[t][d] = f THEN 1 ELSE 0)
      OBVIOUS
    <3>1. f_count[f] \in Nat /\ filp[t][d] # f BY <1>1, <2>4, FilesConstants DEF FilesTypeOK
    <3>2. f_count'[f] = IF filp[t][fd] = f THEN f_count[f] + 1 ELSE f_count[f]
      BY <1>1, <2>1, <2>6 DEF FilesTypeOK
    <3>. QED BY <3>1, <3>2, <2>16
  <2>12. ~ \E f \in File : f_count[f] = 1 /\ f_count'[f] = 0
    BY <1>1, <2>1, <2>6 DEF FilesTypeOK
  <2>13. inode'[t] = IF \E f \in File : f_count[f] = 1 /\ f_count'[f] = 0
                      THEN f_inode[filp[t][d]] ELSE NoSlot
    BY <1>2, <1>3, <2>12
  <2>15. \A u \in Proc \ {t} : inode'[u] = inode[u] /\ after'[u] = after[u]
    BY <1>3
  <2>. QED BY <2>13, <2>15, <2>16, <1>2, <1>3, <2>4, <2>5, <2>6, <2>7, <2>8, <2>9, <2>10, <2>11, <2>12, FdKept
<1>. QED BY <1>4, <1>5

-----------------------------------------------------------------------------
(* The inode of the file is there, and the file is complete. *)
LEMMA OpenedKeeps == ASSUME FilesInv, NEW t \in Proc, Opened(t) PROVE FilesInv'
<1>1. /\ FilesTypeOK /\ TaskOK(t) /\ close_on_exec[t] \subseteq OpenFds(t)
      /\ \A u \in Proc : TaskOK(u) /\ close_on_exec[u] \subseteq OpenFds(u)
  BY FilesCounted
<1>2. /\ pc[t] = "opened" /\ pc' = [pc EXCEPT ![t] = "user"]
      /\ f_count' = [f \in File |-> IF f \in Mine(t) THEN 1 ELSE f_count[f]]
      /\ f_inode' = [f \in File |-> IF f \in Mine(t) THEN inode[t] ELSE f_inode[f]]
      /\ inode' = [inode EXCEPT ![t] = NoSlot]
      /\ fds' = [fds EXCEPT ![t] = {}]
      /\ UNCHANGED <<of_setup, filp, close_on_exec, pwd, i_count, after>>
  BY DEF Opened, Goto, tasks
<1>3. /\ pwd[t] \in InodeSlot /\ inode[t] \in InodeSlot /\ Reserved(t)
      /\ pc'[t] = "user" /\ inode'[t] = NoSlot
      /\ \A u \in Proc \ {t} : pc'[u] = pc[u] /\ inode'[u] = inode[u] /\ fds'[u] = fds[u]
  BY <1>1, <1>2 DEF TaskOK, Gone, FilesTypeOK, Opening
<1>4. PICK d \in Fd : fds[t] = {d}
  BY <1>1, <1>2 DEF TaskOK
<1>f. PICK f : f = filp[t][d]
  OBVIOUS
<1>5. Mine(t) = {f} /\ f \in File /\ Cardinality(Refs(f)) = 1
  <2>1. filp[t][d] # NULL /\ \A u \in Proc, e \in Fd : filp[u][e] = f => u = t /\ e = d
    BY <1>3, <1>4, <1>f DEF Reserved
  <2>2. Refs(f) = {<<t, d>>}
    <3>1. ASSUME NEW r \in Proc \X Fd, filp[r[1]][r[2]] = f PROVE r = <<t, d>>
      <4>1. r[1] \in Proc /\ r[2] \in Fd OBVIOUS
      <4>. QED BY <3>1, <4>1, <2>1
    <3>. QED BY <3>1, <1>f DEF Refs
  <2>3. Mine(t) = {f} BY <1>4, <1>f DEF Mine
  <2>4. f \in File BY <1>1, <2>1, <1>f DEF FilesTypeOK
  <2>. QED BY <2>2, <2>3, <2>4, FS_Singleton
<1>6. f_count' = f_count
  <2>1. f_count[f] = 1 BY <1>5, Counted
  <2>. QED BY <1>1, <1>2, <1>5, <2>1 DEF FilesTypeOK
<1>7. FilesTypeOK'
  BY <1>1, <1>2, <1>3, <1>5, <1>6 DEF FilesTypeOK, Pcs
<1>8. TaskOK(t)'
  BY <1>2, <1>3 DEF TaskOK, Gone, Opening
<1>9. \A u \in Proc \ {t} : TaskOK(u)'
  <2>1. \A e \in Fd : filp'[t][e] \in {filp[t][e], NULL} BY <1>2
  <2>2. \A u \in Proc \ {t} : /\ filp'[u] = filp[u] /\ pwd'[u] = pwd[u] /\ pc'[u] = pc[u]
                                 /\ fds'[u] = fds[u] /\ inode'[u] = inode[u]
                                 /\ after'[u] = after[u]
                                 /\ close_on_exec'[u] \subseteq close_on_exec[u]
    BY <1>2, <1>3
  <2>. QED BY <1>7, <2>1, <2>2, OthersKept
<1>10. f \in HalfOpen /\ f \notin HalfOpen' /\ \A g \in File \ {f} : g \in HalfOpen' <=> g \in HalfOpen
  <2>1. \A u \in Proc \ {t} : pc[u] \in Opening => f \notin Mine(u)
    <3> SUFFICES ASSUME NEW u \in Proc \ {t}, pc[u] \in Opening, NEW e \in fds[u], filp[u][e] = f
                 PROVE  FALSE
      BY DEF Mine
    <3>1. e \in Fd BY <1>1 DEF FilesTypeOK
    <3>. QED BY <3>1, <1>3, <1>4, <1>f DEF Reserved
  <2>2. \A u \in Proc \ {t} : Mine(u)' = Mine(u) /\ pc'[u] = pc[u] BY <1>2, <1>3 DEF Mine
  <2>3. pc[t] \in Opening /\ pc'[t] \notin Opening BY <1>2, <1>3 DEF Opening
  <2>4. \A g : g \in HalfOpen <=> \E u \in Proc : pc[u] \in Opening /\ g \in Mine(u)
    BY <1>1, HalfOpenIs
  <2>5. \A g : g \in HalfOpen' <=> \E u \in Proc : pc'[u] \in Opening /\ g \in Mine(u)'
    BY <1>7 DEF HalfOpen, Mine, Opening, FilesTypeOK
  <2>. QED BY <2>1, <2>2, <2>3, <2>4, <2>5, <1>5
<1>11. \A g \in File : f_count'[g] = Cardinality(Refs(g)')
  BY <1>2, <1>6, Counted DEF Refs
<1>12. \A u \in Proc : close_on_exec'[u] \subseteq OpenFds(u)'
  BY <1>1, <1>2 DEF OpenFds
<1>13. ~of_setup.faults => \A n \in InodeSlot : i_count'[n] = Cardinality(Nodes(n)')
                                        + Cardinality(Busy(n)') + Cardinality(Cwd(n)')
  <2> SUFFICES ASSUME ~of_setup.faults, NEW n \in InodeSlot
               PROVE  i_count'[n] = Cardinality(Nodes(n)') + Cardinality(Busy(n)')
                                    + Cardinality(Cwd(n)')
    OBVIOUS
  <2>1. Cardinality(Busy(n)') = Cardinality(Busy(n)) - (IF inode[t] = n THEN 1 ELSE 0)
    <3>1. Cardinality(Busy(n)') = Cardinality(Busy(n)) + (IF inode'[t] = n THEN 1 ELSE 0)
                                                       - (IF inode[t] = n THEN 1 ELSE 0)
      BY <1>2, <1>3, OneTask
    <3>2. inode'[t] # n BY <1>3, OpenFilesAssumption
    <3>. QED BY <3>1, <3>2, NodesIs, <1>1
  <2>2. Cwd(n)' = Cwd(n) BY <1>2 DEF Cwd
  <2>3. Cardinality(Nodes(n)') = Cardinality(Nodes(n)) + (IF inode[t] = n THEN 1 ELSE 0)
    <3>1. \A g \in File \ {f} : Node(g)' = Node(g)
      BY <1>2, <1>5, <1>6, <1>10 DEF Node
    <3>2. Node(f) = NoSlot /\ Node(f)' = inode[t]
      <4>1. f_count'[f] # 0 BY <1>2, <1>5
      <4>2. f_inode'[f] = inode[t] BY <1>2, <1>5
      <4>. QED BY <1>10, <4>1, <4>2 DEF Node
    <3>3. Cardinality(Nodes(n)') = Cardinality(Nodes(n)) + (IF Node(f)' = n THEN 1 ELSE 0)
                                                         - (IF Node(f) = n THEN 1 ELSE 0)
      BY <1>5, <3>1, OneFile
    <3>. QED BY <3>2, <3>3, <1>1, NodesIs, OpenFilesAssumption
  <2>4. /\ i_count[n] = Cardinality(Nodes(n)) + Cardinality(Busy(n)) + Cardinality(Cwd(n))
        /\ Cardinality(Nodes(n)) \in Nat /\ Cardinality(Busy(n)) \in Nat
        /\ Cardinality(Cwd(n)) \in Nat
    BY <1>1, FilesCounted, NodesIs
  <2>. QED BY <1>2, <2>1, <2>2, <2>3, <2>4
<1>. QED BY <1>2, <1>7, <1>8, <1>9, <1>11, <1>12, <1>13, FilesSound

(* get_pipe_inode: the inode nobody has is the one of two files.           *)
LEMMA PipeKeeps ==
    ASSUME FilesInv, NEW t \in Proc, NEW n \in InodeSlot, PipeDone(t, n) PROVE FilesInv'
<1>1. /\ FilesTypeOK /\ TaskOK(t)
      /\ \A u \in Proc : TaskOK(u) /\ close_on_exec[u] \subseteq OpenFds(u)
  BY FilesCounted
<1>2. /\ pc[t] = "pipe" /\ pc' = [pc EXCEPT ![t] = "user"] /\ i_count[n] = 0
      /\ f_inode' = [f \in File |-> IF f \in Mine(t) THEN n ELSE f_inode[f]]
      /\ i_count' = [i_count EXCEPT ![n] = 2]
      /\ fds' = [fds EXCEPT ![t] = {}]
      /\ UNCHANGED <<of_setup, filp, close_on_exec, pwd, f_count, inode, after>>
  BY DEF PipeDone, Goto, tasks
<1>3. /\ pwd[t] \in InodeSlot /\ inode[t] = NoSlot /\ Reserved(t)
      /\ pc'[t] = "user"
      /\ \A u \in Proc \ {t} : pc'[u] = pc[u] /\ fds'[u] = fds[u]
  BY <1>1, <1>2 DEF TaskOK, Gone, FilesTypeOK, Opening
<1>4. PICK d, e \in Fd : d # e /\ fds[t] = {d, e}
  BY <1>1, <1>2 DEF TaskOK
<1>5. /\ Mine(t) = {filp[t][d], filp[t][e]} /\ filp[t][d] # filp[t][e]
      /\ Mine(t) \subseteq File
  <2>1. /\ filp[t][d] # NULL /\ filp[t][e] # NULL /\ filp[t][d] # filp[t][e]
    BY <1>3, <1>4 DEF Reserved
  <2>2. filp[t][d] \in File /\ filp[t][e] \in File BY <1>1, <2>1 DEF FilesTypeOK
  <2>. QED BY <2>1, <2>2, <1>4 DEF Mine
<1>6. FilesTypeOK'
  BY <1>1, <1>2, <1>3 DEF FilesTypeOK, Pcs
<1>7. TaskOK(t)'
  BY <1>2, <1>3 DEF TaskOK, Gone, Opening
<1>8. \A u \in Proc \ {t} : TaskOK(u)'
  <2>1. \A c \in Fd : filp'[t][c] \in {filp[t][c], NULL} BY <1>2
  <2>2. \A u \in Proc \ {t} : /\ filp'[u] = filp[u] /\ pwd'[u] = pwd[u] /\ pc'[u] = pc[u]
                                 /\ fds'[u] = fds[u] /\ inode'[u] = inode[u]
                                 /\ after'[u] = after[u]
                                 /\ close_on_exec'[u] \subseteq close_on_exec[u]
    BY <1>2, <1>3
  <2>. QED BY <1>6, <2>1, <2>2, OthersKept
<1>9. \A f \in Mine(t) : f \in HalfOpen /\ f \notin HalfOpen' /\ f_count[f] > 0
  <2> SUFFICES ASSUME NEW c \in fds[t]
               PROVE  filp[t][c] \in HalfOpen /\ filp[t][c] \notin HalfOpen'
                      /\ f_count[filp[t][c]] > 0
    BY DEF Mine
  <2>1. \A u \in Proc \ {t} : pc[u] \in Opening => filp[t][c] \notin Mine(u)
    <3> SUFFICES ASSUME NEW u \in Proc \ {t}, pc[u] \in Opening, NEW b \in fds[u],
                        filp[u][b] = filp[t][c]
                 PROVE  FALSE
      BY DEF Mine
    <3>1. b \in Fd BY <1>1 DEF FilesTypeOK
    <3>. QED BY <3>1, <1>3 DEF Reserved
  <2>2. \A u \in Proc \ {t} : Mine(u)' = Mine(u) /\ pc'[u] = pc[u] BY <1>2, <1>3 DEF Mine
  <2>3. pc[t] \in Opening /\ pc'[t] \notin Opening BY <1>2, <1>3 DEF Opening
  <2>4. filp[t][c] \in HalfOpen BY <1>1, <2>3, HalfOpenIs DEF Mine
  <2>5. \A g : g \in HalfOpen' <=> \E u \in Proc : pc'[u] \in Opening /\ g \in Mine(u)'
    BY <1>6 DEF HalfOpen, Mine, Opening, FilesTypeOK
  <2>6. filp[t][c] # NULL /\ c \in Fd BY <1>1, <1>3 DEF Reserved, FilesTypeOK
  <2>7. f_count[filp[t][c]] > 0 BY <2>6, Counted
  <2>. QED BY <2>1, <2>2, <2>3, <2>4, <2>5, <2>7
<1>10. \A f \in File \ Mine(t) : f \in HalfOpen' <=> f \in HalfOpen
  <2>1. \A u \in Proc \ {t} : Mine(u)' = Mine(u) /\ pc'[u] = pc[u] BY <1>2, <1>3 DEF Mine
  <2>2. \A g : g \in HalfOpen' <=> \E u \in Proc : pc'[u] \in Opening /\ g \in Mine(u)'
    BY <1>6 DEF HalfOpen, Mine, Opening, FilesTypeOK
  <2>3. pc'[t] \notin Opening BY <1>3 DEF Opening
  <2>. QED BY <1>1, <2>1, <2>2, <2>3, HalfOpenIs
<1>11. \A g \in File : f_count'[g] = Cardinality(Refs(g)')
  BY <1>2, Counted DEF Refs
<1>12. \A u \in Proc : close_on_exec'[u] \subseteq OpenFds(u)'
  BY <1>1, <1>2 DEF OpenFds
<1>13. ~of_setup.faults => \A m \in InodeSlot : i_count'[m] = Cardinality(Nodes(m)')
                                        + Cardinality(Busy(m)') + Cardinality(Cwd(m)')
  <2> SUFFICES ASSUME ~of_setup.faults, NEW m \in InodeSlot
               PROVE  i_count'[m] = Cardinality(Nodes(m)') + Cardinality(Busy(m)')
                                    + Cardinality(Cwd(m)')
    OBVIOUS
  <2>1. Busy(m)' = Busy(m) /\ Cwd(m)' = Cwd(m) BY <1>2 DEF Busy, Cwd
  <2>2. /\ i_count[m] = Cardinality(Nodes(m)) + Cardinality(Busy(m)) + Cardinality(Cwd(m))
        /\ Cardinality(Nodes(m)) \in Nat /\ Cardinality(Busy(m)) \in Nat
        /\ Cardinality(Cwd(m)) \in Nat
        /\ IsFiniteSet(Nodes(m))
    BY <1>1, FilesCounted, NodesIs
  <2>3. \A f \in Mine(t) : Node(f) = NoSlot /\ Node(f)' = n
    BY <1>2, <1>5, <1>9 DEF Node
  <2>4. \A f \in File \ Mine(t) : Node(f)' = Node(f)
    BY <1>2, <1>10 DEF Node
  <2>5. CASE m = n
    <3>1. Cardinality(Nodes(m)) = 0 /\ Cardinality(Busy(m)) = 0 /\ Cardinality(Cwd(m)) = 0
      BY <2>2, <2>5, <1>2
    <3>2. Nodes(m) = {} BY <2>2, <3>1, FS_EmptySet
    <3>3. Nodes(m)' = Mine(t)
      BY <2>3, <2>4, <2>5, <3>2, <1>5 DEF Nodes
    <3>4. Cardinality(Mine(t)) = 2
      <4>1. PICK a, b : a = filp[t][d] /\ b = filp[t][e] OBVIOUS
      <4>2. a # b /\ Mine(t) = {a, b} BY <4>1, <1>5
      <4>3. Cardinality({a, b}) = 2 BY <4>2, PairIs
      <4>. QED BY <4>2, <4>3
    <3>5. i_count'[m] = 2 BY <1>1, <1>2, <2>5 DEF FilesTypeOK
    <3>. QED BY <2>1, <3>1, <3>3, <3>4, <3>5
  <2>6. CASE m # n
    <3>1. Nodes(m)' = Nodes(m)
      BY <2>3, <2>4, <2>6, OpenFilesAssumption DEF Nodes
    <3>2. i_count'[m] = i_count[m] BY <1>1, <1>2, <2>6 DEF FilesTypeOK
    <3>. QED BY <2>1, <2>2, <3>1, <3>2
  <2>. QED BY <2>5, <2>6
<1>. QED BY <1>2, <1>6, <1>7, <1>8, <1>11, <1>12, <1>13, FilesSound

-----------------------------------------------------------------------------
(* copy_process: the child has every descriptor of its father.             *)
LEMMA ForkKeeps ==
    ASSUME FilesInv, NEW t \in Proc, NEW u \in Proc, CopyFiles(t, u) PROVE FilesInv'
<1>1. /\ FilesTypeOK /\ TaskOK(t) /\ TaskOK(u)
      /\ \A w \in Proc : TaskOK(w) /\ close_on_exec[w] \subseteq OpenFds(w)
  BY FilesCounted
<1>2. /\ pc[t] = "user" /\ pc[u] = "unborn" /\ pc' = [pc EXCEPT ![u] = "user"]
      /\ filp' = [filp EXCEPT ![u] = filp[t]]
      /\ close_on_exec' = [close_on_exec EXCEPT ![u] = close_on_exec[t]]
      /\ pwd' = [pwd EXCEPT ![u] = pwd[t]]
      /\ f_count' = [f \in File |-> f_count[f] + Cardinality({fd \in Fd : filp[t][fd] = f})]
      /\ i_count' = [i_count EXCEPT ![pwd[t]] = @ + 1]
      /\ UNCHANGED <<of_setup, f_inode, fds, inode, after>>
  BY DEF CopyFiles, Calls, Goto, local
<1>3. /\ t # u /\ pwd[t] \in InodeSlot /\ inode[t] = NoSlot /\ inode[u] = NoSlot
      /\ pwd[u] = NoSlot /\ pwd'[u] = pwd[t]
      /\ \A d \in Fd : filp[u][d] = NULL
      /\ pc'[u] = "user" /\ \A w \in Proc \ {u} : pc'[w] = pc[w]
      /\ filp'[u] = filp[t] /\ \A w \in Proc \ {u} : filp'[w] = filp[w]
      /\ \A w \in Proc \ {u} : pwd'[w] = pwd[w] /\ close_on_exec'[w] = close_on_exec[w]
      /\ close_on_exec'[u] = close_on_exec[t]
  BY <1>1, <1>2 DEF TaskOK, Gone, FilesTypeOK, OpenFds
<1> DEFINE Mult(f) == {fd \in Fd : filp[t][fd] = f}
<1>4. \A f \in File : IsFiniteSet(Mult(f)) /\ Cardinality(Mult(f)) \in Nat
  <2> SUFFICES ASSUME NEW f \in File PROVE IsFiniteSet(Mult(f)) /\ Cardinality(Mult(f)) \in Nat
    OBVIOUS
  <2>1. IsFiniteSet(Mult(f)) BY FilesConstants, FS_Subset
  <2>. QED BY <2>1, FS_CardinalityType
<1>5. FilesTypeOK'
  <2>0. f_count' = [f \in File |-> f_count[f] + Cardinality(Mult(f))] BY <1>2
  <2>1. f_count' \in [File -> Nat]
    <3>. HIDE DEF Mult
    <3>1. \A f \in File : f_count[f] + Cardinality(Mult(f)) \in Nat
      BY <1>1, <1>4 DEF FilesTypeOK
    <3>. QED BY <2>0, <3>1
  <2>2. i_count' \in [InodeSlot -> Int] BY <1>1, <1>2, <1>3 DEF FilesTypeOK
  <2>. QED BY <1>1, <1>2, <2>1, <2>2 DEF FilesTypeOK, Pcs
<1>6. TaskOK(u)'
  BY <1>2, <1>3 DEF TaskOK, Gone, Opening
<1>7. \A w \in Proc \ {u} : TaskOK(w)'
  <2>1. pc[t] \notin Opening BY <1>2 DEF Opening
  <2>2. \A d \in Fd : filp[t][d] = NULL
                      \/ \A w \in Proc \ {u} : pc[w] \in Opening => filp[t][d] \notin Mine(w)
    BY <2>1, NotHalfOpen
  <2>3. \A d \in Fd : \/ filp'[u][d] \in {filp[u][d], NULL}
                       \/ \A w \in Proc \ {u} : pc[w] \in Opening => filp'[u][d] \notin Mine(w)
    BY <2>2, <1>3
  <2>. QED BY <1>2, <1>3, <1>5, <2>3, OthersKept
<1>8. \A w \in Proc : close_on_exec'[w] \subseteq OpenFds(w)'
  BY <1>1, <1>3 DEF OpenFds
<1>9. \A f \in File : f_count'[f] = Cardinality(Refs(f)')
  <2> SUFFICES ASSUME NEW f \in File PROVE f_count'[f] = Cardinality(Refs(f)')
    OBVIOUS
  <2> DEFINE Copies == {u} \X Mult(f)
  <2>1. IsFiniteSet(Mult(f)) /\ Cardinality(Mult(f)) \in Nat BY <1>4
  <2>2. IsFiniteSet({u}) /\ Cardinality({u}) = 1 BY FS_Singleton
  <2>3. IsFiniteSet(Copies) /\ Cardinality(Copies) = Cardinality(Mult(f))
    <3>. HIDE DEF Mult
    <3>1. IsFiniteSet({u} \X Mult(f)) /\ Cardinality({u} \X Mult(f)) = Cardinality({u}) * Cardinality(Mult(f))
      BY <2>1, <2>2, FS_Product
    <3>. QED BY <2>1, <2>2, <3>1
  <2>4. IsFiniteSet(Refs(f)) /\ Cardinality(Refs(f)) \in Nat BY RefsIs
  <2>5. f # NULL BY FilesConstants
  <2>6. Refs(f) \cap Copies = {}
    BY <1>3, <2>5 DEF Refs
  <2>7. ASSUME NEW r \in Proc \X Fd
        PROVE  r \in Refs(f)' <=> r \in Refs(f) \/ r \in Copies
    <3>1. r[1] \in Proc /\ r[2] \in Fd /\ r = <<r[1], r[2]>> OBVIOUS
    <3>2. r \in Copies <=> r[1] = u /\ filp[t][r[2]] = f BY <3>1
    <3>3. CASE r[1] = u
      <4>1. filp'[r[1]][r[2]] = filp[t][r[2]] /\ filp[r[1]][r[2]] = NULL BY <3>1, <3>3, <1>3
      <4>. QED BY <2>5, <3>2, <3>3, <4>1 DEF Refs
    <3>4. CASE r[1] # u
      <4>1. filp'[r[1]][r[2]] = filp[r[1]][r[2]] BY <3>1, <3>4, <1>3
      <4>. QED BY <3>2, <3>4, <4>1 DEF Refs
    <3>. QED BY <3>3, <3>4
  <2>8. Refs(f)' = Refs(f) \cup Copies
    <3>1. Refs(f) \subseteq Proc \X Fd /\ Refs(f)' \subseteq Proc \X Fd BY DEF Refs
    <3>2. Copies \subseteq Proc \X Fd OBVIOUS
    <3>. HIDE DEF Copies
    <3>. QED BY <2>7, <3>1, <3>2
  <2>9. Cardinality(Refs(f)') = Cardinality(Refs(f)) + Cardinality(Mult(f))
    <3>. HIDE DEF Copies, Mult
    <3>1. Cardinality(Refs(f) \cup Copies) = Cardinality(Refs(f)) + Cardinality(Copies)
                                             - Cardinality(Refs(f) \cap Copies)
      BY <2>3, <2>4, FS_Union
    <3>2. Cardinality(Refs(f) \cap Copies) = 0 BY <2>6, FS_EmptySet
    <3>. QED BY <2>1, <2>3, <2>4, <2>8, <3>1, <3>2
  <2>10. f_count'[f] = f_count[f] + Cardinality(Mult(f)) BY <1>2
  <2>. QED BY <2>9, <2>10, Counted
<1>10. HalfOpen' = HalfOpen
  <2>1. \A w \in Proc : pc'[w] \in Opening <=> pc[w] \in Opening
    BY <1>2, <1>3 DEF Opening
  <2>2. \A w \in Proc : pc[w] \in Opening => fds'[w] = fds[w] /\ filp'[w] = filp[w]
    BY <1>2, <1>3 DEF Opening
  <2>. QED BY <1>1, <1>5, <2>1, <2>2, HalfOpenSame
<1>11. \A n \in InodeSlot : Nodes(n)' = Nodes(n)
  <2>1. ASSUME NEW f \in File PROVE Node(f)' = Node(f)
    <3>1. f_count'[f] = f_count[f] + Cardinality(Mult(f)) /\ f_count[f] \in Nat
      BY <1>1, <1>2 DEF FilesTypeOK
    <3>2. f_count[f] = 0 => Mult(f) = {}
      <4> SUFFICES ASSUME NEW d \in Fd, filp[t][d] = f PROVE f_count[f] > 0
        BY <3>1
      <4>1. filp[t][d] # NULL BY FilesConstants
      <4>. QED BY <4>1, Counted
    <3>3. f_count[f] = 0 <=> f_count'[f] = 0
      BY <1>4, <3>1, <3>2, FS_EmptySet
    <3>. QED BY <1>2, <1>10, <3>3 DEF Node
  <2>. QED BY <2>1 DEF Nodes
<1>12. ~of_setup.faults => \A n \in InodeSlot : i_count'[n] = Cardinality(Nodes(n)')
                                        + Cardinality(Busy(n)') + Cardinality(Cwd(n)')
  <2> SUFFICES ASSUME ~of_setup.faults, NEW n \in InodeSlot
               PROVE  i_count'[n] = Cardinality(Nodes(n)') + Cardinality(Busy(n)')
                                    + Cardinality(Cwd(n)')
    OBVIOUS
  <2>1. /\ Cardinality(Busy(n)') = Cardinality(Busy(n)) + (IF inode'[u] = n THEN 1 ELSE 0)
                                                       - (IF inode[u] = n THEN 1 ELSE 0)
        /\ Cardinality(Cwd(n)') = Cardinality(Cwd(n)) + (IF pwd'[u] = n THEN 1 ELSE 0)
                                                       - (IF pwd[u] = n THEN 1 ELSE 0)
    <3>1. \A w \in Proc \ {u} : pwd'[w] = pwd[w] /\ inode'[w] = inode[w] BY <1>2, <1>3
    <3>. QED BY <3>1, OneTask
  <2>2. inode'[u] # n /\ inode[u] # n /\ pwd[u] # n /\ pwd'[u] = pwd[t]
    BY <1>2, <1>3, OpenFilesAssumption
  <2>3. i_count'[n] = i_count[n] + (IF pwd[t] = n THEN 1 ELSE 0)
    BY <1>1, <1>2, <1>3 DEF FilesTypeOK
  <2>4. /\ i_count[n] = Cardinality(Nodes(n)) + Cardinality(Busy(n)) + Cardinality(Cwd(n))
        /\ Cardinality(Nodes(n)) \in Nat /\ Cardinality(Busy(n)) \in Nat
        /\ Cardinality(Cwd(n)) \in Nat
    BY <1>1, FilesCounted, NodesIs
  <2>. QED BY <1>11, <2>1, <2>2, <2>3, <2>4
<1>. QED BY <1>2, <1>5, <1>6, <1>7, <1>8, <1>9, <1>12, FilesSound

-----------------------------------------------------------------------------
(* The steps about inodes. *)

LEMMA HeldKeeps ==
    ASSUME FilesInv, NEW t \in Proc,
           \/ OpenRefused(t) \/ OpenNameiFails(t) \/ PipeFails(t)
    PROVE  FilesInv'
<1>1. FilesTypeOK /\ TaskOK(t) BY FilesCounted
<1>2. pc[t] \in Opening BY DEF OpenRefused, OpenNameiFails, PipeFails, Opening
<1>3. CASE OpenRefused(t)
  <2>1. pc[t] = "opened" BY <1>3 DEF OpenRefused
  <2>2. inode[t] \in InodeSlot BY <1>1, <2>1 DEF TaskOK
  <2>3. /\ i_count' = [i_count EXCEPT ![inode[t]] = @ - 1]
        /\ inode' = [inode EXCEPT ![t] = NoSlot]
        /\ Unreserve(t) /\ Goto(t, "user")
        /\ UNCHANGED <<of_setup, close_on_exec, pwd, f_inode, after>>
    BY <1>3 DEF OpenRefused
  <2>4. i_count' \in [InodeSlot -> Int] BY <1>1, <2>2, <2>3 DEF FilesTypeOK
  <2>5. \A n \in InodeSlot : i_count'[n] = i_count[n] - (IF inode[t] = n THEN 1 ELSE 0)
    BY <1>1, <2>2, <2>3 DEF FilesTypeOK
  <2>. QED BY <1>2, <2>3, <2>4, <2>5, UnreserveKeeps
<1>4. CASE OpenNameiFails(t) \/ PipeFails(t)
  <2>1. pc[t] \in {"open_namei", "pipe"} BY <1>4 DEF OpenNameiFails, PipeFails
  <2>2. inode[t] = NoSlot BY <1>1, <2>1 DEF TaskOK
  <2>3. /\ Unreserve(t) /\ Goto(t, "user")
        /\ UNCHANGED <<of_setup, close_on_exec, pwd, f_inode, i_count, inode, after>>
    BY <1>4 DEF OpenNameiFails, PipeFails
  <2>4. inode' = [inode EXCEPT ![t] = NoSlot] BY <1>1, <2>2, <2>3 DEF FilesTypeOK
  <2>5. i_count' \in [InodeSlot -> Int] BY <1>1, <2>3 DEF FilesTypeOK
  <2>6. \A n \in InodeSlot : i_count'[n] = i_count[n] - (IF inode[t] = n THEN 1 ELSE 0)
    BY <1>1, <2>2, <2>3, OpenFilesAssumption DEF FilesTypeOK
  <2>. QED BY <1>2, <2>3, <2>4, <2>5, <2>6, UnreserveKeeps
<1>. QED BY <1>3, <1>4

(* A step of a task that is not at a file and changes what inodes it has. *)
LEMMA InodeKeeps ==
    ASSUME FilesInv, NEW t \in Proc,
           \/ PutInode(t) \/ Chdir(t) \/ ChdirFails(t) \/ ExitPut(t)
           \/ \E n \in InodeSlot : OpenNamei(t, n) \/ SysChdir(t, n)
    PROVE  FilesInv'
<1>1. FilesTypeOK /\ TaskOK(t) /\ close_on_exec[t] \subseteq OpenFds(t) BY FilesCounted
<1>2. UNCHANGED <<of_setup, filp, files, close_on_exec, fds>>
  BY DEF PutInode, Chdir, ChdirFails, ExitPut, OpenNamei, SysChdir, tasks, files
<1>3. ASSUME FilesTypeOK', TaskOK(t)',
             \A u \in Proc \ {t} : /\ pwd'[u] = pwd[u] /\ pc'[u] = pc[u]
                                   /\ inode'[u] = inode[u] /\ after'[u] = after[u],
             pc'[t] \in Opening <=> pc[t] \in Opening,
             \A n \in InodeSlot :
                i_count'[n] = i_count[n] + (IF inode'[t] = n THEN 1 ELSE 0)
                    - (IF inode[t] = n THEN 1 ELSE 0) + (IF pwd'[t] = n THEN 1 ELSE 0)
                    - (IF pwd[t] = n THEN 1 ELSE 0)
      PROVE  FilesInv'
  <2>1. HalfOpen' = HalfOpen
    <3>1. \A u \in Proc : pc'[u] \in Opening <=> pc[u] \in Opening BY <1>3
    <3>2. \A u \in Proc : pc[u] \in Opening => fds'[u] = fds[u] /\ filp'[u] = filp[u] BY <1>2
    <3>. QED BY <1>1, <1>3, <3>1, <3>2, HalfOpenSame
  <2>2. \A u \in Proc \ {t} : fds'[u] = fds[u] /\ close_on_exec'[u] = close_on_exec[u] BY <1>2
  <2>. QED BY <1>1, <1>2, <1>3, <2>1, <2>2, TableKept
<1>4. CASE PutInode(t)
  <2>1. /\ pc[t] = "iput" /\ pc' = [pc EXCEPT ![t] = after[t]]
        /\ i_count' = [n \in InodeSlot |-> IF n = inode[t] THEN i_count[n] - 1 ELSE i_count[n]]
        /\ inode' = [inode EXCEPT ![t] = NoSlot] /\ UNCHANGED <<pwd, after>>
    BY <1>4 DEF PutInode, Goto, tasks
  <2>2. after[t] \in {"user", "dup2", "exec", "exit", "zombie"} BY <1>1 DEF FilesTypeOK
  <2>3. FilesTypeOK' BY <1>1, <1>2, <2>1, <2>2 DEF FilesTypeOK, Pcs, files
  <2>4. pc'[t] = after[t] /\ inode'[t] = NoSlot BY <1>1, <2>1 DEF FilesTypeOK
  <2>5. TaskOK(t)' BY <1>1, <1>2, <2>1, <2>2, <2>4 DEF TaskOK, Gone, Opening, OpenFds
  <2>6. \A n \in InodeSlot :
           i_count'[n] = i_count[n] + (IF inode'[t] = n THEN 1 ELSE 0)
               - (IF inode[t] = n THEN 1 ELSE 0) + (IF pwd'[t] = n THEN 1 ELSE 0)
               - (IF pwd[t] = n THEN 1 ELSE 0)
    BY <1>1, <2>1, <2>4, OpenFilesAssumption DEF FilesTypeOK
  <2>7. pc'[t] \in Opening <=> pc[t] \in Opening BY <2>1, <2>2, <2>4 DEF Opening
  <2>8. \A u \in Proc \ {t} : /\ pwd'[u] = pwd[u] /\ pc'[u] = pc[u]
                                   /\ inode'[u] = inode[u] /\ after'[u] = after[u]
    BY <1>1, <2>1 DEF FilesTypeOK
  <2>. QED BY <1>3, <2>3, <2>5, <2>6, <2>7, <2>8
<1>5. CASE Chdir(t)
  <2>1. /\ pc[t] = "chdir" /\ pc' = [pc EXCEPT ![t] = "user"]
        /\ i_count' = [i_count EXCEPT ![pwd[t]] = @ - 1]
        /\ pwd' = [pwd EXCEPT ![t] = inode[t]]
        /\ inode' = [inode EXCEPT ![t] = NoSlot] /\ UNCHANGED after
    BY <1>5 DEF Chdir, Goto
  <2>2. inode[t] \in InodeSlot /\ pwd[t] \in InodeSlot BY <1>1, <2>1 DEF TaskOK, Gone
  <2>3. FilesTypeOK' BY <1>1, <1>2, <2>1, <2>2 DEF FilesTypeOK, Pcs, files
  <2>4. pc'[t] = "user" /\ inode'[t] = NoSlot /\ pwd'[t] = inode[t]
    BY <1>1, <2>1 DEF FilesTypeOK
  <2>5. TaskOK(t)' BY <1>1, <1>2, <2>1, <2>2, <2>4 DEF TaskOK, Gone, Opening, OpenFds
  <2>6. \A n \in InodeSlot :
           i_count'[n] = i_count[n] + (IF inode'[t] = n THEN 1 ELSE 0)
               - (IF inode[t] = n THEN 1 ELSE 0) + (IF pwd'[t] = n THEN 1 ELSE 0)
               - (IF pwd[t] = n THEN 1 ELSE 0)
    <3> SUFFICES ASSUME NEW n \in InodeSlot
                 PROVE  i_count'[n] = i_count[n] + (IF inode'[t] = n THEN 1 ELSE 0)
                          - (IF inode[t] = n THEN 1 ELSE 0) + (IF pwd'[t] = n THEN 1 ELSE 0)
                          - (IF pwd[t] = n THEN 1 ELSE 0)
      OBVIOUS
    <3>1. i_count[n] \in Int /\ i_count'[n] = i_count[n] - (IF pwd[t] = n THEN 1 ELSE 0)
      BY <1>1, <2>1, <2>2 DEF FilesTypeOK
    <3>. QED BY <2>4, <3>1, OpenFilesAssumption
  <2>7. pc'[t] \in Opening <=> pc[t] \in Opening BY <2>1, <2>4 DEF Opening
  <2>8. \A u \in Proc \ {t} : /\ pwd'[u] = pwd[u] /\ pc'[u] = pc[u]
                                   /\ inode'[u] = inode[u] /\ after'[u] = after[u]
    BY <1>1, <2>1 DEF FilesTypeOK
  <2>. QED BY <1>3, <2>3, <2>5, <2>6, <2>7, <2>8
<1>6. CASE ChdirFails(t)
  <2>1. /\ pc[t] = "chdir" /\ pc' = [pc EXCEPT ![t] = "user"]
        /\ i_count' = [i_count EXCEPT ![inode[t]] = @ - 1]
        /\ inode' = [inode EXCEPT ![t] = NoSlot] /\ UNCHANGED <<pwd, after>>
    BY <1>6 DEF ChdirFails, Goto, tasks
  <2>2. inode[t] \in InodeSlot /\ pwd[t] \in InodeSlot BY <1>1, <2>1 DEF TaskOK, Gone
  <2>3. FilesTypeOK' BY <1>1, <1>2, <2>1, <2>2 DEF FilesTypeOK, Pcs, files
  <2>4. pc'[t] = "user" /\ inode'[t] = NoSlot BY <1>1, <2>1 DEF FilesTypeOK
  <2>5. TaskOK(t)' BY <1>1, <1>2, <2>1, <2>2, <2>4 DEF TaskOK, Gone, Opening, OpenFds
  <2>6. \A n \in InodeSlot :
           i_count'[n] = i_count[n] + (IF inode'[t] = n THEN 1 ELSE 0)
               - (IF inode[t] = n THEN 1 ELSE 0) + (IF pwd'[t] = n THEN 1 ELSE 0)
               - (IF pwd[t] = n THEN 1 ELSE 0)
    BY <1>1, <2>1, <2>2, <2>4, OpenFilesAssumption DEF FilesTypeOK
  <2>7. pc'[t] \in Opening <=> pc[t] \in Opening BY <2>1, <2>4 DEF Opening
  <2>8. \A u \in Proc \ {t} : /\ pwd'[u] = pwd[u] /\ pc'[u] = pc[u]
                                   /\ inode'[u] = inode[u] /\ after'[u] = after[u]
    BY <1>1, <2>1 DEF FilesTypeOK
  <2>. QED BY <1>3, <2>3, <2>5, <2>6, <2>7, <2>8
<1>7. CASE ExitPut(t)
  <2>1. /\ pc[t] = "exit" /\ pc' = [pc EXCEPT ![t] = "iput"] /\ OpenFds(t) = {}
        /\ inode' = [inode EXCEPT ![t] = pwd[t]] /\ pwd' = [pwd EXCEPT ![t] = NoSlot]
        /\ after' = [after EXCEPT ![t] = "zombie"] /\ UNCHANGED i_count
    BY <1>7 DEF ExitPut, Goto
  <2>2. inode[t] = NoSlot /\ pwd[t] \in InodeSlot BY <1>1, <2>1 DEF TaskOK, Gone
  <2>3. FilesTypeOK' BY <1>1, <1>2, <2>1, <2>2 DEF FilesTypeOK, Pcs, files
  <2>4. pc'[t] = "iput" /\ inode'[t] = pwd[t] /\ pwd'[t] = NoSlot /\ after'[t] = "zombie"
    BY <1>1, <2>1 DEF FilesTypeOK
  <2>5. TaskOK(t)' BY <1>1, <1>2, <2>1, <2>2, <2>4 DEF TaskOK, Gone, Opening, OpenFds
  <2>6. \A n \in InodeSlot :
           i_count'[n] = i_count[n] + (IF inode'[t] = n THEN 1 ELSE 0)
               - (IF inode[t] = n THEN 1 ELSE 0) + (IF pwd'[t] = n THEN 1 ELSE 0)
               - (IF pwd[t] = n THEN 1 ELSE 0)
    BY <1>1, <2>1, <2>2, <2>4, OpenFilesAssumption DEF FilesTypeOK
  <2>7. pc'[t] \in Opening <=> pc[t] \in Opening BY <2>1, <2>4 DEF Opening
  <2>8. \A u \in Proc \ {t} : /\ pwd'[u] = pwd[u] /\ pc'[u] = pc[u]
                                   /\ inode'[u] = inode[u] /\ after'[u] = after[u]
    BY <1>1, <2>1 DEF FilesTypeOK
  <2>. QED BY <1>3, <2>3, <2>5, <2>6, <2>7, <2>8
<1>8. ASSUME NEW n \in InodeSlot, OpenNamei(t, n) \/ SysChdir(t, n) PROVE FilesInv'
  <2>1. /\ \/ pc[t] = "open_namei" /\ pc' = [pc EXCEPT ![t] = "opened"]
           \/ pc[t] = "user" /\ pc' = [pc EXCEPT ![t] = "chdir"]
        /\ i_count' = [i_count EXCEPT ![n] = @ + 1]
        /\ inode' = [inode EXCEPT ![t] = n] /\ UNCHANGED <<pwd, after>>
    BY <1>8 DEF OpenNamei, SysChdir, Calls, Goto, tasks
  <2>2. inode[t] = NoSlot /\ pwd[t] \in InodeSlot BY <1>1, <2>1 DEF TaskOK, Gone
  <2>3. FilesTypeOK'
    <3>1. pc' \in [Proc -> Pcs] BY <1>1, <2>1 DEF FilesTypeOK, Pcs
    <3>2. i_count' \in [InodeSlot -> Int] BY <1>1, <2>1 DEF FilesTypeOK
    <3>3. inode' \in [Proc -> InodeSlot \cup {NoSlot}] BY <1>1, <2>1 DEF FilesTypeOK
    <3>. QED BY <1>1, <1>2, <2>1, <3>1, <3>2, <3>3 DEF FilesTypeOK, files
  <2>4. /\ \/ pc[t] = "open_namei" /\ pc'[t] = "opened"
           \/ pc[t] = "user" /\ pc'[t] = "chdir"
        /\ inode'[t] = n
    BY <1>1, <2>1 DEF FilesTypeOK
  <2>5. TaskOK(t)'
    <3>1. pc[t] \in Opening => Reserved(t)' BY <1>1, <1>2 DEF TaskOK, Reserved
    <3>2. pc'[t] = "opened" => \E d \in Fd : fds'[t] = {d} BY <1>1, <1>2, <2>4 DEF TaskOK
    <3>. QED BY <1>2, <2>1, <2>2, <2>4, <3>1, <3>2 DEF TaskOK, Gone, Opening, OpenFds
  <2>6. \A m \in InodeSlot :
           i_count'[m] = i_count[m] + (IF inode'[t] = m THEN 1 ELSE 0)
               - (IF inode[t] = m THEN 1 ELSE 0) + (IF pwd'[t] = m THEN 1 ELSE 0)
               - (IF pwd[t] = m THEN 1 ELSE 0)
    BY <1>1, <2>1, <2>2, <2>4, OpenFilesAssumption DEF FilesTypeOK
  <2>7. pc'[t] \in Opening <=> pc[t] \in Opening BY <2>4 DEF Opening
  <2>8. \A u \in Proc \ {t} : /\ pwd'[u] = pwd[u] /\ pc'[u] = pc[u]
                                   /\ inode'[u] = inode[u] /\ after'[u] = after[u]
    BY <1>1, <2>1 DEF FilesTypeOK
  <2>. QED BY <1>3, <2>3, <2>5, <2>6, <2>7, <2>8
<1>. QED BY <1>4, <1>5, <1>6, <1>7, <1>8

(* A step of a task that keeps its inodes. *)
LEMMA PlaceKeeps ==
    ASSUME FilesInv, NEW t \in Proc,
           \/ KilledByFault(t) \/ Exec(t) \/ ExecDone(t) \/ Exit(t) \/ Release(t)
           \/ \E fd \in Fd : SetFd(t, fd)
    PROVE  FilesInv'
<1>1. FilesTypeOK /\ TaskOK(t) /\ close_on_exec[t] \subseteq OpenFds(t) BY FilesCounted
<1>2. UNCHANGED <<of_setup, filp, files, pwd, i_count, inode>>
  BY DEF KilledByFault, Exec, ExecDone, Exit, Release, SetFd, tasks, files, local
<1>3. /\ \A u \in Proc \ {t} : /\ pc'[u] = pc[u] /\ after'[u] = after[u] /\ fds'[u] = fds[u]
                                /\ close_on_exec'[u] = close_on_exec[u]
      /\ FilesTypeOK' /\ TaskOK(t)' /\ close_on_exec'[t] \subseteq OpenFds(t)
      /\ ~of_setup.faults => (pc'[t] \in Opening <=> pc[t] \in Opening) /\ fds' = fds
  <2>1. CASE KilledByFault(t)
    <3>1. /\ of_setup.faults /\ pc[t] = "open_namei" /\ fds' = [fds EXCEPT ![t] = {}]
          /\ pc' = [pc EXCEPT ![t] = "exit"] /\ UNCHANGED <<close_on_exec, after>>
      BY <2>1 DEF KilledByFault, Goto, tasks
    <3>2. FilesTypeOK' BY <1>1, <1>2, <3>1 DEF FilesTypeOK, Pcs, files
    <3>3. pc'[t] = "exit" /\ fds'[t] = {} BY <1>1, <3>1 DEF FilesTypeOK
    <3>4. TaskOK(t)' BY <1>1, <1>2, <3>1, <3>3 DEF TaskOK, Gone, Opening
    <3>. QED BY <1>1, <3>1, <3>2, <3>4 DEF FilesTypeOK
  <2>2. CASE Exec(t) \/ ExecDone(t) \/ Exit(t)
    <3>1. /\ pc[t] \in {"user", "exec"} /\ UNCHANGED <<close_on_exec, fds, after>>
          /\ \E l \in {"user", "exec", "exit"} : pc' = [pc EXCEPT ![t] = l]
      BY <2>2 DEF Exec, ExecDone, Exit, Goto, Calls, tasks, local
    <3>2. FilesTypeOK' BY <1>1, <1>2, <3>1 DEF FilesTypeOK, Pcs, files
    <3>3. pc'[t] \in {"user", "exec", "exit"} BY <1>1, <3>1 DEF FilesTypeOK
    <3>4. TaskOK(t)' BY <1>1, <1>2, <3>1, <3>3 DEF TaskOK, Gone, Opening
    <3>5. pc'[t] \in Opening <=> pc[t] \in Opening BY <3>1, <3>3 DEF Opening
    <3>. QED BY <1>1, <3>1, <3>2, <3>4, <3>5 DEF FilesTypeOK
  <2>3. CASE Release(t)
    <3>1. /\ pc[t] = "zombie" /\ after' = [after EXCEPT ![t] = "user"]
          /\ close_on_exec' = [close_on_exec EXCEPT ![t] = {}]
          /\ pc' = [pc EXCEPT ![t] = "unborn"] /\ UNCHANGED fds
      BY <2>3 DEF Release, Goto
    <3>2. FilesTypeOK' BY <1>1, <1>2, <3>1 DEF FilesTypeOK, Pcs, files
    <3>3. pc'[t] = "unborn" /\ close_on_exec'[t] = {} BY <1>1, <3>1 DEF FilesTypeOK
    <3>4. TaskOK(t)' BY <1>1, <1>2, <3>1, <3>3 DEF TaskOK, Gone, Opening, OpenFds
    <3>5. pc'[t] \in Opening <=> pc[t] \in Opening BY <3>1, <3>3 DEF Opening
    <3>. QED BY <1>1, <3>1, <3>2, <3>3, <3>4, <3>5 DEF FilesTypeOK
  <2>4. ASSUME NEW fd \in Fd, SetFd(t, fd)
        PROVE  /\ \A u \in Proc \ {t} : /\ pc'[u] = pc[u] /\ after'[u] = after[u]
                                       /\ fds'[u] = fds[u]
                                       /\ close_on_exec'[u] = close_on_exec[u]
               /\ FilesTypeOK' /\ TaskOK(t)' /\ close_on_exec'[t] \subseteq OpenFds(t)
               /\ (pc'[t] \in Opening <=> pc[t] \in Opening) /\ fds' = fds
    <3>1. /\ pc[t] = "user" /\ filp[t][fd] # NULL /\ UNCHANGED <<pc, fds, after>>
          /\ \E on \in BOOLEAN : close_on_exec' =
                [close_on_exec EXCEPT ![t] = IF on THEN @ \cup {fd} ELSE @ \ {fd}]
      BY <2>4 DEF SetFd, Calls, local
    <3>2. close_on_exec' \in [Proc -> SUBSET Fd] BY <1>1, <3>1 DEF FilesTypeOK
    <3>3. FilesTypeOK' BY <1>1, <1>2, <3>1, <3>2 DEF FilesTypeOK, files
    <3>4. TaskOK(t)' BY <1>1, <1>2, <3>1 DEF TaskOK, Gone, Opening, OpenFds
    <3>5. close_on_exec'[t] \subseteq close_on_exec[t] \cup {fd}
          /\ \A u \in Proc \ {t} : close_on_exec'[u] = close_on_exec[u]
      BY <1>1, <3>1 DEF FilesTypeOK
    <3>6. close_on_exec'[t] \subseteq OpenFds(t) BY <1>1, <3>1, <3>5 DEF OpenFds
    <3>. QED BY <3>1, <3>3, <3>4, <3>5, <3>6
  <2>. QED BY <2>1, <2>2, <2>3, <2>4
<1>4. ~of_setup.faults => HalfOpen' = HalfOpen
  <2> SUFFICES ASSUME ~of_setup.faults PROVE HalfOpen' = HalfOpen OBVIOUS
  <2>1. \A u \in Proc : pc'[u] \in Opening <=> pc[u] \in Opening BY <1>3
  <2>2. \A u \in Proc : pc[u] \in Opening => fds'[u] = fds[u] /\ filp'[u] = filp[u] BY <1>2, <1>3
  <2>. QED BY <1>1, <1>3, <2>1, <2>2, HalfOpenSame
<1>5. \A n \in InodeSlot :
         ~of_setup.faults =>
             i_count'[n] = i_count[n] + (IF inode'[t] = n THEN 1 ELSE 0)
               - (IF inode[t] = n THEN 1 ELSE 0) + (IF pwd'[t] = n THEN 1 ELSE 0)
               - (IF pwd[t] = n THEN 1 ELSE 0)
  BY <1>1, <1>2 DEF FilesTypeOK
<1>6. \A u \in Proc \ {t} : pwd'[u] = pwd[u] /\ inode'[u] = inode[u] BY <1>2
<1>. QED BY <1>2, <1>3, <1>4, <1>5, <1>6, TableKept

(* The second half of dup2, and the steps that close or copy a descriptor. *)
LEMMA TableKeeps ==
    ASSUME FilesInv, NEW t \in Proc,
           \/ Dup2(t) \/ ExecClose(t) \/ ExitClose(t) \/ SysOpen(t) \/ SysPipe(t)
           \/ \E fd \in Fd : SysClose(t, fd)
           \/ \E fd, d \in Fd : SysDup(t, fd, d) \/ SysDup2(t, fd, d)
    PROVE  FilesInv'
<1>1. FilesTypeOK /\ TaskOK(t) /\ close_on_exec[t] \subseteq OpenFds(t) BY FilesCounted
<1>2. CASE SysOpen(t) \/ SysPipe(t)
  <2>1. /\ pc[t] = "user"
        /\ UNCHANGED <<of_setup, pwd, f_inode, i_count, inode, after>>
        /\ \/ Reserve(t, 1, "open_namei")
              /\ close_on_exec' = [close_on_exec EXCEPT ![t] = @ \ Lowest(FreeFds(t), 1)]
           \/ Reserve(t, 2, "pipe") /\ UNCHANGED close_on_exec
    BY <1>2 DEF SysOpen, SysPipe, Calls
  <2>2. /\ close_on_exec' \in [Proc -> SUBSET Fd]
        /\ \A u \in Proc : close_on_exec'[u] \subseteq close_on_exec[u]
    BY <1>1, <2>1 DEF FilesTypeOK
  <2>3. CASE Reserve(t, 1, "open_namei") BY <2>1, <2>2, <2>3, ReserveKeeps
  <2>4. CASE Reserve(t, 2, "pipe") BY <2>1, <2>2, <2>4, ReserveKeeps
  <2>. QED BY <2>1, <2>3, <2>4
<1>3. CASE ExecClose(t) \/ ExitClose(t) \/ \E fd \in Fd : SysClose(t, fd)
  <2>1. PICK fd \in Fd, l \in {"user", "exec", "exit"} :
           CloseFd(t, fd, l) /\ pc[t] \in {"user", "exec", "exit"} /\ fds' = fds
    <3>1. \A d \in Lowest(close_on_exec[t], 1) : d \in Fd BY <1>1 DEF Lowest, FilesTypeOK
    <3>2. \A d \in Lowest(OpenFds(t), 1) : d \in Fd BY DEF Lowest, OpenFds
    <3>. QED BY <1>3, <3>1, <3>2 DEF ExecClose, ExitClose, SysClose, Calls
  <2>2. fds' \in [Proc -> SUBSET Fd] BY <1>1, <2>1 DEF FilesTypeOK
  <2>. QED BY <2>1, <2>2, CloseKeeps
<1>4. ASSUME NEW fd \in Fd, NEW d \in Fd, SysDup2(t, fd, d) PROVE FilesInv'
  <2>1. /\ pc[t] = "user" /\ CloseFd(t, d, "dup2") /\ fds' = [fds EXCEPT ![t] = {fd, d}]
    BY <1>4 DEF SysDup2, Calls
  <2>2. fds' \in [Proc -> SUBSET Fd] /\ \A u \in Proc \ {t} : fds'[u] = fds[u]
    BY <1>1, <2>1 DEF FilesTypeOK
  <2>. QED BY <2>1, <2>2, CloseKeeps
<1>5. ASSUME NEW fd \in Fd, NEW d \in Fd, SysDup(t, fd, d) PROVE FilesInv'
  <2>1. pc[t] = "user" /\ DupFd(t, fd, d) /\ UNCHANGED <<pc, fds>>
    BY <1>5 DEF SysDup, Calls
  <2>2. pc' = [pc EXCEPT ![t] = "user"] /\ fds' \in [Proc -> SUBSET Fd]
    BY <1>1, <2>1 DEF FilesTypeOK
  <2>. QED BY <2>1, <2>2, DupKeeps
<1>6. CASE Dup2(t)
  <2>1. /\ pc[t] = "dup2" /\ pc' = [pc EXCEPT ![t] = "user"] /\ fds' = [fds EXCEPT ![t] = {}]
    BY <1>6 DEF Dup2, Goto
  <2>2. fds' \in [Proc -> SUBSET Fd] /\ \A u \in Proc \ {t} : fds'[u] = fds[u]
    BY <1>1, <2>1 DEF FilesTypeOK
  <2>3. CASE \E old, new \in fds[t] : filp[t][old] # NULL /\ filp[t][new] = NULL
    <3>1. PICK old, new \in fds[t] : DupFd(t, old, new) BY <1>6, <2>3 DEF Dup2
    <3>2. old \in Fd /\ new \in Fd BY <1>1 DEF FilesTypeOK
    <3>. QED BY <2>1, <2>2, <3>1, <3>2, DupKeeps
  <2>4. CASE ~ \E old, new \in fds[t] : filp[t][old] # NULL /\ filp[t][new] = NULL
    <3>1. UNCHANGED <<of_setup, filp, close_on_exec, f_count, pwd, f_inode, i_count, inode, after>>
      BY <1>6, <2>4 DEF Dup2
    <3>2. FilesTypeOK' BY <1>1, <2>1, <2>2, <3>1 DEF FilesTypeOK, Pcs
    <3>3. pc'[t] = "user" /\ \A u \in Proc \ {t} : pc'[u] = pc[u] BY <1>1, <2>1 DEF FilesTypeOK
    <3>4. TaskOK(t)' BY <1>1, <2>1, <3>1, <3>3 DEF TaskOK, Gone, Opening
    <3>5. HalfOpen' = HalfOpen
      <4>1. \A u \in Proc : pc'[u] \in Opening <=> pc[u] \in Opening
        BY <2>1, <3>3 DEF Opening
      <4>2. \A u \in Proc : pc[u] \in Opening => fds'[u] = fds[u] /\ filp'[u] = filp[u]
        BY <2>1, <2>2, <3>1 DEF Opening
      <4>. QED BY <1>1, <3>2, <4>1, <4>2, HalfOpenSame
    <3>6. \A n \in InodeSlot :
             i_count'[n] = i_count[n] + (IF inode'[t] = n THEN 1 ELSE 0)
                 - (IF inode[t] = n THEN 1 ELSE 0) + (IF pwd'[t] = n THEN 1 ELSE 0)
                 - (IF pwd[t] = n THEN 1 ELSE 0)
      BY <1>1, <3>1 DEF FilesTypeOK
    <3>7. close_on_exec'[t] \subseteq OpenFds(t) BY <1>1, <3>1
    <3>. QED BY <2>2, <3>1, <3>2, <3>3, <3>4, <3>5, <3>6, <3>7, TableKept DEF files
  <2>. QED BY <2>3, <2>4
<1>. QED BY <1>2, <1>3, <1>4, <1>5, <1>6

-----------------------------------------------------------------------------
LEMMA FilesInit == OfInit => FilesInv
<1> SUFFICES ASSUME OfInit PROVE FilesInv
  OBVIOUS
<1>1. PICK root \in InodeSlot :
         /\ pwd = [t \in Proc |-> IF t = init THEN root ELSE NoSlot]
         /\ i_count = [n \in InodeSlot |-> IF n = root THEN 1 ELSE 0]
  BY DEF OfInit
<1>2. FilesTypeOK
  BY <1>1 DEF OfInit, FilesTypeOK, Pcs
<1>3. \A t \in Proc : TaskOK(t)
  BY <1>1 DEF OfInit, TaskOK, Opening, Gone, OpenFds
<1>4. DescriptorsExact
  <2>1. \A f \in File : {r \in Proc \X Fd : filp[r[1]][r[2]] = f} = {}
    BY FilesConstants DEF OfInit
  <2>. QED BY <2>1, FS_EmptySet DEF OfInit, DescriptorsExact
<1>5. InodesCounted
  <2> SUFFICES ASSUME NEW n \in InodeSlot
               PROVE  i_count[n] = Cardinality(Nodes(n)) + Cardinality(Busy(n)) + Cardinality(Cwd(n))
    BY <1>2, Counts
  <2>1. Nodes(n) = {}
    BY OpenFilesAssumption DEF OfInit, Nodes, Node
  <2>2. Busy(n) = {}
    BY OpenFilesAssumption DEF OfInit, Busy
  <2>3. Cwd(n) = IF n = root THEN {init} ELSE {}
    BY <1>1, OpenFilesAssumption DEF Cwd
  <2>4. Cardinality(Cwd(n)) = i_count[n]
    BY <1>1, <2>3, FS_EmptySet, FS_Singleton
  <2>5. i_count[n] \in Int BY <1>2 DEF FilesTypeOK
  <2>. QED BY <2>1, <2>2, <2>4, <2>5, FS_EmptySet
<1>. QED BY <1>2, <1>3, <1>4, <1>5 DEF FilesInv, DescriptorsSound

LEMMA FilesNext == FilesInv /\ [OfNext]_of_vars => FilesInv'
<1> SUFFICES ASSUME FilesInv, [OfNext]_of_vars PROVE FilesInv'
  OBVIOUS
<1>1. CASE UNCHANGED of_vars
  BY <1>1 DEF of_vars, FilesInv, FilesTypeOK, TaskOK, Reserved, Gone, OpenFds, DescriptorsSound,
              DescriptorsExact, InodesCounted, HalfOpen, Mine
<1>2. ASSUME NEW t \in Proc,
             \/ SysOpen(t) \/ OpenNameiFails(t) \/ Opened(t) \/ OpenRefused(t) \/ KilledByFault(t)
             \/ SysPipe(t) \/ PipeFails(t) \/ PutInode(t) \/ Dup2(t)
             \/ Chdir(t) \/ ChdirFails(t)
             \/ Exec(t) \/ ExecClose(t) \/ ExecDone(t)
             \/ Exit(t) \/ ExitClose(t) \/ ExitPut(t) \/ Release(t)
      PROVE  FilesInv'
  BY <1>2, HeldKeeps, InodeKeeps, PlaceKeeps, TableKeeps, OpenedKeeps
<1>3. ASSUME NEW t \in Proc, NEW n \in InodeSlot,
             OpenNamei(t, n) \/ PipeDone(t, n) \/ SysChdir(t, n)
      PROVE  FilesInv'
  BY <1>3, InodeKeeps, PipeKeeps
<1>4. ASSUME NEW t \in Proc, NEW u \in Proc, CopyFiles(t, u) PROVE FilesInv'
  BY <1>4, ForkKeeps
<1>5. ASSUME NEW t \in Proc, NEW fd \in Fd, SysClose(t, fd) \/ SetFd(t, fd) PROVE FilesInv'
  BY <1>5, TableKeeps, PlaceKeeps
<1>6. ASSUME NEW t \in Proc, NEW fd \in Fd, NEW d \in Fd,
             SysDup(t, fd, d) \/ SysDup2(t, fd, d)
      PROVE  FilesInv'
  BY <1>6, TableKeeps
<1>7. ASSUME NEW t \in Proc, IPutPanics(t) PROVE FilesInv'
  BY <1>1, <1>7 DEF IPutPanics
<1>. QED BY <1>1, <1>2, <1>3, <1>4, <1>5, <1>6, <1>7 DEF OfNext

(* Whatever open, pipe, dup, fork, exec, close, chdir and exit do while    *)
(* others sleep in them, a file that is being opened stays reserved for    *)
(* the task that opens it, and all references are counted.                 *)
THEOREM FilesInvariant == OfSpec => []FilesInv
BY FilesInit, FilesNext, PTL DEF OfSpec

(* f_count is the number of descriptors that stand for a file, and unless  *)
(* a page fault kills a task in open (which leaves its inodes counted),    *)
(* i_count the number of files, directories and system calls that use an   *)
(* inode: sys_close and iput free neither too early nor never.             *)
THEOREM FilesSafety == OfSpec => []DescriptorsSound
<1>1. FilesInv => DescriptorsSound BY DEF FilesInv
<1>. QED BY <1>1, FilesInvariant, PTL

-----------------------------------------------------------------------------
(* The inodes in memory. *)

CallPcs == {"user", "wait_iget", "read_inode", "iput", "iput_synced", "truncate", "write_inode",
        "written", "sync_inodes", "invalidate", "read_super", "reading_super"}
Entry == [id : Inode \cup {NoInode}, i_count : Nat, i_dirt : BOOLEAN, i_lock : BOOLEAN,
          i_mount : BOOLEAN, val : {Unlinked} \cup Version]
Locals == [pc : CallPcs, slot : Slot \cup {None}, empty : Slot \cup {None}, want : Inode \cup {NoInode},
           n : Slot, by : {"iput", "sync"}, then : {"return", "iput", "umount"}]

TableTypeOK ==
    /\ setup \in Setups
    /\ inode_table \in [Slot -> Entry]
    /\ imap \in SUBSET Inode
    /\ disk \in [Inode -> {Unlinked} \cup Version]
    /\ written \in [Inode -> {Unlinked} \cup Version]
    /\ sb \in [s_dev : BOOLEAN, s_lock : BOOLEAN, s_imount : Slot \cup {None}]
    /\ k \in [Task -> Locals]
    /\ held \in [Task -> Slot \cup {None}]

Work(t) == IF k[t].pc \in {"user", "wait_iget"} \/ k[t].then = "umount" THEN None ELSE k[t].slot
Writing(t) == k[t].pc \in {"write_inode", "written"}
(* The inode a task has locked. *)
Locks(t) ==
    IF k[t].pc = "read_inode" \/ (Writing(t) /\ k[t].by = "iput") THEN k[t].slot
    ELSE IF Writing(t) THEN k[t].n ELSE None
(* The slot nobody else has a reference to. *)
Sole(t) ==
    IF k[t].pc = "wait_iget" THEN k[t].empty
    ELSE IF k[t].pc \in {"read_inode", "truncate"} \/ (Writing(t) /\ k[t].by = "iput")
    THEN k[t].slot ELSE None
(* Inodes that may be freed. *)
Freeable(i) == setup.unlink # {} /\ i \notin setup.dirs \cup {Root}
Id(s) == inode_table[s].id

(* A file that may be unlinked, while it is looked up. *)
Unheld(i) == Freeable(i) => \A s \in Slot : Id(s) = i =>
                inode_table[s].val # Unlinked /\ \A u \in Task : held[u] # s

CallOK(t) ==
    LET l == k[t] IN
    /\ l.pc = "user" => l = User
    /\ Sole(t) # None => inode_table[Sole(t)].i_count = 1
    /\ l.pc = "wait_iget" <=> l.empty # None
    /\ l.pc = "wait_iget" =>
         /\ l.slot # None /\ l.then = "return" /\ held[t] = None
         /\ Id(l.empty) = NoInode
         /\ l.want \in Inode /\ written[l.want] # Unlinked
         /\ IF l.want = Root THEN /\ sb.s_imount # None
                                  /\ \E i \in setup.dirs : <<t, i>> \in setup.find
                             ELSE <<t, l.want>> \in setup.find
         /\ Unheld(l.want)
    /\ l.pc = "read_inode" =>
         /\ l.then = "return" /\ held[t] = None /\ ~inode_table[l.slot].i_dirt
         /\ Id(l.slot) = Root \/ <<t, Id(l.slot)>> \in setup.find
    /\ l.pc \in {"read_inode", "iput", "iput_synced", "truncate", "read_super", "reading_super"}
         => l.slot # None
    /\ Locks(t) # None => inode_table[Locks(t)].i_lock /\ Id(Locks(t)) # NoInode
    /\ Writing(t) => l.want = Id(Locks(t))
    /\ Writing(t) /\ l.by = "iput" =>
         l.slot # None /\ inode_table[l.slot].val # Unlinked
    /\ (Writing(t) /\ l.by = "sync") \/ l.pc = "sync_inodes" =>
         /\ setup.unlink = {}
         /\ \/ l.then = "iput" /\ l.slot # None /\ Id(l.slot) \in setup.blk
            \/ l.then = "return" /\ l.slot = None
    /\ l.pc = "iput_synced" => Id(l.slot) \in setup.blk /\ l.then = "return"
    /\ l.then = "iput" => (Writing(t) /\ l.by = "sync") \/ l.pc = "sync_inodes"
    /\ l.pc = "truncate" =>
         /\ Id(l.slot) \in Inode /\ Freeable(Id(l.slot))
         /\ inode_table[l.slot].val = Unlinked
         /\ l.then = "return"
    /\ l.then = "umount" => /\ l.pc = "iput" \/ (Writing(t) /\ l.by = "iput")
                            /\ l.slot = sb.s_imount /\ l.slot # None /\ t \in setup.umount
                            /\ ~inode_table[l.slot].i_mount
    /\ l.pc \in {"read_super", "reading_super"} => Id(l.slot) \in setup.dirs /\ l.then = "return"
    /\ l.pc = "reading_super" => sb.s_lock
    /\ l.pc = "invalidate" => l.slot = None /\ l.then = "return"

(* No two tasks lock an inode, or mount, at once. *)
Apart == \A t, u \in Task : t # u =>
            /\ Locks(t) # None => Locks(t) # Locks(u)
            /\ ~(k[t].pc = "reading_super" /\ k[u].pc = "reading_super")
LockedBy == \A s \in Slot : inode_table[s].i_lock => \E t \in Task : Locks(t) = s

SuperOK ==
    /\ sb.s_lock => sb.s_imount = None /\ sb.s_dev
    /\ sb.s_imount # None => sb.s_dev /\ Id(sb.s_imount) \in setup.dirs

Reading(s) == \E t \in Task : k[t].pc = "read_inode" /\ k[t].slot = s

SlotOK(s) ==
    LET i == inode_table[s] IN
    /\ i.i_count = 0 => ~i.i_dirt /\ ~i.i_lock
    /\ i.id = NoInode => ~i.i_dirt /\ ~i.i_lock
    /\ i.i_mount => sb.s_imount = s
    /\ i.i_count = Users(s)
    /\ i.id # NoInode =>
         /\ i.id \in imap
         /\ IF Reading(s) THEN i.id # Root => disk[i.id] = written[i.id] /\ written[i.id] # Unlinked
                          ELSE /\ i.id # Root => i.val = written[i.id]
                               /\ ~i.i_dirt => disk[i.id] = i.val
                               /\ ~Freeable(i.id) => i.val # Unlinked

InodeOK(i) ==
    /\ ~Freeable(i) => disk[i] # Unlinked
    /\ written[i] # Unlinked => i \in imap
    /\ i # Root /\ written[i] # Unlinked => disk[i] = written[i] \/ \E s \in Slot : Id(s) = i
    /\ i \in setup.dirs \cup setup.blk \cup {Root} => i \in imap /\ written[i] # Unlinked

OneSlot == \A s, x \in Slot : Id(s) = Id(x) /\ Id(s) # NoInode => s = x

TableParts ==
      /\ TableTypeOK /\ ~panicked /\ SuperOK /\ Apart /\ LockedBy
      /\ \A t \in Task : CallOK(t)
      /\ \A s \in Slot : SlotOK(s)
      /\ \A i \in Inode : InodeOK(i)
      /\ OneSlot

TableInv == Careful(setup) => TableParts

LEMMA TableConstants ==
    /\ IsFiniteSet(Task) /\ Slot \subseteq Nat /\ None \notin Slot
    /\ NoInode \notin Inode /\ Root \in Inode
BY InodeAssumption DEF Slot, None

(* Two elements of a finite set are counted. *)
LEMMA AtLeast ==
    ASSUME NEW T, IsFiniteSet(T), NEW a, NEW b, a # b
    PROVE  /\ Cardinality(T) \in Nat
           /\ Cardinality(T) >= (IF a \in T THEN 1 ELSE 0) + (IF b \in T THEN 1 ELSE 0)
<1>1. Cardinality(T) \in Nat BY FS_CardinalityType
<1>2. ASSUME NEW x \in T PROVE Cardinality(T) >= 1 /\ Cardinality(T \ {x}) = Cardinality(T) - 1
                               /\ IsFiniteSet(T \ {x}) /\ Cardinality(T \ {x}) \in Nat
  <2>1. IsFiniteSet(T \ {x}) /\ Cardinality(T \ {x}) = Cardinality(T) - 1
    BY FS_RemoveElement
  <2>2. Cardinality(T \ {x}) \in Nat BY <2>1, FS_CardinalityType
  <2>. QED BY <1>1, <2>1, <2>2
<1>3. CASE a \in T /\ b \in T
  <2>1. b \in T \ {a} BY <1>3
  <2>2. Cardinality(T \ {a}) # 0 BY <1>2, <1>3, <2>1, FS_EmptySet
  <2>. QED BY <1>1, <1>2, <1>3, <2>2
<1>4. CASE a \in T /\ b \notin T
  <2>1. Cardinality(T) >= 1 BY <1>2, <1>4
  <2>. QED BY <1>1, <1>4, <2>1
<1>5. CASE a \notin T /\ b \in T
  <2>1. Cardinality(T) >= 1 BY <1>2, <1>5
  <2>. QED BY <1>1, <1>5, <2>1
<1>6. CASE a \notin T /\ b \notin T BY <1>1, <1>6
<1>. QED BY <1>3, <1>4, <1>5, <1>6

-----------------------------------------------------------------------------
Held(s) == {t \in Task : held[t] = s}
Taken(s) == {t \in Task : k[t].empty = s}
Worked(s) == {t \in Task : Work(t) = s}
(* Task t has a reference to the inode in slot s. *)
Uses(t, s) == held[t] = s \/ k[t].empty = s \/ Work(t) = s

LEMMA UsersIs ==
    ASSUME NEW s \in Slot
    PROVE  /\ Users(s) = Cardinality(Held(s)) + Cardinality(Taken(s)) + Cardinality(Worked(s))
                         + (IF sb.s_imount = s THEN 1 ELSE 0)
           /\ Users(s)' = Cardinality(Held(s)') + Cardinality(Taken(s)') + Cardinality(Worked(s)')
                         + (IF sb'.s_imount = s THEN 1 ELSE 0)
<1>1. s # None BY TableConstants
<1>2. Worked(s) = {t \in Task : k[t].slot = s /\ k[t].then # "umount" /\
                      k[t].pc \notin {"user", "wait_iget"}}
  BY <1>1 DEF Worked, Work
<1>3. Worked(s)' = {t \in Task : k'[t].slot = s /\ k'[t].then # "umount" /\
                      k'[t].pc \notin {"user", "wait_iget"}}
  BY <1>1 DEF Worked, Work
<1>. QED BY <1>2, <1>3 DEF Users, Held, Taken

LEMMA UserSets ==
    ASSUME NEW s
    PROVE  /\ IsFiniteSet(Held(s)) /\ IsFiniteSet(Taken(s)) /\ IsFiniteSet(Worked(s))
           /\ Cardinality(Held(s)) \in Nat /\ Cardinality(Taken(s)) \in Nat
           /\ Cardinality(Worked(s)) \in Nat
<1>1. IsFiniteSet(Held(s)) /\ IsFiniteSet(Taken(s)) /\ IsFiniteSet(Worked(s))
  BY TableConstants, FS_Subset DEF Held, Taken, Worked
<1>. QED BY <1>1, FS_CardinalityType

(* One task, and the super block, give and take references.                *)
LEMMA UsersStep ==
    ASSUME NEW t \in Task, \A u \in Task \ {t} : k'[u] = k[u] /\ held'[u] = held[u], NEW s \in Slot
    PROVE  /\ Users(s) \in Nat
           /\ Users(s)' = Users(s)
                + (IF held'[t] = s THEN 1 ELSE 0) - (IF held[t] = s THEN 1 ELSE 0)
                + (IF k'[t].empty = s THEN 1 ELSE 0) - (IF k[t].empty = s THEN 1 ELSE 0)
                + (IF Work(t)' = s THEN 1 ELSE 0) - (IF Work(t) = s THEN 1 ELSE 0)
                + (IF sb'.s_imount = s THEN 1 ELSE 0) - (IF sb.s_imount = s THEN 1 ELSE 0)
<1>1. \A u \in Task \ {t} : Work(u)' = Work(u) BY DEF Work
<1>2. Cardinality(Held(s)') = Cardinality(Held(s)) + (IF held'[t] = s THEN 1 ELSE 0)
                                                   - (IF held[t] = s THEN 1 ELSE 0)
  <2>1. /\ Held(s) \subseteq Task /\ Held(s)' \subseteq Task
        /\ \A u \in Task \ {t} : u \in Held(s)' <=> u \in Held(s)
        /\ (t \in Held(s) <=> held[t] = s) /\ (t \in Held(s)' <=> held'[t] = s)
    BY DEF Held
  <2>. QED BY <2>1, TableConstants, OneChanged
<1>3. Cardinality(Taken(s)') = Cardinality(Taken(s)) + (IF k'[t].empty = s THEN 1 ELSE 0)
                                                     - (IF k[t].empty = s THEN 1 ELSE 0)
  <2>1. /\ Taken(s) \subseteq Task /\ Taken(s)' \subseteq Task
        /\ \A u \in Task \ {t} : u \in Taken(s)' <=> u \in Taken(s)
        /\ (t \in Taken(s) <=> k[t].empty = s) /\ (t \in Taken(s)' <=> k'[t].empty = s)
    BY DEF Taken
  <2>. QED BY <2>1, TableConstants, OneChanged
<1>4. Cardinality(Worked(s)') = Cardinality(Worked(s)) + (IF Work(t)' = s THEN 1 ELSE 0)
                                                       - (IF Work(t) = s THEN 1 ELSE 0)
  <2>1. /\ Worked(s) \subseteq Task /\ Worked(s)' \subseteq Task
        /\ \A u \in Task \ {t} : u \in Worked(s)' <=> u \in Worked(s)
        /\ (t \in Worked(s) <=> Work(t) = s) /\ (t \in Worked(s)' <=> Work(t)' = s)
    BY <1>1 DEF Worked
  <2>. QED BY <2>1, TableConstants, OneChanged
<1>5. Users(s) \in Nat BY UsersIs, UserSets
<1>. QED BY <1>2, <1>3, <1>4, <1>5, UsersIs, UserSets

(* A slot nobody counts is used by nobody; one that is counted once has    *)
(* one user.                                                               *)
LEMMA UsersAre ==
    ASSUME NEW s \in Slot, NEW t \in Task
    PROVE  /\ Users(s) = 0 => ~Uses(t, s) /\ sb.s_imount # s
           /\ Users(s) = 1 /\ Uses(t, s) =>
                /\ sb.s_imount # s
                /\ held[t] = s => k[t].empty # s /\ Work(t) # s
                /\ Work(t) = s => k[t].empty # s
                /\ \A u \in Task \ {t} : ~Uses(u, s)
           /\ Users(s) = 1 /\ sb.s_imount = s => ~Uses(t, s)
<1>1. PICK x : x \notin Task
  <2>1. \E x : x \notin Task
    <3>1. {y \in Task : y \notin y} \notin Task OBVIOUS
    <3>. QED BY <3>1
  <2>. QED BY <2>1
<1>2. ASSUME NEW u, u # t
      PROVE  Users(s) >= (IF held[t] = s THEN 1 ELSE 0) + (IF u \in Held(s) THEN 1 ELSE 0)
                       + (IF k[t].empty = s THEN 1 ELSE 0) + (IF u \in Taken(s) THEN 1 ELSE 0)
                       + (IF Work(t) = s THEN 1 ELSE 0) + (IF u \in Worked(s) THEN 1 ELSE 0)
                       + (IF sb.s_imount = s THEN 1 ELSE 0)
  <2>1. Cardinality(Held(s)) >= (IF t \in Held(s) THEN 1 ELSE 0) + (IF u \in Held(s) THEN 1 ELSE 0)
    BY <1>2, UserSets, AtLeast
  <2>2. Cardinality(Taken(s)) >= (IF t \in Taken(s) THEN 1 ELSE 0) + (IF u \in Taken(s) THEN 1 ELSE 0)
    BY <1>2, UserSets, AtLeast
  <2>3. Cardinality(Worked(s)) >= (IF t \in Worked(s) THEN 1 ELSE 0) + (IF u \in Worked(s) THEN 1 ELSE 0)
    BY <1>2, UserSets, AtLeast
  <2>4. /\ t \in Held(s) <=> held[t] = s
        /\ t \in Taken(s) <=> k[t].empty = s
        /\ t \in Worked(s) <=> Work(t) = s
    BY DEF Held, Taken, Worked
  <2>. QED BY <2>1, <2>2, <2>3, <2>4, UsersIs, UserSets
<1>3. Users(s) >= (IF held[t] = s THEN 1 ELSE 0) + (IF k[t].empty = s THEN 1 ELSE 0)
                 + (IF Work(t) = s THEN 1 ELSE 0) + (IF sb.s_imount = s THEN 1 ELSE 0)
  <2>1. x \notin Held(s) /\ x \notin Taken(s) /\ x \notin Worked(s) /\ x # t
    BY <1>1 DEF Held, Taken, Worked
  <2>. QED BY <2>1, <1>2
<1>4. ASSUME NEW u \in Task \ {t}, Uses(u, s), Uses(t, s) PROVE Users(s) >= 2
  <2>1. u \in Held(s) \/ u \in Taken(s) \/ u \in Worked(s)
    BY <1>4 DEF Uses, Held, Taken, Worked
  <2>2. Users(s) \in Nat BY UsersIs, UserSets
  <2>. QED BY <1>2, <1>4, <2>1, <2>2 DEF Uses
<1>5. Users(s) \in Nat BY UsersIs, UserSets
<1>. QED BY <1>3, <1>4, <1>5 DEF Uses

-----------------------------------------------------------------------------
LEMMA Typed ==
    ASSUME TableTypeOK
    PROVE  /\ \A s \in Slot : /\ inode_table[s] \in Entry
                              /\ Id(s) \in Inode \cup {NoInode} /\ inode_table[s].i_count \in Nat
                              /\ inode_table[s].i_dirt \in BOOLEAN /\ inode_table[s].i_lock \in BOOLEAN
                              /\ inode_table[s].i_mount \in BOOLEAN
                              /\ inode_table[s].val \in {Unlinked} \cup Version
           /\ \A t \in Task : /\ k[t] \in Locals /\ k[t].pc \in CallPcs
                              /\ k[t].slot \in Slot \cup {None} /\ k[t].empty \in Slot \cup {None}
                              /\ k[t].want \in Inode \cup {NoInode} /\ k[t].n \in Slot
                              /\ k[t].by \in {"iput", "sync"}
                              /\ k[t].then \in {"return", "iput", "umount"}
                              /\ held[t] \in Slot \cup {None}
           /\ sb.s_dev \in BOOLEAN /\ sb.s_lock \in BOOLEAN /\ sb.s_imount \in Slot \cup {None}
<1>1. ASSUME NEW s \in Slot PROVE inode_table[s] \in Entry BY DEF TableTypeOK
<1>2. ASSUME NEW t \in Task PROVE k[t] \in Locals /\ held[t] \in Slot \cup {None} BY DEF TableTypeOK
<1>3. sb \in [s_dev : BOOLEAN, s_lock : BOOLEAN, s_imount : Slot \cup {None}] BY DEF TableTypeOK
<1>. QED BY <1>1, <1>2, <1>3 DEF Entry, Locals, Id

LEMMA UserTyped == User \in Locals /\ Blank \in Entry
<1>1. 1 \in Slot BY InodeAssumption DEF Slot
<1>. QED BY <1>1 DEF User, Locals, CallPcs, Blank, Entry

(* The slot that is counted once is for nobody else.                       *)
LEMMA SoleIs ==
    ASSUME TableParts, NEW u \in Task, Sole(u) # None
    PROVE  /\ Sole(u) \in Slot /\ inode_table[Sole(u)].i_count = 1
           /\ sb.s_imount = Sole(u) => k[u].then = "umount" /\ k[u].pc # "wait_iget"
           /\ held[u] # Sole(u)
           /\ \A v \in Task \ {u} : ~Uses(v, Sole(u))
           /\ Sole(u) = k[u].empty \/ Sole(u) = k[u].slot
<1>1. /\ CallOK(u) /\ k[u].slot \in Slot \cup {None} /\ k[u].empty \in Slot \cup {None} /\ TableTypeOK
  BY Typed DEF TableParts
<1>2. Sole(u) \in Slot /\ inode_table[Sole(u)].i_count = 1
  BY <1>1 DEF Sole, CallOK
<1>3. Users(Sole(u)) = 1 BY <1>2 DEF TableParts, SlotOK
<1>4. k[u].then # "umount" => Uses(u, Sole(u)) /\ (k[u].empty = Sole(u) \/ Work(u) = Sole(u))
  BY <1>1, TableConstants DEF Sole, Uses, Work, Writing
<1>5. k[u].then = "umount" => sb.s_imount = Sole(u) /\ k[u].pc # "wait_iget"
  BY <1>1 DEF Sole, CallOK, Writing
<1>6. ASSUME NEW v \in Task \ {u} PROVE ~Uses(v, Sole(u))
  <2>1. CASE k[u].then # "umount" BY <2>1, <1>2, <1>3, <1>4, UsersAre
  <2>2. CASE k[u].then = "umount" BY <2>2, <1>2, <1>3, <1>5, UsersAre
  <2>. QED BY <2>1, <2>2
<1>7. held[u] # Sole(u)
  <2>1. CASE k[u].then # "umount" BY <2>1, <1>2, <1>3, <1>4, UsersAre
  <2>2. CASE k[u].then = "umount" BY <2>2, <1>2, <1>3, <1>5, UsersAre DEF Uses
  <2>. QED BY <2>1, <2>2
<1>8. sb.s_imount = Sole(u) => k[u].then = "umount"
  BY <1>2, <1>3, <1>4, UsersAre
<1>. QED BY <1>2, <1>5, <1>6, <1>7, <1>8 DEF Sole

(* What a step of another task leaves to u.                                *)
Left(u) ==
    /\ k'[u] = k[u] /\ held'[u] = held[u]
    /\ Sole(u) # None => inode_table'[Sole(u)] = inode_table[Sole(u)]
    /\ Locks(u) # None => inode_table'[Locks(u)].i_lock /\ inode_table'[Locks(u)].id = Id(Locks(u))
    /\ \A x \in Slot : Work(u) = x /\ Id(x) \notin {NoInode, Root} => inode_table'[x].id = Id(x)
    /\ k[u].pc = "wait_iget" => /\ written'[k[u].want] # Unlinked
                                /\ k[u].want = Root => sb'.s_imount # None
                                /\ Unheld(k[u].want)'
    /\ k[u].then = "umount" => sb'.s_imount = sb.s_imount /\ ~inode_table'[k[u].slot].i_mount
    /\ k[u].pc = "reading_super" => sb'.s_lock

LEMMA LeftIs ==
    ASSUME Careful(setup), TableParts, setup' = setup, NEW u \in Task, Left(u)
    PROVE  CallOK(u)' /\ Locks(u)' = Locks(u)
<1>1. /\ CallOK(u) /\ k[u].n \in Slot /\ k[u].slot \in Slot \cup {None} /\ k[u].empty \in Slot \cup {None} /\ TableTypeOK
      /\ k[u].then \in {"return", "iput", "umount"} /\ Id(k[u].slot) = inode_table[k[u].slot].id
      /\ Root \notin setup.dirs \cup setup.blk
  BY Typed DEF TableParts, Id, Careful
<1>2. k'[u] = k[u] /\ held'[u] = held[u] /\ Locks(u)' = Locks(u) /\ Sole(u)' = Sole(u)
  BY DEF Left, Locks, Sole, Writing
<1>3. Sole(u) # None => inode_table'[Sole(u)] = inode_table[Sole(u)] BY DEF Left
<1>4. ASSUME NEW x \in Slot, Work(u) = x, Id(x) \in setup.dirs \cup setup.blk, Id(x) # NoInode
      PROVE  inode_table'[x].id = Id(x)
  BY <1>1, <1>4 DEF Left, Id
<1>5. setup.dirs \cup setup.blk \subseteq Inode /\ NoInode \notin Inode
  BY <1>1, InodeAssumption DEF TableTypeOK
<1>6. k[u].pc = "wait_iget" => /\ inode_table'[k[u].empty].id = NoInode /\ Unheld(k[u].want)'
                              /\ written'[k[u].want] # Unlinked
                              /\ IF k[u].want = Root
                                 THEN /\ sb'.s_imount # None
                                      /\ \E i \in setup.dirs : <<u, i>> \in setup.find
                                 ELSE <<u, k[u].want>> \in setup.find
  BY <1>1, <1>3 DEF CallOK, Left, Id, Sole
<1>7. k[u].pc = "read_inode" => ~inode_table'[k[u].slot].i_dirt
  BY <1>1, <1>3 DEF CallOK, Id, Sole
<1>20. k[u].pc = "read_inode" =>
         inode_table'[k[u].slot].id = Root \/ <<u, inode_table'[k[u].slot].id>> \in setup.find
  BY <1>1, <1>3 DEF CallOK, Id, Sole
<1>8. Locks(u) # None => inode_table'[Locks(u)].i_lock /\ inode_table'[Locks(u)].id # NoInode
  BY <1>1 DEF Left, CallOK, Id
<1>9. /\ Writing(u) => k[u].want = inode_table'[Locks(u)].id
      /\ Writing(u) /\ k[u].by = "iput" => inode_table'[k[u].slot].val # Unlinked
  <2>1. Writing(u) => Locks(u) # None
    BY <1>1, TableConstants DEF Locks, Writing, CallOK
  <2>. QED BY <1>1, <1>3, <2>1 DEF Left, CallOK, Id, Sole, Writing
<1>10. k[u].slot # None /\ Id(k[u].slot) \in setup.dirs \cup setup.blk /\ Work(u) = k[u].slot =>
          inode_table'[k[u].slot].id = Id(k[u].slot)
  <2>. SUFFICES ASSUME k[u].slot # None, Id(k[u].slot) \in setup.dirs \cup setup.blk, Work(u) = k[u].slot
                PROVE  inode_table'[k[u].slot].id = Id(k[u].slot)
    OBVIOUS
  <2>1. k[u].slot \in Slot BY <1>1
  <2>. QED BY <2>1, <1>4, <1>5
<1>11. /\ (Writing(u) /\ k[u].by = "sync") \/ k[u].pc = "sync_inodes" =>
            /\ setup.unlink = {}
            /\ \/ k[u].then = "iput" /\ k[u].slot # None /\ inode_table'[k[u].slot].id \in setup.blk
               \/ k[u].then = "return" /\ k[u].slot = None
       /\ k[u].pc = "iput_synced" => inode_table'[k[u].slot].id \in setup.blk /\ k[u].then = "return"
       /\ k[u].pc \in {"read_super", "reading_super"} => inode_table'[k[u].slot].id \in setup.dirs /\ k[u].then = "return"
  BY <1>1, <1>10, TableConstants DEF CallOK, Work, Writing
<1>12. k[u].pc = "truncate" => /\ inode_table'[k[u].slot].id \in Inode /\ Freeable(inode_table'[k[u].slot].id)
                              /\ inode_table'[k[u].slot].val = Unlinked /\ k[u].then = "return"
  <2>. SUFFICES ASSUME k[u].pc = "truncate"
                PROVE  /\ inode_table'[k[u].slot].id \in Inode
                       /\ Freeable(inode_table'[k[u].slot].id)
                       /\ inode_table'[k[u].slot].val = Unlinked /\ k[u].then = "return"
    OBVIOUS
  <2>1. Sole(u) = k[u].slot /\ k[u].slot # None BY <1>1 DEF CallOK, Sole
  <2>2. inode_table'[k[u].slot] = inode_table[k[u].slot] BY <2>1, <1>3
  <2>3. /\ Id(k[u].slot) \in Inode /\ Freeable(Id(k[u].slot))
        /\ inode_table[k[u].slot].val = Unlinked /\ k[u].then = "return"
    BY <1>1 DEF CallOK
  <2>. QED BY <2>2, <2>3, <1>1
<1>13. Sole(u) # None => inode_table'[Sole(u)].i_count = 1
  BY <1>1, <1>3 DEF CallOK
<1>14. k[u].then = "umount" => sb'.s_imount = k[u].slot /\ ~inode_table'[k[u].slot].i_mount
  BY <1>1 DEF CallOK, Left
<1>15. k[u].pc = "reading_super" => sb'.s_lock BY DEF Left
<1>16. Writing(u)' = Writing(u) BY <1>2 DEF Writing
<1>18. Id(k[u].slot)' = inode_table'[k[u].slot].id /\ Id(k[u].empty)' = inode_table'[k[u].empty].id
       /\ Id(Locks(u))' = inode_table'[Locks(u)].id
  BY <1>2 DEF Id
<1>19. CallOK(u)'
  <2>1. (k[u].pc = "user" => k[u] = User)'
    BY <1>1, <1>2, <1>6, <1>7, <1>8, <1>9, <1>11, <1>12, <1>13, <1>14, <1>15, <1>16, <1>18 DEF CallOK, Freeable
  <2>2. (Sole(u) # None => inode_table[Sole(u)].i_count = 1)'
    BY <1>1, <1>2, <1>6, <1>7, <1>8, <1>9, <1>11, <1>12, <1>13, <1>14, <1>15, <1>16, <1>18 DEF CallOK, Freeable
  <2>3. (k[u].pc = "wait_iget" <=> k[u].empty # None)'
    BY <1>1, <1>2, <1>6, <1>7, <1>8, <1>9, <1>11, <1>12, <1>13, <1>14, <1>15, <1>16, <1>18 DEF CallOK, Freeable
  <2>4. (k[u].pc = "wait_iget" =>
     /\ k[u].slot # None /\ k[u].then = "return" /\ held[u] = None
     /\ Id(k[u].empty) = NoInode
     /\ k[u].want \in Inode /\ written[k[u].want] # Unlinked
     /\ IF k[u].want = Root THEN /\ sb.s_imount # None
                              /\ \E i \in setup.dirs : <<u, i>> \in setup.find
                         ELSE <<u, k[u].want>> \in setup.find
     /\ Unheld(k[u].want))'
    <3>1. k[u].pc = "wait_iget" =>
             k[u].slot # None /\ k[u].then = "return" /\ held[u] = None /\ k[u].want \in Inode
      BY <1>1 DEF CallOK
    <3>. QED BY <3>1, <1>1, <1>2, <1>6, <1>18
  <2>5. (k[u].pc = "read_inode" =>
     /\ k[u].then = "return" /\ held[u] = None /\ ~inode_table[k[u].slot].i_dirt
     /\ Id(k[u].slot) = Root \/ <<u, Id(k[u].slot)>> \in setup.find)'
    <3>1. k[u].pc = "read_inode" => k[u].then = "return" /\ held[u] = None
      BY <1>1 DEF CallOK
    <3>2. k[u].pc = "read_inode" => ~inode_table'[k'[u].slot].i_dirt BY <1>2, <1>7
    <3>3. k[u].pc = "read_inode" => inode_table'[k'[u].slot].id = Root \/ <<u, inode_table'[k'[u].slot].id>> \in setup'.find BY <1>2, <1>20
    <3>. QED BY <3>1, <3>2, <3>3, <1>2 DEF Id
  <2>6. (k[u].pc \in {"read_inode", "iput", "iput_synced", "truncate", "read_super", "reading_super"}
     => k[u].slot # None)'
    BY <1>1, <1>2, <1>6, <1>7, <1>8, <1>9, <1>11, <1>12, <1>13, <1>14, <1>15, <1>16, <1>18 DEF CallOK, Freeable
  <2>7. (Locks(u) # None => inode_table[Locks(u)].i_lock /\ Id(Locks(u)) # NoInode)'
    BY <1>1, <1>2, <1>6, <1>7, <1>8, <1>9, <1>11, <1>12, <1>13, <1>14, <1>15, <1>16, <1>18 DEF CallOK, Freeable
  <2>8. (Writing(u) => k[u].want = Id(Locks(u)))'
    BY <1>1, <1>2, <1>6, <1>7, <1>8, <1>9, <1>11, <1>12, <1>13, <1>14, <1>15, <1>16, <1>18 DEF CallOK, Freeable
  <2>9. (Writing(u) /\ k[u].by = "iput" =>
     k[u].slot # None /\ inode_table[k[u].slot].val # Unlinked)'
    BY <1>1, <1>2, <1>6, <1>7, <1>8, <1>9, <1>11, <1>12, <1>13, <1>14, <1>15, <1>16, <1>18 DEF CallOK, Freeable
  <2>10. ((Writing(u) /\ k[u].by = "sync") \/ k[u].pc = "sync_inodes" =>
     /\ setup.unlink = {}
     /\ \/ k[u].then = "iput" /\ k[u].slot # None /\ Id(k[u].slot) \in setup.blk
        \/ k[u].then = "return" /\ k[u].slot = None)'
    BY <1>1, <1>2, <1>6, <1>7, <1>8, <1>9, <1>11, <1>12, <1>13, <1>14, <1>15, <1>16, <1>18 DEF CallOK, Freeable
  <2>11. (k[u].pc = "iput_synced" => Id(k[u].slot) \in setup.blk /\ k[u].then = "return")'
    BY <1>1, <1>2, <1>6, <1>7, <1>8, <1>9, <1>11, <1>12, <1>13, <1>14, <1>15, <1>16, <1>18 DEF CallOK, Freeable
  <2>12. (k[u].then = "iput" => (Writing(u) /\ k[u].by = "sync") \/ k[u].pc = "sync_inodes")'
    BY <1>1, <1>2, <1>6, <1>7, <1>8, <1>9, <1>11, <1>12, <1>13, <1>14, <1>15, <1>16, <1>18 DEF CallOK, Freeable
  <2>13. (k[u].pc = "truncate" =>
     /\ Id(k[u].slot) \in Inode /\ Freeable(Id(k[u].slot))
     /\ inode_table[k[u].slot].val = Unlinked
     /\ k[u].then = "return")'
    BY <1>1, <1>2, <1>6, <1>7, <1>8, <1>9, <1>11, <1>12, <1>13, <1>14, <1>15, <1>16, <1>18 DEF CallOK, Freeable
  <2>14. (k[u].then = "umount" => /\ k[u].pc = "iput" \/ (Writing(u) /\ k[u].by = "iput")
                        /\ k[u].slot = sb.s_imount /\ k[u].slot # None /\ u \in setup.umount
                        /\ ~inode_table[k[u].slot].i_mount)'
    BY <1>1, <1>2, <1>6, <1>7, <1>8, <1>9, <1>11, <1>12, <1>13, <1>14, <1>15, <1>16, <1>18 DEF CallOK, Freeable
  <2>15. (k[u].pc \in {"read_super", "reading_super"} => Id(k[u].slot) \in setup.dirs /\ k[u].then = "return")'
    BY <1>1, <1>2, <1>6, <1>7, <1>8, <1>9, <1>11, <1>12, <1>13, <1>14, <1>15, <1>16, <1>18 DEF CallOK, Freeable
  <2>16. (k[u].pc = "reading_super" => sb.s_lock)'
    BY <1>1, <1>2, <1>6, <1>7, <1>8, <1>9, <1>11, <1>12, <1>13, <1>14, <1>15, <1>16, <1>18 DEF CallOK, Freeable
  <2>17. (k[u].pc = "invalidate" => k[u].slot = None /\ k[u].then = "return")'
    BY <1>1, <1>2, <1>6, <1>7, <1>8, <1>9, <1>11, <1>12, <1>13, <1>14, <1>15, <1>16, <1>18 DEF CallOK, Freeable
  <2>. QED BY <2>1, <2>2, <2>3, <2>4, <2>5, <2>6, <2>7, <2>8, <2>9, <2>10, <2>11, <2>12, <2>13, <2>14, <2>15, <2>16, <2>17 DEF CallOK
<1>. QED BY <1>2, <1>19

(* The step of one task: what is left to show.                             *)
LEMMA StepSound ==
    ASSUME Careful(setup), TableParts, setup' = setup, NEW t \in Task,
           TableTypeOK', ~panicked', SuperOK', \A u \in Task \ {t} : Left(u), CallOK(t)',
           Locks(t)' # None => \A u \in Task \ {t} : Locks(u) # Locks(t)',
           k'[t].pc = "reading_super" => \A u \in Task \ {t} : k[u].pc # "reading_super",
           LockedBy', \A s \in Slot : SlotOK(s)', \A i \in Inode : InodeOK(i)', OneSlot'
    PROVE  TableParts'
<1>1. ASSUME NEW u \in Task \ {t} PROVE CallOK(u)' /\ Locks(u)' = Locks(u) /\ k'[u] = k[u]
  BY <1>1, LeftIs DEF Left
<1>2. Apart'
  BY <1>1 DEF Apart, TableParts
<1>3. \A u \in Task : CallOK(u)' BY <1>1
<1>. QED BY <1>2, <1>3 DEF TableParts

(* A slot, and an inode, that a step of task t leaves as they are.         *)
LEMMA SlotKept ==
    ASSUME TableParts, setup' = setup, NEW t \in Task,
           \A u \in Task \ {t} : k'[u] = k[u] /\ held'[u] = held[u],
           NEW s \in Slot, inode_table'[s] = inode_table[s],
           held'[t] = s <=> held[t] = s, k'[t].empty = s <=> k[t].empty = s,
           Work(t)' = s <=> Work(t) = s, sb'.s_imount = s <=> sb.s_imount = s,
           Id(s) # NoInode => /\ disk'[Id(s)] = disk[Id(s)] /\ written'[Id(s)] = written[Id(s)]
                              /\ Id(s) \in imap => Id(s) \in imap',
           k'[t].pc = "read_inode" /\ k'[t].slot = s <=> k[t].pc = "read_inode" /\ k[t].slot = s
    PROVE  SlotOK(s)'
<1>1. SlotOK(s) BY DEF TableParts
<1>2. Users(s)' = Users(s) /\ Users(s) \in Nat BY UsersStep
<1>3. Reading(s)' <=> Reading(s) BY DEF Reading
<1>4. Id(s)' = Id(s) /\ Freeable(Id(s))' = Freeable(Id(s)) BY DEF Id, Freeable
<1>. QED BY <1>1, <1>2, <1>3, <1>4 DEF SlotOK, Id, Freeable

LEMMA InodeKept ==
    ASSUME TableParts, setup' = setup, NEW i \in Inode,
           disk'[i] = disk[i], written'[i] = written[i], i \in imap => i \in imap',
           i # Root => \A s \in Slot : Id(s) = i => \E x \in Slot : inode_table'[x].id = i
    PROVE  InodeOK(i)'
<1>1. InodeOK(i) BY DEF TableParts
<1>. QED BY <1>1 DEF InodeOK, Id, Freeable

LEMMA LockedByIs ==
    ASSUME TableParts, NEW t \in Task, \A u \in Task \ {t} : Locks(u)' = Locks(u),
           \A s \in Slot : inode_table'[s].i_lock =>
               \/ Locks(t)' = s
               \/ inode_table[s].i_lock /\ Locks(t) # s
    PROVE  LockedBy'
<1>. SUFFICES ASSUME NEW s \in Slot, inode_table'[s].i_lock PROVE \E u \in Task : Locks(u)' = s
  BY DEF LockedBy
<1>1. CASE Locks(t)' = s BY <1>1
<1>2. CASE inode_table[s].i_lock /\ Locks(t) # s
  <2>1. PICK u \in Task : Locks(u) = s BY <1>2 DEF TableParts, LockedBy
  <2>2. u # t BY <1>2, <2>1
  <2>. QED BY <2>1, <2>2
<1>. QED BY <1>1, <1>2

LEMMA ToIs ==
    ASSUME TableTypeOK, NEW t \in Task, NEW l \in Locals, To(t, l)
    PROVE  k' \in [Task -> Locals] /\ k'[t] = l /\ \A u \in Task \ {t} : k'[u] = k[u]
BY DEF TableTypeOK, To

LEMMA ReturnIs ==
    ASSUME TableTypeOK, NEW t \in Task, Return(t)
    PROVE  /\ k' \in [Task -> Locals] /\ k'[t] = User /\ \A u \in Task \ {t} : k'[u] = k[u]
           /\ Work(t)' = None /\ Locks(t)' = None
           /\ k'[t].pc = "user" /\ k'[t].slot = None /\ k'[t].empty = None
<1>1. k' \in [Task -> Locals] /\ k'[t] = User /\ \A u \in Task \ {t} : k'[u] = k[u]
  BY UserTyped DEF TableTypeOK, Return
<1>. QED BY <1>1 DEF Work, Locks, Writing, User

(* A slot that is not counted.                                             *)
LEMMA UnusedIs ==
    ASSUME TableParts, NEW s \in Slot, inode_table[s].i_count = 0
    PROVE  /\ ~inode_table[s].i_dirt /\ ~inode_table[s].i_lock /\ ~inode_table[s].i_mount
           /\ sb.s_imount # s /\ Users(s) = 0
           /\ \A u \in Task : ~Uses(u, s) /\ Sole(u) # s /\ Locks(u) # s
           /\ ~Reading(s)
<1>1. SlotOK(s) /\ TableTypeOK BY DEF TableParts
<1>2. Users(s) = 0 BY <1>1 DEF SlotOK
<1>3. ~inode_table[s].i_dirt /\ ~inode_table[s].i_lock BY <1>1 DEF SlotOK
<1>4. ASSUME NEW u \in Task PROVE ~Uses(u, s) /\ Sole(u) # s /\ Locks(u) # s /\ sb.s_imount # s
  <2>1. ~Uses(u, s) /\ sb.s_imount # s BY <1>2, UsersAre
  <2>2. Sole(u) # s BY <1>1, SoleIs, TableConstants
  <2>3. Locks(u) # s BY <1>3, TableConstants DEF TableParts, CallOK
  <2>. QED BY <2>1, <2>2, <2>3
<1>5. ~Reading(s)
  BY <1>4, TableConstants DEF Reading, Locks
<1>6. sb.s_imount # s
  <2>1. Users(s) >= (IF sb.s_imount = s THEN 1 ELSE 0) BY UsersIs, UserSets
  <2>. QED BY <2>1, <1>2
<1>7. ~inode_table[s].i_mount BY <1>1, <1>6 DEF SlotOK
<1>. QED BY <1>2, <1>3, <1>4, <1>5, <1>6, <1>7

(* What task t may look up.                                                *)
Findable(t, i) ==
    /\ i \in Inode /\ written[i] # Unlinked
    /\ IF i = Root THEN sb.s_imount # None /\ \E d \in setup.dirs : <<t, d>> \in setup.find
                   ELSE <<t, i>> \in setup.find

Searching(t, e, i) ==
    /\ held[t] = None /\ Findable(t, i)
    /\ \/ k[t].pc = "user" /\ e \in Empty
       \/ k[t].pc = "wait_iget" /\ k[t].empty = e
    /\ UNCHANGED <<setup, imap, disk, written, sb>>

LEMMA SearchIs ==
    ASSUME Careful(setup), TableParts, NEW t \in Task, NEW e \in Slot, NEW i, Searching(t, e, i)
    PROVE  /\ TableTypeOK
           /\ ~inode_table[e].i_dirt /\ ~inode_table[e].i_lock /\ sb.s_imount # e
           /\ ~Reading(e)
           /\ \A u \in Task \ {t} : ~Uses(u, e) /\ Sole(u) # e /\ Locks(u) # e
           /\ Work(t) = None /\ Locks(t) = None /\ k[t].then = "return" /\ k[t].pc # "read_inode"
           /\ held[t] = None
           /\ inode_table[e].i_count = (IF k[t].empty = e THEN 1 ELSE 0) /\ k[t].empty \in {None, e}
           /\ inode_table[e].i_count = Users(e)
           /\ Findable(t, Crossed(i))
<1>1. TableTypeOK /\ CallOK(t) /\ SlotOK(e) /\ k[t].empty \in Slot \cup {None}
  BY Typed DEF TableParts
<1>2. Work(t) = None /\ Locks(t) = None /\ k[t].then = "return" /\ k[t].pc # "read_inode"
  BY <1>1, UserTyped DEF Searching, Work, Locks, Writing, CallOK, User
<1>5. Findable(t, Crossed(i))
  <2>1. Findable(t, i) BY DEF Searching
  <2>2. CASE \E s \in Find(i) : ~Locked(s) /\ inode_table[s].i_mount /\ sb.s_imount = s
    <3>1. Crossed(i) = Root BY <2>2 DEF Crossed
    <3>2. PICK s \in Slot : inode_table[s].id = i /\ sb.s_imount = s BY <2>2 DEF Find
    <3>3. s # None BY TableConstants
    <3>4. i \in setup.dirs BY <3>2, <3>3 DEF TableParts, SuperOK, Id
    <3>5. i # Root BY <3>4 DEF Careful
    <3>6. written[Root] # Unlinked /\ Root \in Inode BY TableConstants DEF TableParts, InodeOK
    <3>. QED BY <2>1, <3>1, <3>2, <3>3, <3>4, <3>5, <3>6 DEF Findable
  <2>3. CASE ~\E s \in Find(i) : ~Locked(s) /\ inode_table[s].i_mount /\ sb.s_imount = s
    BY <2>1, <2>3 DEF Crossed
  <2>. QED BY <2>2, <2>3
<1>6. held[t] = None BY DEF Searching
<1>3. CASE k[t].pc = "user" /\ e \in Empty
  <2>1. inode_table[e].i_count = 0 BY <1>3 DEF Empty
  <2>2. k[t].empty = None BY <1>1, <1>3 DEF CallOK, User
  <2>3. k[t].empty # e BY <2>2, TableConstants
  <2>. QED BY <1>1, <1>2, <1>5, <1>6, <2>1, <2>2, <2>3, UnusedIs
<1>4. CASE k[t].pc = "wait_iget" /\ k[t].empty = e
  <2>1. Sole(t) = e /\ e # None BY <1>4, TableConstants DEF Sole
  <2>2. Id(e) = NoInode /\ inode_table[e].i_count = 1 BY <1>1, <1>4, <2>1 DEF CallOK
  <2>3. ~inode_table[e].i_dirt /\ ~inode_table[e].i_lock BY <1>1, <2>2 DEF SlotOK, Id
  <2>4. /\ sb.s_imount # e
        /\ \A u \in Task \ {t} : ~Uses(u, e)
    BY <1>4, <2>1, SoleIs
  <2>5. ASSUME NEW u \in Task \ {t} PROVE Sole(u) # e /\ Locks(u) # e
    <3>1. Sole(u) # e BY <1>4, <2>1, SoleIs DEF Uses
    <3>2. Locks(u) # e BY <2>1, <2>3 DEF TableParts, CallOK
    <3>. QED BY <3>1, <3>2
  <2>6. ~Reading(e)
    BY <2>5, <1>2, <2>1 DEF Reading, Locks
  <2>. QED BY <1>1, <1>2, <1>4, <1>5, <1>6, <2>2, <2>3, <2>4, <2>5, <2>6 DEF SlotOK
<1>. QED BY <1>3, <1>4 DEF Searching

(* A file that may be unlinked is looked up by one task.                   *)
LEMMA OneFinder ==
    ASSUME Careful(setup), TableParts, NEW t \in Task, NEW u \in Task, NEW j, Freeable(j),
           <<t, j>> \in setup.find,
           \/ k[u].pc = "wait_iget" /\ k[u].want = j
           \/ k[u].pc = "read_inode" /\ Id(k[u].slot) = j
    PROVE  u = t
<1>1. CallOK(u) BY DEF TableParts
<1>2. j # Root /\ j \notin setup.dirs /\ setup.unlink # {} BY DEF Freeable
<1>3. <<u, j>> \in setup.find BY <1>1, <1>2 DEF CallOK
<1>. QED BY <1>2, <1>3 DEF Careful

(* iget does not find the inode, and reads it.                             *)
LEMMA SearchReads ==
    ASSUME Careful(setup), TableParts, NEW t \in Task, NEW e \in Slot, NEW i, Searching(t, e, i),
           NEW j, j = Crossed(i), \A s \in Slot \ {e} : Id(s) # j,
           inode_table' = [inode_table EXCEPT
              ![e] = [Blank EXCEPT !.id = j, !.i_count = 1, !.i_lock = TRUE]],
           To(t, [k[t] EXCEPT !.pc = "read_inode", !.slot = e, !.empty = None]),
           panicked' = (j = Root /\ ~sb.s_dev), UNCHANGED held
    PROVE  TableParts'
<1>. DEFINE l == [k[t] EXCEPT !.pc = "read_inode", !.slot = e, !.empty = None]
            b == [Blank EXCEPT !.id = j, !.i_count = 1, !.i_lock = TRUE]
<1>1. /\ TableTypeOK /\ SuperOK /\ OneSlot /\ k[t] \in Locals /\ Findable(t, j) /\ j \in Inode
      /\ setup' = setup /\ imap' = imap /\ disk' = disk /\ written' = written /\ sb' = sb
      /\ held'= held /\ e # None
  BY SearchIs, Typed, TableConstants DEF TableParts, Searching, Findable
<1>2. l \in Locals /\ l.pc = "read_inode" /\ l.slot = e /\ l.empty = None /\ l.then = "return"
  BY <1>1, SearchIs DEF Locals, CallPcs
<1>3. b \in Entry /\ b.id = j /\ b.i_count = 1 /\ b.i_lock /\ ~b.i_dirt /\ ~b.i_mount /\ b.val = Unlinked
  BY <1>1 DEF Entry, Blank
<1>4. inode_table' = [inode_table EXCEPT ![e] = b] /\ To(t, l) OBVIOUS
<1>. HIDE DEF l, b
<1>5. k' \in [Task -> Locals] /\ k'[t] = l /\ \A u \in Task \ {t} : k'[u] = k[u]
  BY <1>1, <1>2, <1>4, ToIs
<1>6. /\ inode_table' \in [Slot -> Entry] /\ inode_table'[e] = b
      /\ \A x \in Slot \ {e} : inode_table'[x] = inode_table[x]
  BY <1>1, <1>3, <1>4 DEF TableTypeOK
<1>7. TableTypeOK' BY <1>1, <1>5, <1>6 DEF TableTypeOK
<1>8. ~panicked' BY <1>1 DEF Findable, SuperOK
<1>9. SuperOK'
  <2>1. sb.s_imount # e /\ sb.s_imount \in Slot \cup {None} BY <1>1, SearchIs, Typed
  <2>. QED BY <1>1, <1>6, <2>1 DEF SuperOK, Id
<1>10. Work(t)' = e /\ Locks(t)' = e /\ Sole(t)' = e BY <1>1, <1>2, <1>5 DEF Work, Locks, Sole
<1>11. ASSUME NEW u \in Task \ {t} PROVE Left(u)
  <2>1. CallOK(u) BY DEF TableParts
  <2>2. ~Uses(u, e) /\ Sole(u) # e /\ Locks(u) # e BY SearchIs
  <2>3. k'[u] = k[u] /\ held'[u] = held[u] BY <1>1, <1>5
  <2>4. Sole(u) # None => Sole(u) \in Slot BY SoleIs
  <2>5. Locks(u) \in Slot \cup {None} BY Typed, <1>1 DEF Locks
  <2>6. k[u].pc = "wait_iget" => Unheld(k[u].want)'
    <3>1. SUFFICES ASSUME k[u].pc = "wait_iget", Freeable(k[u].want), NEW x \in Slot,
                          inode_table'[x].id = k[u].want
                   PROVE  inode_table'[x].val # Unlinked /\ \A v \in Task : held'[v] # x
      BY <1>1, <1>5 DEF Unheld, Freeable, Id
    <3>2. x # e
      <4>1. k[u].want # j BY <1>1, <3>1, OneFinder DEF Findable, Freeable
      <4>. QED BY <4>1, <3>1, <1>6, <1>3
    <3>. QED BY <3>1, <3>2, <2>1, <1>6, <1>1 DEF CallOK, Unheld, Id
  <2>7. k[u].then = "umount" => k[u].slot \in Slot /\ k[u].slot = sb.s_imount /\ k[u].slot # e
    BY <2>1, SearchIs, Typed, <1>1 DEF CallOK
  <2>8. k[u].pc = "wait_iget" => written[k[u].want] # Unlinked /\ (k[u].want = Root => sb.s_imount # None)
    BY <2>1 DEF CallOK
  <2>. QED BY <1>1, <1>6, <2>1, <2>2, <2>3, <2>4, <2>5, <2>6, <2>7, <2>8 DEF Left, Uses, CallOK, Id
<1>12. CallOK(t)'
  <2>1. j = Root \/ <<t, j>> \in setup.find BY <1>1 DEF Findable
  <2>2. held'[t] = None BY <1>1, SearchIs
  <2>. QED BY <1>1, <1>2, <1>3, <1>5, <1>6, <1>10, <2>1, <2>2, TableConstants DEF CallOK, Writing, Id
<1>13. \A u \in Task \ {t} : Locks(u) # e BY SearchIs
<1>14. LockedBy'
  <2>1. \A u \in Task \ {t} : Locks(u)' = Locks(u) BY <1>5 DEF Locks, Writing
  <2>2. Locks(t) = None BY SearchIs
  <2>. QED BY <1>6, <1>10, <2>1, <2>2, TableConstants, LockedByIs
<1>15. ASSUME NEW s \in Slot PROVE SlotOK(s)'
  <2>1. CASE s = e
    <3>1. Users(e)' = 1
      <4>1. /\ Users(e) = (IF k[t].empty = e THEN 1 ELSE 0) /\ held[t] = None /\ Work(t) = None
            /\ sb.s_imount # e
        BY SearchIs
      <4>2. /\ Users(e)' = Users(e)
                + (IF held'[t] = e THEN 1 ELSE 0) - (IF held[t] = e THEN 1 ELSE 0)
                + (IF k'[t].empty = e THEN 1 ELSE 0) - (IF k[t].empty = e THEN 1 ELSE 0)
                + (IF Work(t)' = e THEN 1 ELSE 0) - (IF Work(t) = e THEN 1 ELSE 0)
                + (IF sb'.s_imount = e THEN 1 ELSE 0) - (IF sb.s_imount = e THEN 1 ELSE 0)
        BY <1>1, <1>5, UsersStep
      <4>. QED BY <4>1, <4>2, <1>1, <1>2, <1>5, <1>10
    <3>2. Reading(e)' BY <1>2, <1>5 DEF Reading
    <3>3. j \in imap /\ (j # Root => disk[j] = written[j]) /\ written[j] # Unlinked
      <4>1. InodeOK(j) /\ SlotOK(e) BY <1>1 DEF TableParts
      <4>2. ~Reading(e) /\ ~inode_table[e].i_dirt BY SearchIs
      <4>. QED BY <4>1, <4>2, <1>1, TableConstants DEF InodeOK, SlotOK, Findable, Id
    <3>4. inode_table'[e] = b /\ disk'[j] = disk[j] /\ written'[j] = written[j] /\ imap' = imap
      BY <1>1, <1>6
    <3>6. /\ inode_table'[e].id = j /\ inode_table'[e].i_count = 1 /\ ~inode_table'[e].i_dirt
          /\ ~inode_table'[e].i_mount
      BY <3>4, <1>3
    <3>5. SlotOK(e)' BY <3>1, <3>2, <3>3, <3>4, <3>6, <1>1, TableConstants DEF SlotOK
    <3>. QED BY <2>1, <3>5
  <2>2. CASE s # e
    <3>1. held'[t] = held[t] /\ k'[t].empty # s /\ k[t].empty # s /\ Work(t)' # s /\ Work(t) # s
      BY <2>2, <1>1, <1>2, <1>5, <1>10, SearchIs, TableConstants
    <3>2. k[t].pc # "read_inode" BY SearchIs
    <3>. QED BY <2>2, <3>1, <3>2, <1>1, <1>2, <1>5, <1>6, SlotKept
  <2>. QED BY <2>1, <2>2
<1>16. ASSUME NEW d \in Inode PROVE InodeOK(d)'
  <2>1. InodeOK(d) /\ SlotOK(e) BY DEF TableParts
  <2>2. ~Reading(e) /\ ~inode_table[e].i_dirt BY SearchIs
  <2>3. d # Root /\ written[d] # Unlinked =>
           disk[d] = written[d] \/ \E s \in Slot \ {e} : Id(s) = d
    BY <2>1, <2>2, TableConstants DEF InodeOK, SlotOK, Id
  <2>. QED BY <2>1, <2>3, <1>1, <1>6 DEF InodeOK, Freeable, Id
<1>17. OneSlot'
  BY <1>1, <1>3, <1>6 DEF OneSlot, Id
<1>. QED
  BY <1>1, <1>2, <1>5, <1>7, <1>8, <1>9, <1>10, <1>11, <1>12, <1>13, <1>14, <1>15, <1>16, <1>17, StepSound

(* iget finds the inode, unlocked.                                         *)
LEMMA SearchFinds ==
    ASSUME Careful(setup), TableParts, NEW t \in Task, NEW e \in Slot, NEW i, Searching(t, e, i),
           NEW j, j = Crossed(i), NEW s \in Slot \ {e}, Id(s) = j, ~Locked(s),
           inode_table' = [inode_table EXCEPT ![s].i_count = @ + 1, ![e] = Blank],
           Return(t), held' = [held EXCEPT ![t] = s], UNCHANGED panicked
    PROVE  TableParts'
<1>1. /\ TableTypeOK /\ SuperOK /\ OneSlot /\ k[t] \in Locals /\ Findable(t, j) /\ j \in Inode
      /\ setup' = setup /\ imap' = imap /\ disk' = disk /\ written' = written /\ sb' = sb
      /\ e # None /\ s # None /\ s # e /\ j # NoInode /\ ~inode_table[s].i_lock
      /\ inode_table[s].i_count \in Nat /\ inode_table[s] \in Entry /\ SlotOK(s)
  BY SearchIs, Typed, TableConstants DEF TableParts, Searching, Findable, Locked
<1>2. /\ k' \in [Task -> Locals] /\ k'[t] = User /\ \A u \in Task \ {t} : k'[u] = k[u]
      /\ Work(t)' = None /\ Locks(t)' = None
      /\ k'[t].pc = "user" /\ k'[t].slot = None /\ k'[t].empty = None
  BY <1>1, ReturnIs
<1>3. /\ held' \in [Task -> Slot \cup {None}] /\ held'[t] = s
      /\ \A u \in Task \ {t} : held'[u] = held[u]
  BY <1>1 DEF TableTypeOK
<1>4. /\ inode_table' \in [Slot -> Entry] /\ inode_table'[e] = Blank
      /\ inode_table'[s] = [inode_table[s] EXCEPT !.i_count = @ + 1]
      /\ \A x \in Slot \ {e, s} : inode_table'[x] = inode_table[x]
  <2>1. [inode_table[s] EXCEPT !.i_count = @ + 1] \in Entry BY <1>1 DEF Entry
  <2>2. inode_table' = [inode_table EXCEPT ![s] = [inode_table[s] EXCEPT !.i_count = @ + 1],
                                           ![e] = Blank]
    BY <1>1 DEF TableTypeOK
  <2>. QED BY <2>1, <2>2, <1>1, UserTyped DEF TableTypeOK
<1>5. /\ inode_table'[s].id = j /\ inode_table'[s].i_count = inode_table[s].i_count + 1
      /\ inode_table'[s].i_lock = inode_table[s].i_lock /\ inode_table'[s].val = inode_table[s].val
      /\ inode_table'[s].i_dirt = inode_table[s].i_dirt /\ inode_table'[s].i_mount = inode_table[s].i_mount
      /\ inode_table'[e].id = NoInode /\ inode_table'[e].i_count = 0 /\ ~inode_table'[e].i_lock
      /\ ~inode_table'[e].i_dirt /\ ~inode_table'[e].i_mount
  BY <1>1, <1>4 DEF Entry, Blank, Id
<1>6. ~Reading(s)
  <2>1. \A u \in Task : Locks(u) # s BY <1>1 DEF TableParts, CallOK
  <2>. QED BY <2>1 DEF Reading, Locks
<1>7. j # Root => inode_table[s].val = written[j] /\ inode_table[s].val # Unlinked
  BY <1>1, <1>6 DEF SlotOK, Id, Findable
<1>8. TableTypeOK' BY <1>1, <1>2, <1>3, <1>4 DEF TableTypeOK
<1>9. ~panicked' BY DEF TableParts
<1>10. SuperOK'
  <2>1. sb.s_imount # e /\ sb.s_imount \in Slot \cup {None} BY <1>1, SearchIs, Typed
  <2>. QED BY <1>1, <1>4, <1>5, <2>1 DEF SuperOK, Id
<1>11. ASSUME NEW u \in Task \ {t} PROVE Left(u)
  <2>1. CallOK(u) BY DEF TableParts
  <2>2. ~Uses(u, e) /\ Sole(u) # e /\ Locks(u) # e BY SearchIs
  <2>3. k'[u] = k[u] /\ held'[u] = held[u] BY <1>2, <1>3
  <2>4. Sole(u) # None => Sole(u) \in Slot BY SoleIs
  <2>5. Locks(u) \in Slot \cup {None} /\ Locks(u) # s
    BY <1>1, <2>1, Typed DEF Locks, CallOK
  <2>6. Sole(u) # s
    BY <1>1, <1>7, <2>1, <2>5 DEF Sole, CallOK, Freeable, Id, Locks
  <2>7. k[u].pc = "wait_iget" => Unheld(k[u].want)'
    <3>1. SUFFICES ASSUME k[u].pc = "wait_iget", Freeable(k[u].want), NEW x \in Slot,
                          inode_table'[x].id = k[u].want
                   PROVE  inode_table'[x].val # Unlinked /\ \A v \in Task : held'[v] # x
      BY <1>1, <2>3 DEF Unheld, Freeable, Id
    <3>2. k[u].want # j /\ k[u].want # NoInode
      BY <1>1, <2>1, <3>1, OneFinder, TableConstants DEF Findable, Freeable, CallOK
    <3>3. x # s /\ x # e BY <3>1, <3>2, <1>5
    <3>4. inode_table[x].val # Unlinked /\ \A v \in Task : held[v] # x
      BY <3>1, <3>3, <2>1, <1>4, <1>1 DEF CallOK, Unheld, Id
    <3>. QED BY <3>3, <3>4, <1>3, <1>4
  <2>8. k[u].then = "umount" => /\ k[u].slot \in Slot /\ k[u].slot = sb.s_imount /\ k[u].slot # e
                                /\ ~inode_table[k[u].slot].i_mount
    BY <2>1, SearchIs, Typed, <1>1 DEF CallOK
  <2>9. k[u].pc = "wait_iget" => written[k[u].want] # Unlinked /\ (k[u].want = Root => sb.s_imount # None)
    BY <2>1 DEF CallOK
  <2>10. \A x \in Slot : Work(u) = x => inode_table'[x].id = Id(x)
    BY <2>2, <1>1, <1>4, <1>5 DEF Uses, Id
  <2>11. Locks(u) # None => inode_table'[Locks(u)].i_lock /\ inode_table'[Locks(u)].id = Id(Locks(u))
    BY <2>1, <2>2, <2>5, <1>4 DEF CallOK, Id
  <2>. QED BY <1>1, <1>4, <1>5, <2>1, <2>2, <2>3, <2>4, <2>6, <2>7, <2>8, <2>9, <2>10, <2>11 DEF Left, CallOK
<1>12. CallOK(t)'
  BY <1>1, <1>2 DEF CallOK, Writing, Sole, User
<1>13. LockedBy'
  <2>1. \A u \in Task \ {t} : Locks(u)' = Locks(u) BY <1>2 DEF Locks, Writing
  <2>2. Locks(t) = None BY SearchIs
  <2>. QED BY <1>1, <1>2, <1>4, <1>5, <2>1, <2>2, TableConstants, LockedByIs
<1>14. ASSUME NEW x \in Slot PROVE SlotOK(x)'
  <2>1. /\ Users(x) \in Nat
        /\ Users(x)' = Users(x)
                + (IF held'[t] = x THEN 1 ELSE 0) - (IF held[t] = x THEN 1 ELSE 0)
                + (IF k'[t].empty = x THEN 1 ELSE 0) - (IF k[t].empty = x THEN 1 ELSE 0)
                + (IF Work(t)' = x THEN 1 ELSE 0) - (IF Work(t) = x THEN 1 ELSE 0)
                + (IF sb'.s_imount = x THEN 1 ELSE 0) - (IF sb.s_imount = x THEN 1 ELSE 0)
    BY <1>1, <1>2, <1>3, UsersStep
  <2>2. /\ held[t] = None /\ Work(t) = None /\ k[t].empty \in {None, e}
        /\ Users(e) = (IF k[t].empty = e THEN 1 ELSE 0)
    BY SearchIs
  <2>3. ~Reading(x)' \/ x \notin {e, s}
    <3>1. ~Reading(e) /\ ~Reading(s) BY <1>6, SearchIs
    <3>. QED BY <3>1, <1>2 DEF Reading
  <2>4. CASE x = e
    <3>1. Users(e)' = 0 BY <2>1, <2>2, <2>4, <1>1, <1>2, <1>3
    <3>2. SlotOK(e)' BY <3>1, <1>5 DEF SlotOK
    <3>. QED BY <2>4, <3>2
  <2>5. CASE x = s
    <3>1. Users(s)' = inode_table[s].i_count + 1
      BY <2>1, <2>2, <2>5, <1>1, <1>2, <1>3, TableConstants DEF SlotOK
    <3>2. SlotOK(s)'
      <4>1. Freeable(j)' = Freeable(j) BY <1>1 DEF Freeable
      <4>2. ~Reading(s)' BY <2>3, <2>5
      <4>. QED BY <3>1, <4>1, <4>2, <1>1, <1>5, <1>6 DEF SlotOK, Id
    <3>. QED BY <2>5, <3>2
  <2>6. CASE x \notin {e, s}
    <3>1. held'[t] # x /\ held[t] # x /\ k'[t].empty # x /\ k[t].empty # x /\ Work(t)' # x /\ Work(t) # x
      BY <2>6, <2>2, <1>1, <1>2, <1>3, TableConstants
    <3>2. k[t].pc # "read_inode" BY SearchIs
    <3>. QED BY <2>6, <3>1, <3>2, <1>1, <1>2, <1>3, <1>4, SlotKept
  <2>. QED BY <2>4, <2>5, <2>6
<1>15. ASSUME NEW d \in Inode PROVE InodeOK(d)'
  <2>1. InodeOK(d) /\ SlotOK(e) BY DEF TableParts
  <2>2. ~Reading(e) /\ ~inode_table[e].i_dirt BY SearchIs
  <2>3. d # Root /\ written[d] # Unlinked =>
           disk[d] = written[d] \/ \E x \in Slot \ {e} : Id(x) = d
    BY <2>1, <2>2, TableConstants DEF InodeOK, SlotOK, Id
  <2>4. \A x \in Slot \ {e} : inode_table'[x].id = Id(x) BY <1>1, <1>4, <1>5 DEF Id
  <2>. QED BY <2>1, <2>3, <2>4, <1>1 DEF InodeOK, Freeable, Id
<1>16. OneSlot'
  <2>1. \A x \in Slot \ {e} : inode_table'[x].id = Id(x) BY <1>1, <1>4, <1>5 DEF Id
  <2>. QED BY <2>1, <1>1, <1>5 DEF OneSlot, Id
<1>. QED
  BY <1>1, <1>2, <1>8, <1>9, <1>10, <1>11, <1>12, <1>13, <1>14, <1>15, <1>16, StepSound

(* iget finds the inode, locked, and waits for it.                         *)
LEMMA SearchWaits ==
    ASSUME Careful(setup), TableParts, NEW t \in Task, NEW e \in Slot, NEW i, Searching(t, e, i),
           NEW j, j = Crossed(i), NEW s \in Slot \ {e}, Id(s) = j, Locked(s),
           inode_table' = [inode_table EXCEPT ![e] = [Blank EXCEPT !.i_count = 1]],
           To(t, [k[t] EXCEPT !.pc = "wait_iget", !.slot = s, !.empty = e, !.want = j]),
           UNCHANGED <<held, panicked>>
    PROVE  TableParts'
<1>. DEFINE l == [k[t] EXCEPT !.pc = "wait_iget", !.slot = s, !.empty = e, !.want = j]
            b == [Blank EXCEPT !.i_count = 1]
<1>1. /\ TableTypeOK /\ SuperOK /\ OneSlot /\ k[t] \in Locals /\ Findable(t, j) /\ j \in Inode
      /\ setup' = setup /\ imap' = imap /\ disk' = disk /\ written' = written /\ sb' = sb
      /\ held'= held /\ e # None /\ s # None /\ s # e /\ inode_table[s].i_lock
  BY SearchIs, Typed, TableConstants DEF TableParts, Searching, Findable, Locked
<1>2. /\ l \in Locals /\ l.pc = "wait_iget" /\ l.slot = s /\ l.empty = e /\ l.want = j
      /\ l.then = "return"
  BY <1>1, SearchIs DEF Locals, CallPcs
<1>3. b \in Entry /\ b.id = NoInode /\ b.i_count = 1 /\ ~b.i_lock /\ ~b.i_dirt /\ ~b.i_mount
  BY <1>1 DEF Entry, Blank
<1>4. inode_table' = [inode_table EXCEPT ![e] = b] /\ To(t, l) OBVIOUS
<1>. HIDE DEF l, b
<1>5. k' \in [Task -> Locals] /\ k'[t] = l /\ \A u \in Task \ {t} : k'[u] = k[u]
  BY <1>1, <1>2, <1>4, ToIs
<1>6. /\ inode_table' \in [Slot -> Entry] /\ inode_table'[e] = b
      /\ \A x \in Slot \ {e} : inode_table'[x] = inode_table[x]
  BY <1>1, <1>3, <1>4 DEF TableTypeOK
<1>7. TableTypeOK' BY <1>1, <1>5, <1>6 DEF TableTypeOK
<1>8. ~panicked' BY DEF TableParts
<1>9. SuperOK'
  <2>1. sb.s_imount # e /\ sb.s_imount \in Slot \cup {None} BY <1>1, SearchIs, Typed
  <2>. QED BY <1>1, <1>6, <2>1 DEF SuperOK, Id
<1>10. Work(t)' = None /\ Locks(t)' = None /\ Sole(t)' = e
  BY <1>1, <1>2, <1>5 DEF Work, Locks, Sole, Writing
<1>11. ASSUME NEW u \in Task \ {t} PROVE Left(u)
  <2>1. CallOK(u) BY DEF TableParts
  <2>2. ~Uses(u, e) /\ Sole(u) # e /\ Locks(u) # e BY SearchIs
  <2>3. k'[u] = k[u] /\ held'[u] = held[u] BY <1>1, <1>5
  <2>4. Sole(u) # None => Sole(u) \in Slot BY SoleIs
  <2>5. Locks(u) \in Slot \cup {None} BY Typed, <1>1 DEF Locks
  <2>6. k[u].pc = "wait_iget" => Unheld(k[u].want)'
    <3>1. SUFFICES ASSUME k[u].pc = "wait_iget", Freeable(k[u].want), NEW x \in Slot,
                          inode_table'[x].id = k[u].want
                   PROVE  inode_table'[x].val # Unlinked /\ \A v \in Task : held'[v] # x
      BY <1>1, <1>5 DEF Unheld, Freeable, Id
    <3>2. x # e
      <4>1. k[u].want # NoInode BY <2>1, <3>1, TableConstants DEF CallOK
      <4>. QED BY <4>1, <3>1, <1>6, <1>3
    <3>. QED BY <3>1, <3>2, <2>1, <1>6, <1>1 DEF CallOK, Unheld, Id
  <2>7. k[u].then = "umount" => k[u].slot \in Slot /\ k[u].slot = sb.s_imount /\ k[u].slot # e
    BY <2>1, SearchIs, Typed, <1>1 DEF CallOK
  <2>8. k[u].pc = "wait_iget" => written[k[u].want] # Unlinked /\ (k[u].want = Root => sb.s_imount # None)
    BY <2>1 DEF CallOK
  <2>. QED BY <1>1, <1>6, <2>1, <2>2, <2>3, <2>4, <2>5, <2>6, <2>7, <2>8 DEF Left, Uses, CallOK, Id
<1>12. Unheld(j)
  <2>1. SUFFICES ASSUME Freeable(j) PROVE inode_table[s].val # Unlinked /\ \A v \in Task : held[v] # s
    BY <1>1, TableConstants DEF Unheld, OneSlot
  <2>2. PICK u \in Task : Locks(u) = s BY <1>1 DEF TableParts, LockedBy
  <2>3. CallOK(u) /\ Locks(t) = None BY SearchIs DEF TableParts
  <2>4. k[u].pc # "read_inode"
    <3>1. <<t, j>> \in setup.find BY <1>1, <2>1 DEF Findable, Freeable
    <3>2. k[u].pc = "read_inode" => Id(k[u].slot) = j BY <2>2 DEF Locks
    <3>3. k[u].pc = "read_inode" => u = t BY <2>1, <3>1, <3>2, OneFinder
    <3>. QED BY <3>3, <2>2, <2>3, <1>1
  <2>5. Writing(u) /\ k[u].by = "iput" /\ k[u].slot = s
    BY <1>1, <2>1, <2>2, <2>3, <2>4, Typed DEF Locks, CallOK, Writing, Freeable
  <2>6. Sole(u) = s BY <2>5 DEF Sole, Writing
  <2>7. inode_table[s].val # Unlinked BY <2>3, <2>5 DEF CallOK
  <2>. QED BY <1>1, <2>6, <2>7, SoleIs DEF Uses
<1>13. CallOK(t)'
  <2>1. held'[t] = None BY <1>1, SearchIs
  <2>2. Unheld(j)' 
    <3>1. \A x \in Slot : inode_table'[x].id = j => x # e /\ Id(x) = j /\ inode_table'[x] = inode_table[x]
      BY <1>1, <1>3, <1>6, TableConstants DEF Id
    <3>. QED BY <3>1, <1>1, <1>12 DEF Unheld, Freeable, Id
  <2>. QED BY <1>1, <1>2, <1>3, <1>5, <1>6, <1>10, <2>1, <2>2, TableConstants
           DEF CallOK, Writing, Id, Findable
<1>14. LockedBy'
  <2>1. \A u \in Task \ {t} : Locks(u)' = Locks(u) BY <1>5 DEF Locks, Writing
  <2>2. Locks(t) = None BY SearchIs
  <2>3. \A x \in Slot : inode_table'[x].i_lock => inode_table[x].i_lock /\ Locks(t) # x
    BY <1>3, <1>6, <2>2, TableConstants
  <2>. QED BY <2>1, <2>3, LockedByIs
<1>15. ASSUME NEW x \in Slot PROVE SlotOK(x)'
  <2>1. CASE x = e
    <3>1. Users(e)' = 1
      <4>1. /\ Users(e) = (IF k[t].empty = e THEN 1 ELSE 0) /\ held[t] = None /\ Work(t) = None
            /\ sb.s_imount # e
        BY SearchIs
      <4>2. /\ Users(e)' = Users(e)
                + (IF held'[t] = e THEN 1 ELSE 0) - (IF held[t] = e THEN 1 ELSE 0)
                + (IF k'[t].empty = e THEN 1 ELSE 0) - (IF k[t].empty = e THEN 1 ELSE 0)
                + (IF Work(t)' = e THEN 1 ELSE 0) - (IF Work(t) = e THEN 1 ELSE 0)
                + (IF sb'.s_imount = e THEN 1 ELSE 0) - (IF sb.s_imount = e THEN 1 ELSE 0)
        BY <1>1, <1>5, UsersStep
      <4>. QED BY <4>1, <4>2, <1>1, <1>2, <1>5, <1>10
    <3>2. /\ inode_table'[e].id = NoInode /\ inode_table'[e].i_count = 1 /\ ~inode_table'[e].i_dirt
          /\ ~inode_table'[e].i_mount /\ ~inode_table'[e].i_lock
      BY <1>3, <1>6
    <3>3. SlotOK(e)' BY <3>1, <3>2 DEF SlotOK
    <3>. QED BY <2>1, <3>3
  <2>2. CASE x # e
    <3>1. held'[t] = held[t] /\ k'[t].empty # x /\ k[t].empty # x /\ Work(t)' # x /\ Work(t) # x
      BY <2>2, <1>1, <1>2, <1>5, <1>10, SearchIs, TableConstants
    <3>2. k[t].pc # "read_inode" BY SearchIs
    <3>. QED BY <2>2, <3>1, <3>2, <1>1, <1>2, <1>5, <1>6, SlotKept
  <2>. QED BY <2>1, <2>2
<1>16. ASSUME NEW d \in Inode PROVE InodeOK(d)'
  <2>1. InodeOK(d) /\ SlotOK(e) BY DEF TableParts
  <2>2. ~Reading(e) /\ ~inode_table[e].i_dirt BY SearchIs
  <2>3. d # Root /\ written[d] # Unlinked =>
           disk[d] = written[d] \/ \E x \in Slot \ {e} : Id(x) = d
    BY <2>1, <2>2, TableConstants DEF InodeOK, SlotOK, Id
  <2>. QED BY <2>1, <2>3, <1>1, <1>6 DEF InodeOK, Freeable, Id
<1>17. OneSlot'
  BY <1>1, <1>3, <1>6 DEF OneSlot, Id
<1>. QED
  BY <1>1, <1>2, <1>5, <1>7, <1>8, <1>9, <1>10, <1>11, <1>13, <1>14, <1>15, <1>16, <1>17, StepSound

LEMMA SearchSound ==
    ASSUME Careful(setup), TableParts, NEW t \in Task, NEW e \in Slot, NEW i, Searching(t, e, i),
           Search(t, e, i)
    PROVE  TableParts'
<1>. DEFINE j == Crossed(i)
<1>1. Find(j) \ {e} = {s \in Slot \ {e} : Id(s) = j} BY DEF Find, Id
<1>2. CASE /\ Find(j) \ {e} = {}
           /\ inode_table' = [inode_table EXCEPT
                  ![e] = [Blank EXCEPT !.id = j, !.i_count = 1, !.i_lock = TRUE]]
           /\ To(t, [k[t] EXCEPT !.pc = "read_inode", !.slot = e, !.empty = None])
           /\ panicked' = (j = Root /\ ~sb.s_dev) /\ UNCHANGED held
  <2>1. \A s \in Slot \ {e} : Id(s) # j BY <1>1, <1>2
  <2>. QED BY <1>2, <2>1, SearchReads
<1>3. ASSUME NEW s \in Find(j) \ {e}, ~Locked(s),
             inode_table' = [inode_table EXCEPT ![s].i_count = @ + 1, ![e] = Blank],
             Return(t), held' = [held EXCEPT ![t] = s], UNCHANGED panicked
      PROVE  TableParts'
  <2>1. s \in Slot \ {e} /\ Id(s) = j BY <1>1, <1>3
  <2>. QED BY <1>3, <2>1, SearchFinds
<1>4. ASSUME NEW s \in Find(j) \ {e}, Locked(s),
             inode_table' = [inode_table EXCEPT ![e] = [Blank EXCEPT !.i_count = 1]],
             To(t, [k[t] EXCEPT !.pc = "wait_iget", !.slot = s, !.empty = e, !.want = j]),
             UNCHANGED <<held, panicked>>
      PROVE  TableParts'
  <2>1. s \in Slot \ {e} /\ Id(s) = j BY <1>1, <1>4
  <2>. QED BY <1>4, <2>1, SearchWaits
<1>. QED BY <1>2, <1>3, <1>4 DEF Search

LEMMA IGetSound ==
    ASSUME Careful(setup), TableParts, NEW t \in Task, NEW i \in Inode, IGet(t, i)
    PROVE  TableParts'
<1>1. PICK e \in Empty : Search(t, e, i) BY DEF IGet
<1>2. e \in Slot BY DEF Empty
<1>3. i # Root BY DEF IGet, Careful
<1>4. Searching(t, e, i) BY <1>3 DEF IGet, Searching, Findable, At
<1>. QED BY <1>1, <1>2, <1>4, SearchSound

LEMMA IGetAgainSound ==
    ASSUME Careful(setup), TableParts, NEW t \in Task, IGetAgain(t)
    PROVE  TableParts'
<1>1. CallOK(t) /\ k[t].empty \in Slot \cup {None} BY Typed DEF TableParts
<1>2. k[t].empty \in Slot BY <1>1 DEF IGetAgain, CallOK, At
<1>3. Searching(t, k[t].empty, k[t].want)
  BY <1>1 DEF IGetAgain, Searching, Findable, At, CallOK
<1>. QED BY <1>2, <1>3, SearchSound DEF IGetAgain

-----------------------------------------------------------------------------
(* A step of task t that changes the inode in one slot, not which one it   *)
(* is, and what t has to do with it;                                       *)
Touch(t, s) ==
    /\ UNCHANGED <<setup, imap>> /\ TableTypeOK' /\ ~panicked'
    /\ \A u \in Task \ {t} : k'[u] = k[u] /\ held'[u] = held[u]
    /\ inode_table'[s].id = Id(s)
    /\ \A x \in Slot \ {s} : /\ inode_table'[x] = inode_table[x]
                             /\ held'[t] = x <=> held[t] = x
                             /\ k'[t].empty = x <=> k[t].empty = x
                             /\ Work(t)' = x <=> Work(t) = x
                             /\ sb'.s_imount = x <=> sb.s_imount = x
    /\ k[t].pc = "read_inode" => k[t].slot = s
    /\ k'[t].pc # "read_inode"
    /\ \A i \in Inode \ {Id(s)} : disk'[i] = disk[i] /\ written'[i] = written[i]
    /\ Locks(t)' \in {None, s}
    /\ Locks(t) \in {None, s}
    /\ inode_table'[s].i_lock => Locks(t)' = s \/ (inode_table[s].i_lock /\ Locks(t) # s)

(* and what it must leave to the others.                                   *)
Spares(t, s, u) ==
    /\ Sole(u) # s
    /\ Locks(u) = s => inode_table'[s].i_lock /\ Locks(t)' = None
    /\ k[u].pc = "wait_iget" =>
         /\ k[u].want = Id(s) =>
              /\ written'[Id(s)] # Unlinked
              /\ Freeable(Id(s)) => inode_table'[s].val # Unlinked /\ held'[t] # s
         /\ k[u].want = Root => sb'.s_imount # None
    /\ k[u].then = "umount" => /\ sb'.s_imount = sb.s_imount
                               /\ k[u].slot = s => ~inode_table'[s].i_mount
    /\ k[u].pc = "reading_super" => sb'.s_lock /\ k'[t].pc # "reading_super"

LEMMA TouchSound ==
    ASSUME Careful(setup), TableParts, NEW t \in Task, NEW s \in Slot, Touch(t, s),
           \A u \in Task \ {t} : Spares(t, s, u),
           SuperOK', CallOK(t)', SlotOK(s)', \A i \in Inode : i = Id(s) => InodeOK(i)'
    PROVE  TableParts'
<1>1. /\ TableTypeOK /\ OneSlot /\ setup' = setup /\ imap' = imap /\ s # None /\ TableTypeOK' /\ ~panicked'
      /\ \A u \in Task \ {t} : k'[u] = k[u] /\ held'[u] = held[u]
      /\ inode_table'[s].id = Id(s) /\ Locks(t)' \in {None, s}
      /\ \A x \in Slot \ {s} : inode_table'[x] = inode_table[x]
      /\ \A x \in Slot : inode_table'[x].id = Id(x)
  BY TableConstants DEF TableParts, Touch, Id
<1>2. ASSUME NEW u \in Task \ {t} PROVE Left(u)
  <2>1. CallOK(u) /\ Spares(t, s, u) BY DEF TableParts
  <2>2. Sole(u) # None => Sole(u) \in Slot BY SoleIs
  <2>3. Locks(u) \in Slot \cup {None} BY Typed, <1>1 DEF Locks
  <2>4. k[u].pc = "wait_iget" => Unheld(k[u].want)'
    <3>1. SUFFICES ASSUME k[u].pc = "wait_iget", Freeable(k[u].want), NEW x \in Slot,
                          inode_table'[x].id = k[u].want
                   PROVE  inode_table'[x].val # Unlinked /\ \A v \in Task : held'[v] # x
      BY <1>1 DEF Unheld, Freeable, Id
    <3>2. Id(x) = k[u].want BY <1>1, <3>1
    <3>3. inode_table[x].val # Unlinked /\ \A v \in Task : held[v] # x
      BY <2>1, <3>1, <3>2 DEF CallOK, Unheld
    <3>4. CASE x = s BY <3>1, <3>2, <3>3, <3>4, <2>1, <1>1 DEF Spares
    <3>5. CASE x # s
      <4>1. held'[t] # x BY <3>3, <3>5 DEF Touch
      <4>. QED BY <3>3, <3>5, <4>1, <1>1
    <3>. QED BY <3>4, <3>5
  <2>5. k[u].pc = "wait_iget" => written'[k[u].want] # Unlinked
    <3>1. k[u].pc = "wait_iget" => k[u].want \in Inode /\ written[k[u].want] # Unlinked
      BY <2>1 DEF CallOK
    <3>. QED BY <2>1, <3>1 DEF Spares, Touch
  <2>6. k[u].then = "umount" => k[u].slot \in Slot /\ ~inode_table[k[u].slot].i_mount
    BY <2>1, Typed, <1>1 DEF CallOK
  <2>7. Locks(u) # None => inode_table'[Locks(u)].i_lock /\ inode_table'[Locks(u)].id = Id(Locks(u))
    BY <2>1, <2>3, <1>1 DEF CallOK, Spares
  <2>. QED BY <1>1, <2>1, <2>2, <2>4, <2>5, <2>6, <2>7 DEF Left, Spares
<1>3. Locks(t)' # None => \A u \in Task \ {t} : Locks(u) # Locks(t)'
  BY <1>1 DEF Spares
<1>4. k'[t].pc = "reading_super" => \A u \in Task \ {t} : k[u].pc # "reading_super"
  BY DEF Spares
<1>5. LockedBy'
  <2>1. \A u \in Task \ {t} : Locks(u)' = Locks(u) BY <1>1 DEF Locks, Writing
  <2>2. \A x \in Slot : inode_table'[x].i_lock =>
               \/ Locks(t)' = x
               \/ inode_table[x].i_lock /\ Locks(t) # x
    BY <1>1, TableConstants DEF Touch
  <2>. QED BY <2>1, <2>2, LockedByIs
<1>6. ASSUME NEW x \in Slot \ {s} PROVE SlotOK(x)'
  <2>1. Id(x) # NoInode => Id(x) \in Inode \ {Id(s)}
    BY <1>1, Typed DEF OneSlot
  <2>2. Id(x) # NoInode => disk'[Id(x)] = disk[Id(x)] /\ written'[Id(x)] = written[Id(x)]
    BY <2>1 DEF Touch
  <2>3. ~(k'[t].pc = "read_inode" /\ k'[t].slot = x) /\ ~(k[t].pc = "read_inode" /\ k[t].slot = x)
    BY DEF Touch
  <2>4. /\ held'[t] = x <=> held[t] = x
        /\ k'[t].empty = x <=> k[t].empty = x
        /\ Work(t)' = x <=> Work(t) = x
        /\ sb'.s_imount = x <=> sb.s_imount = x
    BY DEF Touch
  <2>. QED BY <1>1, <2>2, <2>3, <2>4, SlotKept
<1>7. ASSUME NEW i \in Inode \ {Id(s)} PROVE InodeOK(i)'
  <2>1. disk'[i] = disk[i] /\ written'[i] = written[i] BY DEF Touch
  <2>2. \A x \in Slot : Id(x) = i => \E y \in Slot : inode_table'[y].id = i BY <1>1
  <2>. QED BY <1>1, <2>1, <2>2, InodeKept
<1>8. OneSlot' BY <1>1 DEF OneSlot, Id
<1>9. (\A x \in Slot : SlotOK(x)') /\ (\A i \in Inode : InodeOK(i)') BY <1>6, <1>7
<1>. QED BY <1>1, <1>2, <1>3, <1>4, <1>5, <1>8, <1>9, StepSound

LEMMA UsedIs ==
    ASSUME TableParts, NEW t \in Task, NEW s \in Slot, Uses(t, s)
    PROVE  /\ inode_table[s].i_count = Users(s) /\ Users(s) \in Nat \ {0}
           /\ \A u \in Task \ {t} : Sole(u) # s
           /\ k[t].pc # "read_inode" => ~Reading(s)
<1>1. inode_table[s].i_count = Users(s) /\ inode_table[s].i_count \in Nat
  BY Typed DEF TableParts, SlotOK
<1>2. Users(s) # 0 BY UsersAre
<1>3. ASSUME NEW u \in Task \ {t} PROVE Sole(u) # s BY SoleIs, TableConstants
<1>4. k[t].pc # "read_inode" => ~Reading(s) BY <1>3 DEF Reading, Sole
<1>. QED BY <1>1, <1>2, <1>3, <1>4

LEMMA ReadInodeSound ==
    ASSUME Careful(setup), TableParts, NEW t \in Task, ReadInode(t)
    PROVE  TableParts'
<1>1. PICK s : s = k[t].slot OBVIOUS
<1>2. /\ TableTypeOK /\ CallOK(t) /\ SuperOK /\ k[t].pc = "read_inode" /\ k[t].empty \in Slot \cup {None}
      /\ inode_table' = [inode_table EXCEPT ![s].val = disk[inode_table[s].id], ![s].i_lock = FALSE]
      /\ held' = [held EXCEPT ![t] = s] /\ Return(t)
      /\ UNCHANGED <<setup, imap, disk, written, sb, panicked>>
  BY <1>1, Typed DEF TableParts, ReadInode, At
<1>3. s \in Slot /\ s # None /\ k[t].then = "return" /\ held[t] = None /\ Locks(t) = s /\ Sole(t) = s
      /\ Work(t) = s /\ k[t].empty = None /\ ~inode_table[s].i_dirt
      /\ (Id(s) = Root \/ <<t, Id(s)>> \in setup.find) /\ Id(s) # NoInode
  BY <1>1, <1>2, Typed, TableConstants DEF CallOK, Locks, Sole, Work
<1>4. SlotOK(s) /\ Reading(s) /\ Id(s) \in Inode /\ inode_table[s] \in Entry
  BY <1>1, <1>2, <1>3, Typed DEF TableParts, Reading
<1>5. /\ k' \in [Task -> Locals] /\ k'[t] = User /\ \A u \in Task \ {t} : k'[u] = k[u]
      /\ Work(t)' = None /\ Locks(t)' = None
      /\ k'[t].pc = "user" /\ k'[t].slot = None /\ k'[t].empty = None
  BY <1>2, ReturnIs
<1>6. /\ held' \in [Task -> Slot \cup {None}] /\ held'[t] = s
      /\ \A u \in Task \ {t} : held'[u] = held[u]
  BY <1>2, <1>3 DEF TableTypeOK
<1>7. disk[Id(s)] \in {Unlinked} \cup Version BY <1>2, <1>4 DEF TableTypeOK
<1>8. /\ inode_table' \in [Slot -> Entry]
      /\ inode_table'[s] = [inode_table[s] EXCEPT !.val = disk[Id(s)], !.i_lock = FALSE]
      /\ \A x \in Slot \ {s} : inode_table'[x] = inode_table[x]
  <2>1. [inode_table[s] EXCEPT !.val = disk[Id(s)], !.i_lock = FALSE] \in Entry BY <1>4, <1>7 DEF Entry
  <2>2. inode_table' = [inode_table EXCEPT ![s] =
            [inode_table[s] EXCEPT !.val = disk[Id(s)], !.i_lock = FALSE]]
    BY <1>2, <1>3 DEF TableTypeOK, Id
  <2>. QED BY <2>1, <2>2, <1>2, <1>3 DEF TableTypeOK
<1>9. /\ inode_table'[s].id = Id(s) /\ inode_table'[s].val = disk[Id(s)] /\ ~inode_table'[s].i_lock
      /\ ~inode_table'[s].i_dirt /\ inode_table'[s].i_count = inode_table[s].i_count
      /\ inode_table'[s].i_mount = inode_table[s].i_mount
  BY <1>3, <1>4, <1>8 DEF Entry, Id
<1>10. TableTypeOK' BY <1>2, <1>5, <1>6, <1>8 DEF TableTypeOK
<1>11. Touch(t, s)
  <2>1. \A x \in Slot \ {s} :
                             /\ inode_table'[x] = inode_table[x]
                             /\ held'[t] = x <=> held[t] = x
                             /\ k'[t].empty = x <=> k[t].empty = x
                             /\ Work(t)' = x <=> Work(t) = x
                             /\ sb'.s_imount = x <=> sb.s_imount = x
    <3>. TAKE x \in Slot \ {s}
    <3>1. x # None /\ sb' = sb BY <1>2, TableConstants
    <3>2. inode_table'[x] = inode_table[x] BY <1>8
    <3>3. held'[t] # x /\ held[t] # x BY <1>3, <1>6, <3>1
    <3>4. k'[t].empty # x /\ k[t].empty # x BY <1>3, <1>5, <3>1
    <3>5. Work(t)' # x /\ Work(t) # x BY <1>3, <1>5, <3>1
    <3>. QED BY <3>1, <3>2, <3>3, <3>4, <3>5
  <2>2. ~panicked' BY <1>2 DEF TableParts
  <2>3. UNCHANGED <<setup, imap>> BY <1>2
  <2>4. \A i \in Inode \ {Id(s)} : disk'[i] = disk[i] /\ written'[i] = written[i] BY <1>2
  <2>. QED BY <1>1, <1>3, <1>5, <1>6, <1>9, <1>10, <2>1, <2>2, <2>3, <2>4 DEF Touch
<1>12. ASSUME NEW u \in Task \ {t} PROVE Spares(t, s, u)
  <2>1. CallOK(u) /\ Locks(u) # s BY <1>3 DEF TableParts, Apart
  <2>2. Sole(u) # s BY <1>3, UsedIs DEF Uses
  <2>3. k[u].pc = "wait_iget" /\ k[u].want = Id(s) => ~Freeable(Id(s))
    <3>. SUFFICES ASSUME k[u].pc = "wait_iget", k[u].want = Id(s), Freeable(Id(s)) PROVE FALSE OBVIOUS
    <3>1. <<t, Id(s)>> \in setup.find BY <1>3 DEF Freeable
    <3>. QED BY <3>1, OneFinder
  <2>4. k[u].then = "umount" => ~inode_table[k[u].slot].i_mount BY <2>1 DEF CallOK
  <2>. QED BY <1>2, <1>5, <1>9, <2>1, <2>2, <2>3, <2>4 DEF Spares, CallOK
<1>13. SuperOK' BY <1>2, <1>8, <1>9, Typed DEF SuperOK, Id
<1>14. CallOK(t)' BY <1>5 DEF CallOK, Writing, Sole, Locks, User
<1>15. SlotOK(s)'
  <2>1. Users(s)' = Users(s)
    <3>1. held'[t] = s /\ held[t] # s /\ Work(t)' # s /\ Work(t) = s /\ k[t].empty # s /\ k'[t].empty # s
          /\ sb'.s_imount = sb.s_imount
      BY <1>2, <1>3, <1>5, <1>6
    <3>2. /\ Users(s) \in Nat
          /\ Users(s)' = Users(s)
                + (IF held'[t] = s THEN 1 ELSE 0) - (IF held[t] = s THEN 1 ELSE 0)
                + (IF k'[t].empty = s THEN 1 ELSE 0) - (IF k[t].empty = s THEN 1 ELSE 0)
                + (IF Work(t)' = s THEN 1 ELSE 0) - (IF Work(t) = s THEN 1 ELSE 0)
                + (IF sb'.s_imount = s THEN 1 ELSE 0) - (IF sb.s_imount = s THEN 1 ELSE 0)
      BY <1>3, <1>5, <1>6, UsersStep
    <3>. QED BY <3>1, <3>2
  <2>2. ~Reading(s)'
    <3>1. \A u \in Task \ {t} : Locks(u) # s BY <1>3 DEF TableParts, Apart
    <3>. QED BY <3>1, <1>5 DEF Reading, Locks
  <2>3. InodeOK(Id(s)) BY <1>4 DEF TableParts
  <2>4. Freeable(Id(s))' = Freeable(Id(s)) /\ Id(s)' = Id(s) BY <1>2, <1>9 DEF Freeable, Id
  <2>. QED BY <1>2, <1>3, <1>4, <1>9, <2>1, <2>2, <2>3, <2>4 DEF SlotOK, InodeOK, Id, Freeable
<1>16. ASSUME NEW i \in Inode, i = Id(s) PROVE InodeOK(i)'
  BY <1>2, <1>3, <1>8, <1>9, InodeKept DEF Id
<1>. QED BY <1>3, <1>11, <1>12, <1>13, <1>14, <1>15, <1>16, TouchSound

LEMMA ForkSound ==
    ASSUME Careful(setup), TableParts, NEW f \in Task, NEW t \in Task \ {f}, Fork(f, t)
    PROVE  TableParts'
<1>1. PICK s : s = held[f] OBVIOUS
<1>2. /\ TableTypeOK /\ CallOK(t) /\ SuperOK /\ k[t].pc = "user" /\ k[f].pc = "user"
      /\ s \in Slot /\ s # None /\ held[t] = None /\ held[f] = s
      /\ inode_table' = [inode_table EXCEPT ![s].i_count = @ + 1]
      /\ held' = [held EXCEPT ![t] = s]
      /\ UNCHANGED <<setup, imap, disk, written, sb, k, panicked>>
  BY <1>1, Typed DEF TableParts, Fork, At
<1>3. /\ k[t].empty = None /\ Work(t) = None /\ Locks(t) = None /\ k[t].slot = None
      /\ Work(t)' = None /\ Locks(t)' = None /\ k[t].then = "return"
  BY <1>2 DEF CallOK, User, Work, Locks, Writing
<1>4. SlotOK(s) /\ inode_table[s] \in Entry /\ inode_table[s].i_count \in Nat
  BY <1>2, Typed DEF TableParts
<1>5. /\ held' \in [Task -> Slot \cup {None}] /\ held'[t] = s
      /\ \A u \in Task \ {t} : held'[u] = held[u]
  BY <1>2 DEF TableTypeOK
<1>6. /\ inode_table' \in [Slot -> Entry]
      /\ inode_table'[s] = [inode_table[s] EXCEPT !.i_count = @ + 1]
      /\ \A x \in Slot \ {s} : inode_table'[x] = inode_table[x]
  <2>1. [inode_table[s] EXCEPT !.i_count = @ + 1] \in Entry BY <1>4 DEF Entry
  <2>2. inode_table' = [inode_table EXCEPT ![s] = [inode_table[s] EXCEPT !.i_count = @ + 1]]
    BY <1>2 DEF TableTypeOK
  <2>. QED BY <2>1, <2>2, <1>2 DEF TableTypeOK
<1>7. /\ inode_table'[s].id = Id(s) /\ inode_table'[s].val = inode_table[s].val
      /\ inode_table'[s].i_lock = inode_table[s].i_lock /\ inode_table'[s].i_dirt = inode_table[s].i_dirt
      /\ inode_table'[s].i_count = inode_table[s].i_count + 1
      /\ inode_table'[s].i_mount = inode_table[s].i_mount
  BY <1>4, <1>6 DEF Entry, Id
<1>8. TableTypeOK' BY <1>2, <1>5, <1>6 DEF TableTypeOK
<1>9. Touch(t, s)
  <2>1. ASSUME NEW x \in Slot \ {s}
        PROVE  /\ inode_table'[x] = inode_table[x]
               /\ held'[t] # x /\ held[t] # x
               /\ k'[t] = k[t] /\ Work(t)' # x /\ Work(t) # x /\ sb' = sb
    BY <1>2, <1>3, <1>5, <1>6, TableConstants
  <2>2. ~panicked' BY <1>2 DEF TableParts
  <2>. QED BY <1>2, <1>3, <1>5, <1>7, <1>8, <2>1, <2>2 DEF Touch
<1>10. Uses(f, s) /\ ~Reading(s) /\ \A u \in Task \ {t} : Sole(u) # s
  <2>1. Uses(f, s) BY <1>2 DEF Uses
  <2>2. Sole(f) # s BY <1>2, SoleIs
  <2>. QED BY <1>2, <2>1, <2>2, UsedIs
<1>11. ASSUME NEW u \in Task \ {t} PROVE Spares(t, s, u)
  <2>1. CallOK(u) BY DEF TableParts
  <2>2. k[u].pc = "wait_iget" /\ k[u].want = Id(s) => ~Freeable(Id(s)) /\ written[Id(s)] # Unlinked
    BY <1>2, <2>1 DEF CallOK, Unheld
  <2>3. k[u].pc = "wait_iget" /\ k[u].want = Root => sb.s_imount # None BY <2>1 DEF CallOK
  <2>4. k[u].then = "umount" => ~inode_table[k[u].slot].i_mount BY <2>1 DEF CallOK
  <2>5. Locks(u) = s => inode_table[s].i_lock BY <2>1, <1>2 DEF CallOK
  <2>6. k[u].pc = "reading_super" => sb.s_lock BY <2>1 DEF CallOK
  <2>. QED BY <1>2, <1>3, <1>7, <1>10, <2>2, <2>3, <2>4, <2>5, <2>6 DEF Spares
<1>12. SuperOK'
  <2>1. \A x \in Slot : inode_table'[x].id = Id(x) BY <1>6, <1>7 DEF Id
  <2>. QED BY <1>2, <2>1, Typed DEF SuperOK, Id
<1>13. CallOK(t)' BY <1>2 DEF CallOK, Writing, Sole, Locks, User
<1>14. SlotOK(s)'
  <2>1. Users(s)' = Users(s) + 1
    <3>1. held'[t] = s /\ held[t] # s /\ Work(t)' # s /\ Work(t) # s /\ k[t].empty # s /\ k'[t].empty # s
          /\ sb'.s_imount = sb.s_imount
      BY <1>2, <1>3, <1>5
    <3>2. /\ Users(s) \in Nat
          /\ Users(s)' = Users(s)
                + (IF held'[t] = s THEN 1 ELSE 0) - (IF held[t] = s THEN 1 ELSE 0)
                + (IF k'[t].empty = s THEN 1 ELSE 0) - (IF k[t].empty = s THEN 1 ELSE 0)
                + (IF Work(t)' = s THEN 1 ELSE 0) - (IF Work(t) = s THEN 1 ELSE 0)
                + (IF sb'.s_imount = s THEN 1 ELSE 0) - (IF sb.s_imount = s THEN 1 ELSE 0)
      BY <1>2, <1>5, UsersStep
    <3>. QED BY <3>1, <3>2
  <2>2. Reading(s)' <=> Reading(s) BY <1>2 DEF Reading
  <2>3. inode_table[s].i_count = Users(s) /\ Users(s) \in Nat \ {0} BY <1>2, <1>10, UsedIs
  <2>. QED BY <1>2, <1>4, <1>7, <1>10, <2>1, <2>2, <2>3 DEF SlotOK, Id, Freeable
<1>15. ASSUME NEW i \in Inode, i = Id(s) PROVE InodeOK(i)'
  BY <1>2, <1>6, <1>7, InodeKept DEF Id
<1>. QED BY <1>2, <1>9, <1>11, <1>12, <1>13, <1>14, <1>15, TouchSound

LEMMA ModifySound ==
    ASSUME Careful(setup), TableParts, NEW t \in Task, Modify(t)
    PROVE  TableParts'
<1>1. PICK s : s = held[t] OBVIOUS
<1>2. PICK v : v = 3 - inode_table[s].val OBVIOUS
<1>3. /\ TableTypeOK /\ CallOK(t) /\ SuperOK /\ k[t].pc = "user"
      /\ s \in Slot /\ s # None /\ held[t] = s
      /\ inode_table[s].val \in Version /\ Id(s) # NoInode /\ v \in Version /\ v # Unlinked
      /\ inode_table' = [inode_table EXCEPT ![s].val = 3 - @, ![s].i_dirt = TRUE]
      /\ written' = [written EXCEPT ![Id(s)] = v]
      /\ UNCHANGED <<setup, imap, disk, sb, k, held, panicked>>
  BY <1>1, <1>2, Typed DEF TableParts, Modify, At, Id, Version, Unlinked
<1>4. Locks(t) = None /\ Locks(t)' = None
  BY <1>3 DEF CallOK, User, Locks, Writing
<1>5. SlotOK(s) /\ inode_table[s] \in Entry /\ Id(s) \in Inode
  BY <1>3, Typed DEF TableParts
<1>6. /\ inode_table' \in [Slot -> Entry]
      /\ inode_table'[s] = [inode_table[s] EXCEPT !.val = v, !.i_dirt = TRUE]
      /\ \A x \in Slot \ {s} : inode_table'[x] = inode_table[x]
  <2>1. [inode_table[s] EXCEPT !.val = v, !.i_dirt = TRUE] \in Entry BY <1>3, <1>5 DEF Entry
  <2>2. inode_table' = [inode_table EXCEPT ![s] = [inode_table[s] EXCEPT !.val = v, !.i_dirt = TRUE]]
    BY <1>2, <1>3, <1>5 DEF TableTypeOK, Entry
  <2>. QED BY <2>1, <2>2, <1>3 DEF TableTypeOK
<1>7. /\ inode_table'[s].id = Id(s) /\ inode_table'[s].val = v
      /\ inode_table'[s].i_lock = inode_table[s].i_lock /\ inode_table'[s].i_dirt
      /\ inode_table'[s].i_count = inode_table[s].i_count
      /\ inode_table'[s].i_mount = inode_table[s].i_mount
  BY <1>5, <1>6 DEF Entry, Id
<1>8. /\ written' \in [Inode -> {Unlinked} \cup Version] /\ written'[Id(s)] = v
      /\ \A i \in Inode \ {Id(s)} : written'[i] = written[i]
  BY <1>3, <1>5 DEF TableTypeOK
<1>9. TableTypeOK' BY <1>3, <1>6, <1>8 DEF TableTypeOK
<1>10. Touch(t, s)
  <2>1. ASSUME NEW x \in Slot \ {s}
        PROVE  /\ inode_table'[x] = inode_table[x]
               /\ held' = held /\ k' = k /\ Work(t)' = Work(t) /\ sb' = sb
    BY <1>3, <1>6 DEF Work
  <2>2. ~panicked' BY <1>3 DEF TableParts
  <2>. QED BY <1>3, <1>4, <1>7, <1>8, <1>9, <2>1, <2>2 DEF Touch
<1>11. ~Reading(s) /\ \A u \in Task \ {t} : Sole(u) # s
  <2>1. Uses(t, s) BY <1>3 DEF Uses
  <2>. QED BY <1>3, <2>1, UsedIs
<1>12. ASSUME NEW u \in Task \ {t} PROVE Spares(t, s, u)
  <2>1. CallOK(u) BY DEF TableParts
  <2>2. k[u].pc = "wait_iget" /\ k[u].want = Root => sb.s_imount # None BY <2>1 DEF CallOK
  <2>3. k[u].then = "umount" => ~inode_table[k[u].slot].i_mount BY <2>1 DEF CallOK
  <2>4. Locks(u) = s => inode_table[s].i_lock BY <2>1, <1>3 DEF CallOK
  <2>5. k[u].pc = "reading_super" => sb.s_lock BY <2>1 DEF CallOK
  <2>6. k[u].pc = "wait_iget" /\ k[u].want = Id(s) => ~Freeable(Id(s))
    BY <1>3, <2>1 DEF CallOK, Unheld
  <2>. QED BY <1>3, <1>4, <1>7, <1>8, <1>11, <2>2, <2>3, <2>4, <2>5, <2>6 DEF Spares
<1>13. SuperOK'
  <2>1. \A x \in Slot : inode_table'[x].id = Id(x) BY <1>6, <1>7 DEF Id
  <2>. QED BY <1>3, <2>1, Typed DEF SuperOK, Id
<1>14. CallOK(t)' BY <1>3 DEF CallOK, Writing, Sole, Locks, User
<1>15. SlotOK(s)'
  <2>1. Users(s)' = Users(s) BY <1>3 DEF Users
  <2>2. Reading(s)' <=> Reading(s) BY <1>3 DEF Reading
  <2>3. inode_table[s].i_count = Users(s) /\ Users(s) \in Nat \ {0}
    <3>1. Uses(t, s) BY <1>3 DEF Uses
    <3>. QED BY <1>3, <3>1, UsedIs
  <2>. QED BY <1>3, <1>5, <1>7, <1>8, <1>11, <2>1, <2>2, <2>3 DEF SlotOK, Id, Freeable
<1>16. ASSUME NEW i \in Inode, i = Id(s) PROVE InodeOK(i)'
  <2>1. InodeOK(i) /\ i \in imap BY <1>3, <1>5, <1>16 DEF TableParts, SlotOK, Id
  <2>. QED BY <2>1, <1>3, <1>7, <1>8, <1>16 DEF InodeOK, Freeable, Id
<1>. QED BY <1>3, <1>10, <1>12, <1>13, <1>14, <1>15, <1>16, TouchSound

LEMMA CopyInodeSound ==
    ASSUME Careful(setup), TableParts, NEW t \in Task, CopyInode(t)
    PROVE  TableParts'
<1>1. PICK s : s = Locks(t) OBVIOUS
<1>. DEFINE l == [k[t] EXCEPT !.pc = "written"]
<1>2. /\ TableTypeOK /\ CallOK(t) /\ SuperOK /\ k[t].pc = "write_inode" /\ Writing(t) /\ k[t] \in Locals
      /\ s = IF k[t].by = "sync" THEN k[t].n ELSE k[t].slot
      /\ s \in Slot /\ s # None /\ inode_table[s].i_lock /\ k[t].want = Id(s) /\ Id(s) # NoInode
      /\ Id(s) \in Inode /\ inode_table[s] \in Entry /\ SlotOK(s)
  <2>1. TableTypeOK /\ CallOK(t) /\ SuperOK /\ k[t].pc = "write_inode" /\ Writing(t) /\ k[t] \in Locals
    BY Typed DEF TableParts, CopyInode, At, Writing
  <2>2. s = IF k[t].by = "sync" THEN k[t].n ELSE k[t].slot
    BY <1>1, <2>1, Typed DEF Locks
  <2>3. s \in Slot /\ s # None
    BY <1>1, <2>1, <2>2, Typed, TableConstants DEF CallOK
  <2>4. inode_table[s].i_lock /\ k[t].want = Id(s) /\ Id(s) # NoInode
    BY <1>1, <2>1, <2>3 DEF CallOK
  <2>. QED BY <2>1, <2>2, <2>3, <2>4, Typed DEF TableParts
<1>3. /\ inode_table' = [inode_table EXCEPT ![s] = [inode_table[s] EXCEPT !.i_dirt = FALSE]]
      /\ disk' = [disk EXCEPT ![Id(s)] = inode_table[s].val]
      /\ To(t, l)
      /\ UNCHANGED <<setup, imap, written, sb, held, panicked>>
  BY <1>2 DEF CopyInode, TableTypeOK
<1>4. /\ l \in Locals /\ l.pc = "written" /\ l.slot = k[t].slot /\ l.empty = k[t].empty
      /\ l.want = k[t].want /\ l.n = k[t].n /\ l.by = k[t].by /\ l.then = k[t].then
  BY <1>2 DEF Locals, CallPcs
<1>. HIDE DEF l
<1>5. k' \in [Task -> Locals] /\ k'[t] = l /\ \A u \in Task \ {t} : k'[u] = k[u]
  BY <1>2, <1>3, <1>4, ToIs
<1>6. /\ k'[t].pc = "written" /\ k'[t].slot = k[t].slot /\ k'[t].empty = k[t].empty
      /\ k'[t].want = k[t].want /\ k'[t].n = k[t].n /\ k'[t].by = k[t].by /\ k'[t].then = k[t].then
      /\ Work(t)' = Work(t) /\ Locks(t)' = s /\ Writing(t)' /\ Sole(t)' = Sole(t)
  BY <1>1, <1>2, <1>4, <1>5 DEF Work, Locks, Writing, Sole
<1>7. [inode_table[s] EXCEPT !.i_dirt = FALSE] \in Entry BY <1>2 DEF Entry
<1>8. /\ inode_table' \in [Slot -> Entry]
      /\ inode_table'[s] = [inode_table[s] EXCEPT !.i_dirt = FALSE]
      /\ \A x \in Slot \ {s} : inode_table'[x] = inode_table[x]
  BY <1>2, <1>3, <1>7 DEF TableTypeOK
<1>9. /\ inode_table'[s].id = Id(s) /\ inode_table'[s].val = inode_table[s].val
      /\ inode_table'[s].i_lock /\ ~inode_table'[s].i_dirt
      /\ inode_table'[s].i_count = inode_table[s].i_count
      /\ inode_table'[s].i_mount = inode_table[s].i_mount
  BY <1>2, <1>8 DEF Entry, Id
<1>10. /\ disk' \in [Inode -> {Unlinked} \cup Version] /\ disk'[Id(s)] = inode_table[s].val
       /\ \A i \in Inode \ {Id(s)} : disk'[i] = disk[i]
  BY <1>2, <1>3, Typed DEF TableTypeOK
<1>11. TableTypeOK' BY <1>2, <1>3, <1>5, <1>8, <1>10 DEF TableTypeOK
<1>12. Touch(t, s)
  <2>1. ASSUME NEW x \in Slot \ {s}
        PROVE  /\ inode_table'[x] = inode_table[x]
               /\ held' = held /\ k'[t].empty = k[t].empty /\ Work(t)' = Work(t) /\ sb' = sb
    BY <1>3, <1>6, <1>8
  <2>2. ~panicked' BY <1>3 DEF TableParts
  <2>3. Locks(t) = s /\ k[t].pc # "read_inode" /\ k'[t].pc # "read_inode" BY <1>1, <1>2, <1>6
  <2>4. \A i \in Inode \ {Id(s)} : disk'[i] = disk[i] /\ written'[i] = written[i] BY <1>3, <1>10
  <2>5. \A u \in Task \ {t} : k'[u] = k[u] /\ held'[u] = held[u] BY <1>3, <1>5
  <2>6. UNCHANGED <<setup, imap>> BY <1>3
  <2>7. \A x \in Slot \ {s} :
          /\ inode_table'[x] = inode_table[x]
          /\ held'[t] = x <=> held[t] = x
          /\ k'[t].empty = x <=> k[t].empty = x
          /\ Work(t)' = x <=> Work(t) = x
          /\ sb'.s_imount = x <=> sb.s_imount = x
    BY <2>1
  <2>8. inode_table'[s].id = Id(s) /\ Locks(t)' = s BY <1>6, <1>9
  <2>9. inode_table'[s].i_lock => Locks(t)' = s \/ (inode_table[s].i_lock /\ Locks(t) # s) BY <2>8
  <2>10. Locks(t)' \in {None, s} /\ Locks(t) \in {None, s} BY <2>3, <2>8
  <2>11. (k[t].pc = "read_inode" => k[t].slot = s) /\ k'[t].pc # "read_inode" BY <2>3
  <2>. QED BY <1>11, <2>2, <2>4, <2>5, <2>6, <2>7, <2>8, <2>9, <2>10, <2>11 DEF Touch
<1>13. \A u \in Task \ {t} : Locks(u) # s /\ Sole(u) # s
  <2>. SUFFICES ASSUME NEW u \in Task \ {t} PROVE Locks(u) # s /\ Sole(u) # s OBVIOUS
  <2>1. Locks(u) # s BY <1>1, <1>2 DEF TableParts, Apart
  <2>2. CallOK(u) /\ k[u].by \in {"iput", "sync"} BY <1>2, Typed DEF TableParts
  <2>3. k[u].pc = "truncate" => Sole(u) # s
    <3>. SUFFICES ASSUME k[u].pc = "truncate", Sole(u) = s PROVE FALSE OBVIOUS
    <3>1. setup.unlink # {} BY <2>2 DEF CallOK, Freeable
    <3>2. k[t].by = "iput" BY <1>2, <3>1, Typed DEF CallOK
    <3>3. Sole(t) = s BY <1>2, <3>2 DEF Sole
    <3>4. Uses(u, s) BY <1>2, SoleIs, <2>2 DEF Uses, Work, Sole, CallOK
    <3>. QED BY <1>2, <3>3, <3>4, SoleIs
  <2>4. k[u].pc = "wait_iget" => Sole(u) # s BY <1>2, <2>2 DEF CallOK, Sole
  <2>. QED BY <2>1, <2>3, <2>4, <1>2 DEF Sole, Locks, Writing
<1>14. ASSUME NEW u \in Task \ {t} PROVE Spares(t, s, u)
  <2>1. CallOK(u) BY DEF TableParts
  <2>2. k[u].pc = "wait_iget" /\ k[u].want = Root => sb.s_imount # None BY <2>1 DEF CallOK
  <2>3. k[u].then = "umount" => ~inode_table[k[u].slot].i_mount BY <2>1 DEF CallOK
  <2>4. k[u].pc = "reading_super" => sb.s_lock BY <2>1 DEF CallOK
  <2>5. k[u].pc = "wait_iget" /\ k[u].want = Id(s) =>
           /\ written[Id(s)] # Unlinked
           /\ Freeable(Id(s)) => inode_table[s].val # Unlinked /\ held[t] # s
    BY <1>2, <2>1 DEF CallOK, Unheld
  <2>. QED BY <1>3, <1>6, <1>9, <1>13, <2>2, <2>3, <2>4, <2>5 DEF Spares
<1>15. SuperOK'
  <2>1. \A x \in Slot : inode_table'[x].id = Id(x) BY <1>8, <1>9 DEF Id
  <2>. QED BY <1>2, <1>3, <2>1, Typed DEF SuperOK, Id
<1>16. ~Reading(s) /\ ~Reading(s)'
  <2>1. \A u \in Task : k[u].pc = "read_inode" => k[u].slot # s
    BY <1>2, <1>13 DEF Locks
  <2>. QED BY <2>1, <1>5, <1>6 DEF Reading
<1>17. CallOK(t)'
  <2>1. held'[t] = held[t] /\ sb' = sb /\ setup' = setup BY <1>3
  <2>2. Sole(t) # None => inode_table'[Sole(t)].i_count = 1
    <3>1. Sole(t) # None => inode_table[Sole(t)].i_count = 1 /\ Sole(t) \in Slot BY SoleIs
    <3>. QED BY <3>1, <1>8, <1>9
  <2>3. k[t].by = "iput" => s = k[t].slot /\ inode_table'[k[t].slot].val # Unlinked
    BY <1>2, <1>9 DEF CallOK
  <2>4. k[t].by = "sync" =>
         /\ setup.unlink = {}
         /\ \/ k[t].then = "iput" /\ k[t].slot # None /\ inode_table'[k[t].slot].id \in setup.blk
            \/ k[t].then = "return" /\ k[t].slot = None
    <3>1. \A x \in Slot : inode_table'[x].id = Id(x) BY <1>8, <1>9 DEF Id
    <3>. QED BY <3>1, <1>2, Typed DEF CallOK
  <2>5. k[t].then = "umount" => /\ k[t].by = "iput" /\ k[t].slot = sb.s_imount /\ k[t].slot # None
                                /\ t \in setup.umount /\ ~inode_table'[k[t].slot].i_mount
    BY <1>2, <1>9, <2>3 DEF CallOK, Writing
  <2>6. k[t].empty = None /\ (k[t].by = "iput" => k[t].slot # None)
       /\ k[t].then \in {"return", "iput", "umount"} /\ (k[t].then = "iput" => k[t].by = "sync")
    BY <1>2, Typed DEF CallOK
  <2>. QED BY <1>2, <1>6, <1>9, <2>1, <2>2, <2>3, <2>4, <2>5, <2>6 DEF CallOK, Id
<1>18. SlotOK(s)'
  <2>1. Users(s)' = Users(s)
    <3>1. held' = held /\ Work(t)' = Work(t) /\ k'[t].empty = k[t].empty /\ sb' = sb
      BY <1>3, <1>6
    <3>2. /\ Users(s) \in Nat
          /\ Users(s)' = Users(s)
                + (IF held'[t] = s THEN 1 ELSE 0) - (IF held[t] = s THEN 1 ELSE 0)
                + (IF k'[t].empty = s THEN 1 ELSE 0) - (IF k[t].empty = s THEN 1 ELSE 0)
                + (IF Work(t)' = s THEN 1 ELSE 0) - (IF Work(t) = s THEN 1 ELSE 0)
                + (IF sb'.s_imount = s THEN 1 ELSE 0) - (IF sb.s_imount = s THEN 1 ELSE 0)
      BY <1>2, <1>3, <1>5, UsersStep
    <3>. QED BY <3>1, <3>2
  <2>2. /\ inode_table[s].i_count = Users(s) /\ inode_table[s].i_count # 0 /\ Id(s) \in imap
        /\ inode_table[s].i_mount => sb.s_imount = s
        /\ Id(s) # Root => inode_table[s].val = written[Id(s)]
        /\ ~Freeable(Id(s)) => inode_table[s].val # Unlinked
    BY <1>2, <1>16 DEF SlotOK, Id
  <2>3. inode_table'[s].i_mount => sb'.s_imount = s BY <2>2, <1>3, <1>9
  <2>4. /\ inode_table'[s].i_count = Users(s)' /\ inode_table'[s].i_count # 0
    BY <1>9, <2>1, <2>2
  <2>5. /\ inode_table'[s].id \in imap' /\ inode_table'[s].id # NoInode
        /\ inode_table'[s].id # Root => inode_table'[s].val = written'[inode_table'[s].id]
        /\ disk'[inode_table'[s].id] = inode_table'[s].val
        /\ ~Freeable(inode_table'[s].id) => inode_table'[s].val # Unlinked
    BY <1>2, <1>3, <1>9, <1>10, <2>2
  <2>6. setup' = setup BY <1>3
  <2>. QED BY <1>9, <1>16, <2>3, <2>4, <2>5, <2>6 DEF SlotOK, Freeable
<1>19. ASSUME NEW i \in Inode, i = Id(s) PROVE InodeOK(i)'
  <2>1. InodeOK(i) /\ SlotOK(s) BY <1>2 DEF TableParts
  <2>2. ~Freeable(i) => inode_table[s].val # Unlinked
    <3>1. i # Root => inode_table[s].val = written[i] BY <1>2, <1>16, <1>19 DEF SlotOK, Id
    <3>. QED BY <1>2, <1>16, <1>19 DEF SlotOK, Id
  <2>. QED BY <2>1, <2>2, <1>2, <1>3, <1>9, <1>10, <1>19 DEF InodeOK, Freeable, Id
<1>. QED BY <1>2, <1>12, <1>14, <1>15, <1>17, <1>18, <1>19, TouchSound

(* A step of task t that has to do with slot s, but leaves the table.      *)
LEMMA StillSound ==
    ASSUME Careful(setup), TableParts, NEW t \in Task, NEW s \in Slot, Uses(t, s),
           k[t].pc \in {"user", "read_super", "reading_super"},
           UNCHANGED <<setup, inode_table, imap, disk, written, panicked>>, TableTypeOK',
           \A u \in Task \ {t} : k'[u] = k[u] /\ held'[u] = held[u],
           k[t].empty = None, k'[t].empty = None, sb'.s_imount = sb.s_imount,
           \/ held[t] = s /\ Work(t) = None /\ held'[t] = None /\ Work(t)' = s
           \/ Work(t) = s /\ Work(t)' = s /\ held'[t] = held[t],
           k'[t].pc \in {"read_super", "reading_super", "iput"},
           \A u \in Task \ {t} : k[u].pc = "reading_super" => sb'.s_lock /\ k'[t].pc # "reading_super",
           SuperOK', CallOK(t)'
    PROVE  TableParts'
<1>1. /\ TableTypeOK /\ CallOK(t) /\ Locks(t) = None /\ Locks(t)' = None /\ s # None
      /\ k[t].pc # "read_inode" /\ k'[t].pc # "read_inode" /\ sb.s_imount = sb'.s_imount
  BY TableConstants DEF TableParts, Locks, Writing
<1>2. Touch(t, s)
  <2>1. \A x \in Slot \ {s} :
          /\ inode_table'[x] = inode_table[x]
          /\ held'[t] = x <=> held[t] = x
          /\ k'[t].empty = x <=> k[t].empty = x
          /\ Work(t)' = x <=> Work(t) = x
          /\ sb'.s_imount = x <=> sb.s_imount = x
    BY TableConstants
  <2>2. ~panicked' BY DEF TableParts
  <2>. QED BY <1>1, <2>1, <2>2 DEF Touch, Id
<1>3. inode_table' = inode_table /\ written' = written /\ setup' = setup OBVIOUS
<1>4. ASSUME NEW u \in Task \ {t} PROVE Spares(t, s, u)
  <2>1. CallOK(u) /\ Sole(u) # s BY UsedIs DEF TableParts
  <2>2. k[u].pc = "wait_iget" /\ k[u].want = Root => sb.s_imount # None BY <2>1 DEF CallOK
  <2>3. k[u].then = "umount" => ~inode_table[k[u].slot].i_mount BY <2>1 DEF CallOK
  <2>4. k[u].pc = "wait_iget" /\ k[u].want = Id(s) =>
           /\ written[Id(s)] # Unlinked
           /\ Freeable(Id(s)) => inode_table[s].val # Unlinked /\ held[t] # s
    BY <2>1 DEF CallOK, Unheld
  <2>5. Locks(u) = s => inode_table[s].i_lock BY <2>1, <1>1 DEF CallOK
  <2>6. held'[t] = s => held[t] = s BY <1>1
  <2>. QED BY <1>1, <1>3, <2>1, <2>2, <2>3, <2>4, <2>5, <2>6 DEF Spares
<1>5. SlotOK(s)'
  <2>1. Users(s)' = Users(s)
    <3>1. /\ Users(s) \in Nat
          /\ Users(s)' = Users(s)
                + (IF held'[t] = s THEN 1 ELSE 0) - (IF held[t] = s THEN 1 ELSE 0)
                + (IF k'[t].empty = s THEN 1 ELSE 0) - (IF k[t].empty = s THEN 1 ELSE 0)
                + (IF Work(t)' = s THEN 1 ELSE 0) - (IF Work(t) = s THEN 1 ELSE 0)
                + (IF sb'.s_imount = s THEN 1 ELSE 0) - (IF sb.s_imount = s THEN 1 ELSE 0)
      BY UsersStep
    <3>. QED BY <1>1, <3>1
  <2>2. Reading(s)' <=> Reading(s) BY <1>1 DEF Reading
  <2>3. SlotOK(s) BY DEF TableParts
  <2>4. disk' = disk /\ written' = written /\ imap' = imap /\ inode_table' = inode_table
        /\ setup' = setup /\ sb'.s_imount = sb.s_imount
    OBVIOUS
  <2>. QED BY <2>1, <2>2, <2>3, <2>4 DEF SlotOK, Freeable
<1>6. ASSUME NEW i \in Inode, i = Id(s) PROVE InodeOK(i)'
  BY InodeKept DEF Id
<1>. QED BY <1>2, <1>4, <1>5, <1>6, TouchSound

LEMMA MountSound ==
    ASSUME Careful(setup), TableParts, NEW t \in Task, Mount(t)
    PROVE  TableParts'
<1>1. PICK s : s = held[t] OBVIOUS
<1>. DEFINE l == [k[t] EXCEPT !.pc = "read_super", !.slot = s]
<1>2. /\ TableTypeOK /\ CallOK(t) /\ SuperOK /\ k[t].pc = "user" /\ k[t] \in Locals
      /\ s \in Slot /\ s # None /\ held[t] = s /\ Id(s) \in setup.dirs
      /\ To(t, l) /\ held' = [held EXCEPT ![t] = None]
      /\ UNCHANGED <<setup, inode_table, imap, disk, written, sb, panicked>>
  BY <1>1, Typed DEF TableParts, Mount, At, Id
<1>3. k[t].empty = None /\ Work(t) = None /\ k[t].then = "return"
  BY <1>2 DEF CallOK, User, Work
<1>4. /\ l \in Locals /\ l.pc = "read_super" /\ l.slot = s /\ l.empty = None /\ l.then = "return"
  BY <1>2, <1>3 DEF Locals, CallPcs
<1>. HIDE DEF l
<1>5. k' \in [Task -> Locals] /\ k'[t] = l /\ \A u \in Task \ {t} : k'[u] = k[u]
  BY <1>2, <1>4, ToIs
<1>6. /\ held' \in [Task -> Slot \cup {None}] /\ held'[t] = None
      /\ \A u \in Task \ {t} : held'[u] = held[u]
  BY <1>2 DEF TableTypeOK
<1>7. TableTypeOK' BY <1>2, <1>5, <1>6 DEF TableTypeOK
<1>8. Work(t)' = s BY <1>4, <1>5 DEF Work
<1>9. SuperOK' BY <1>2 DEF SuperOK, Id
<1>10. CallOK(t)' BY <1>2, <1>4, <1>5 DEF CallOK, Writing, Sole, Locks, Id
<1>11. \A u \in Task \ {t} : k[u].pc = "reading_super" => sb'.s_lock /\ k'[t].pc # "reading_super"
  BY <1>2, <1>4, <1>5 DEF TableParts, CallOK
<1>12. k'[t].pc = "read_super" /\ k'[t].empty = None BY <1>4, <1>5
<1>13. Uses(t, s) BY <1>2 DEF Uses
<1>. QED BY <1>2, <1>3, <1>5, <1>6, <1>7, <1>8, <1>9, <1>10, <1>11, <1>12, <1>13, StillSound

LEMMA ReadSuperSound ==
    ASSUME Careful(setup), TableParts, NEW t \in Task, ReadSuper(t)
    PROVE  TableParts'
<1>1. PICK s : s = k[t].slot OBVIOUS
<1>. DEFINE l == [k[t] EXCEPT !.pc = "reading_super"]
<1>2. /\ TableTypeOK /\ CallOK(t) /\ SuperOK /\ k[t].pc = "read_super" /\ k[t] \in Locals
      /\ s \in Slot /\ s # None /\ k[t].slot = s /\ Id(s) \in setup.dirs
      /\ k[t].empty = None /\ k[t].then = "return"
      /\ ~sb.s_dev /\ sb' = [s_dev |-> TRUE, s_lock |-> TRUE, s_imount |-> None]
      /\ To(t, l)
      /\ UNCHANGED <<setup, inode_table, imap, disk, written, held, panicked>>
  <2>1. TableTypeOK /\ CallOK(t) /\ SuperOK /\ k[t].pc = "read_super" /\ k[t] \in Locals
    BY Typed DEF TableParts, ReadSuper, At
  <2>2. s \in Slot /\ s # None /\ Id(s) \in setup.dirs /\ k[t].empty = None /\ k[t].then = "return"
    BY <1>1, <2>1, Typed DEF CallOK
  <2>. QED BY <1>1, <2>1, <2>2 DEF ReadSuper
<1>3. Work(t) = s /\ Uses(t, s) BY <1>2 DEF Work, Uses
<1>4. /\ l \in Locals /\ l.pc = "reading_super" /\ l.slot = s /\ l.empty = None /\ l.then = "return"
  BY <1>2 DEF Locals, CallPcs
<1>. HIDE DEF l
<1>5. k' \in [Task -> Locals] /\ k'[t] = l /\ \A u \in Task \ {t} : k'[u] = k[u]
  BY <1>2, <1>4, ToIs
<1>6. /\ sb' \in [s_dev : BOOLEAN, s_lock : BOOLEAN, s_imount : Slot \cup {None}]
      /\ sb'.s_dev /\ sb'.s_lock /\ sb'.s_imount = None /\ sb.s_imount = None /\ ~sb.s_lock
  BY <1>2 DEF SuperOK
<1>7. TableTypeOK' BY <1>2, <1>5, <1>6 DEF TableTypeOK
<1>8. Work(t)' = s BY <1>4, <1>5 DEF Work
<1>9. SuperOK' BY <1>6 DEF SuperOK
<1>10. CallOK(t)' BY <1>2, <1>4, <1>5, <1>6 DEF CallOK, Writing, Sole, Locks, Id
<1>11. \A u \in Task \ {t} : k[u].pc # "reading_super"
  BY <1>6 DEF TableParts, CallOK
<1>12. k'[t].pc = "reading_super" /\ k'[t].empty = None BY <1>4, <1>5
<1>13. \A u \in Task \ {t} : k'[u] = k[u] /\ held'[u] = held[u] BY <1>2, <1>5
<1>. QED BY <1>2, <1>3, <1>6, <1>7, <1>8, <1>9, <1>10, <1>11, <1>12, <1>13, StillSound

LEMMA SuperFailsSound ==
    ASSUME Careful(setup), TableParts, NEW t \in Task, SuperFails(t)
    PROVE  TableParts'
<1>1. PICK s : s = k[t].slot OBVIOUS
<1>. DEFINE l == [k[t] EXCEPT !.pc = "iput", !.then = "return"]
<1>2. /\ TableTypeOK /\ CallOK(t) /\ SuperOK /\ k[t].pc = "reading_super" /\ k[t] \in Locals
      /\ s \in Slot /\ s # None /\ k[t].slot = s
      /\ k[t].empty = None /\ k[t].then = "return" /\ sb.s_lock
      /\ sb' = NotMounted /\ To(t, l)
      /\ UNCHANGED <<setup, inode_table, imap, disk, written, held, panicked>>
  <2>1. TableTypeOK /\ CallOK(t) /\ SuperOK /\ k[t].pc = "reading_super" /\ k[t] \in Locals
    BY Typed DEF TableParts, SuperFails, At
  <2>2. s \in Slot /\ s # None /\ k[t].empty = None /\ k[t].then = "return" /\ sb.s_lock
    BY <1>1, <2>1, Typed DEF CallOK
  <2>. QED BY <1>1, <2>1, <2>2 DEF SuperFails
<1>3. Work(t) = s /\ Uses(t, s) BY <1>2 DEF Work, Uses
<1>4. /\ l \in Locals /\ l.pc = "iput" /\ l.slot = s /\ l.empty = None /\ l.then = "return"
  BY <1>2 DEF Locals, CallPcs
<1>. HIDE DEF l
<1>5. k' \in [Task -> Locals] /\ k'[t] = l /\ \A u \in Task \ {t} : k'[u] = k[u]
  BY <1>2, <1>4, ToIs
<1>6. /\ sb' \in [s_dev : BOOLEAN, s_lock : BOOLEAN, s_imount : Slot \cup {None}]
      /\ ~sb'.s_lock /\ sb'.s_imount = None /\ sb.s_imount = None
  BY <1>2 DEF SuperOK, NotMounted
<1>7. TableTypeOK' BY <1>2, <1>5, <1>6 DEF TableTypeOK
<1>8. Work(t)' = s BY <1>4, <1>5 DEF Work
<1>9. SuperOK' BY <1>6 DEF SuperOK
<1>10. CallOK(t)' BY <1>2, <1>4, <1>5, <1>6 DEF CallOK, Writing, Sole, Locks, Id
<1>11. \A u \in Task \ {t} : k[u].pc # "reading_super"
  BY <1>2 DEF TableParts, Apart
<1>12. k'[t].pc = "iput" /\ k'[t].empty = None BY <1>4, <1>5
<1>13. \A u \in Task \ {t} : k'[u] = k[u] /\ held'[u] = held[u] BY <1>2, <1>5
<1>. QED BY <1>2, <1>3, <1>6, <1>7, <1>8, <1>9, <1>10, <1>11, <1>12, <1>13, StillSound

(* The end of sys_mount.                                                   *)
LEMMA MountedSound ==
    ASSUME Careful(setup), TableParts, NEW t \in Task, NEW s, s = k[t].slot,
           k[t].pc \in {"read_super", "reading_super"},
           \A u \in Task \ {t} : k[u].pc # "reading_super",
           sb.s_imount = None,
           sb' \in [s_dev : BOOLEAN, s_lock : BOOLEAN, s_imount : Slot \cup {None}],
           sb'.s_dev, ~sb'.s_lock, sb'.s_imount = s,
           inode_table' = [inode_table EXCEPT ![s] = [@ EXCEPT !.i_mount = TRUE, !.i_dirt = TRUE]],
           Return(t), UNCHANGED <<setup, imap, disk, written, held, panicked>>
    PROVE  TableParts'
<1>1. /\ TableTypeOK /\ CallOK(t) /\ SuperOK
      /\ s \in Slot /\ s # None /\ Id(s) \in setup.dirs /\ k[t].slot = s
      /\ k[t].empty = None /\ k[t].then = "return"
  BY Typed DEF TableParts, CallOK
<1>2. /\ Work(t) = s /\ Uses(t, s) /\ Locks(t) = None /\ SlotOK(s) /\ inode_table[s] \in Entry
      /\ k[t].pc # "read_inode" /\ held' = held
  BY <1>1, Typed DEF Work, Uses, Locks, Writing, TableParts
<1>3. /\ k' \in [Task -> Locals] /\ k'[t] = User /\ \A u \in Task \ {t} : k'[u] = k[u]
      /\ Work(t)' = None /\ Locks(t)' = None
      /\ k'[t].pc = "user" /\ k'[t].slot = None /\ k'[t].empty = None
  BY <1>1, ReturnIs
<1>4. /\ inode_table' \in [Slot -> Entry]
      /\ inode_table'[s] = [inode_table[s] EXCEPT !.i_mount = TRUE, !.i_dirt = TRUE]
      /\ \A x \in Slot \ {s} : inode_table'[x] = inode_table[x]
  <2>1. [inode_table[s] EXCEPT !.i_mount = TRUE, !.i_dirt = TRUE] \in Entry BY <1>2 DEF Entry
  <2>. QED BY <2>1, <1>1 DEF TableTypeOK
<1>5. /\ inode_table'[s].id = Id(s) /\ inode_table'[s].val = inode_table[s].val
      /\ inode_table'[s].i_lock = inode_table[s].i_lock /\ inode_table'[s].i_dirt
      /\ inode_table'[s].i_count = inode_table[s].i_count
      /\ inode_table'[s].i_mount
  BY <1>2, <1>4 DEF Entry, Id
<1>6. TableTypeOK' BY <1>1, <1>3, <1>4 DEF TableTypeOK
<1>7. Touch(t, s)
  <2>1. \A x \in Slot \ {s} :
          /\ inode_table'[x] = inode_table[x]
          /\ held'[t] = x <=> held[t] = x
          /\ k'[t].empty = x <=> k[t].empty = x
          /\ Work(t)' = x <=> Work(t) = x
          /\ sb'.s_imount = x <=> sb.s_imount = x
    BY <1>1, <1>2, <1>3, <1>4, TableConstants
  <2>2. ~panicked' BY DEF TableParts
  <2>. QED BY <1>1, <1>2, <1>3, <1>5, <1>6, <2>1, <2>2 DEF Touch
<1>8. ASSUME NEW u \in Task \ {t} PROVE Spares(t, s, u)
  <2>1. CallOK(u) /\ Sole(u) # s BY <1>1, <1>2, UsedIs DEF TableParts
  <2>2. k[u].pc = "wait_iget" => k[u].want # Root BY <2>1 DEF CallOK
  <2>3. k[u].then # "umount" BY <2>1 DEF CallOK
  <2>4. k[u].pc = "wait_iget" /\ k[u].want = Id(s) => written[Id(s)] # Unlinked /\ ~Freeable(Id(s))
    BY <1>1, <2>1 DEF CallOK, Freeable
  <2>5. Locks(u) = s => inode_table[s].i_lock BY <2>1, <1>1 DEF CallOK
  <2>. QED BY <1>3, <1>5, <2>1, <2>2, <2>3, <2>4, <2>5 DEF Spares
<1>9. SuperOK' BY <1>1, <1>5 DEF SuperOK, Id
<1>10. CallOK(t)' BY <1>3 DEF CallOK, Writing, Sole, Locks, User
<1>11. SlotOK(s)'
  <2>1. Users(s)' = Users(s)
    <3>1. /\ Users(s) \in Nat
          /\ Users(s)' = Users(s)
                + (IF held'[t] = s THEN 1 ELSE 0) - (IF held[t] = s THEN 1 ELSE 0)
                + (IF k'[t].empty = s THEN 1 ELSE 0) - (IF k[t].empty = s THEN 1 ELSE 0)
                + (IF Work(t)' = s THEN 1 ELSE 0) - (IF Work(t) = s THEN 1 ELSE 0)
                + (IF sb'.s_imount = s THEN 1 ELSE 0) - (IF sb.s_imount = s THEN 1 ELSE 0)
      BY <1>1, <1>2, <1>3, UsersStep
    <3>. QED BY <3>1, <1>1, <1>2, <1>3
  <2>2. ~Reading(s) BY <1>1, <1>2, UsedIs
  <2>3. ~Reading(s)' BY <2>2, <1>3 DEF Reading
  <2>4. inode_table[s].i_count # 0 BY <1>1, <1>2, UsedIs
  <2>5. Id(s) # NoInode
    BY <1>1, InodeAssumption DEF TableTypeOK
  <2>6. /\ Id(s) \in imap /\ inode_table[s].i_count = Users(s)
        /\ Id(s) # Root => inode_table[s].val = written[Id(s)]
        /\ ~Freeable(Id(s)) => inode_table[s].val # Unlinked
    BY <1>2, <2>2, <2>5 DEF SlotOK, Id
  <2>7. written' = written /\ imap' = imap /\ setup' = setup OBVIOUS
  <2>. QED BY <1>5, <2>1, <2>3, <2>4, <2>5, <2>6, <2>7 DEF SlotOK, Freeable
<1>12. ASSUME NEW i \in Inode, i = Id(s) PROVE InodeOK(i)'
  BY <1>1, <1>4, <1>5, <1>12, InodeKept DEF Id
<1>. QED BY <1>1, <1>7, <1>8, <1>9, <1>10, <1>11, <1>12, TouchSound

-----------------------------------------------------------------------------
(* iput of the inode in slot s, whose entry the caller leaves as b: task t *)
(* gives up its reference, or that of the mount.                           *)
Puts(t, s, b, then) ==
    /\ b \in Entry /\ b.id = Id(s) /\ b.i_count = inode_table[s].i_count
    /\ then \in {"return", "umount"}
    /\ then = "umount" => sb.s_imount = s /\ t \in setup.umount /\ ~b.i_mount /\ held' = held /\ Work(t) = None
    /\ then = "return" => \/ held[t] = s /\ held' = [held EXCEPT ![t] = None] /\ Work(t) = None
                          \/ Work(t) = s /\ held' = held
    /\ k[t].empty = None /\ k[t].pc # "read_inode" /\ Locks(t) \in {None, s}
    /\ UNCHANGED <<setup, imap, disk>>
    /\ written' \in [Inode -> {Unlinked} \cup Version]
    /\ \A i \in Inode : written'[i] # written[i] =>
                           i = Id(s) /\ i \in imap /\ Freeable(i) /\ i \notin setup.blk
    /\ b.id # NoInode => /\ b.id # Root => b.val = written'[b.id]
                         /\ ~b.i_dirt => disk[b.id] = b.val
                         /\ ~Freeable(b.id) => b.val # Unlinked
    /\ b.id = NoInode => ~b.i_dirt /\ ~b.i_lock
    /\ b.i_mount => inode_table[s].i_mount
    /\ b.i_lock => inode_table[s].i_lock /\ Locks(t) # s
    /\ inode_table[s].i_lock => b.i_lock \/ Locks(t) = s
    /\ \A u \in Task \ {t} : k[u].pc = "wait_iget" /\ k[u].want = Id(s) =>
           /\ written'[Id(s)] # Unlinked
           /\ Freeable(Id(s)) => b.val # Unlinked

LEMMA PutsIs ==
    ASSUME Careful(setup), TableParts, NEW t \in Task, NEW s \in Slot, NEW b, NEW then,
           Puts(t, s, b, then)
    PROVE  /\ ~Reading(s) /\ inode_table[s].i_count = Users(s) /\ Users(s) \in Nat \ {0}
           /\ \A u \in Task \ {t} : Sole(u) # s
           /\ then = "umount" => /\ \A u \in Task \ {t} : k[u].then # "umount"
                                 /\ \A u \in Task \ {t} : k[u].pc = "wait_iget" => k[u].want # Root
                                 /\ \A u \in Task : k[u].pc # "reading_super"
           /\ Id(s) # NoInode => Id(s) \in imap
<1>1. CASE then = "return"
  <2>1. Uses(t, s) /\ k[t].pc # "read_inode" BY <1>1 DEF Puts, Uses
  <2>2. Id(s) # NoInode => Id(s) \in imap BY DEF TableParts, SlotOK, Id
  <2>. QED BY <1>1, <2>1, <2>2, UsedIs
<1>2. CASE then = "umount"
  <2>1. sb.s_imount = s /\ s # None /\ t \in setup.umount BY <1>2, TableConstants DEF Puts
  <2>2. \A u \in Task : CallOK(u) BY DEF TableParts
  <2>3. ASSUME NEW u \in Task \ {t} PROVE k[u].then # "umount"
    <3>1. k[u].then = "umount" => u \in setup.umount BY <2>2 DEF CallOK
    <3>. QED BY <2>1, <3>1 DEF Careful
  <2>4. ASSUME NEW u \in Task \ {t}, k[u].pc = "wait_iget", k[u].want = Root PROVE FALSE
    <3>1. PICK d \in setup.dirs : <<u, d>> \in setup.find BY <2>2, <2>4 DEF CallOK
    <3>2. u \in {r[1] : r \in {q \in setup.find : q[2] \in setup.dirs}} BY <3>1
    <3>. QED BY <2>1, <3>2 DEF Careful
  <2>5. ASSUME NEW u \in Task PROVE k[u].pc # "reading_super"
    BY <2>1, <2>2 DEF CallOK, TableParts, SuperOK
  <2>6. Users(s) \in Nat /\ Users(s) # 0
    <3>1. Users(s) \in Nat /\ Users(s) >= (IF sb.s_imount = s THEN 1 ELSE 0) BY UsersIs, UserSets
    <3>. QED BY <2>1, <3>1
  <2>7. SlotOK(s) BY DEF TableParts
  <2>8. ASSUME NEW u \in Task \ {t} PROVE Sole(u) # s
    BY <2>1, <2>3, SoleIs
  <2>9. ~Reading(s) BY <1>2, <2>8 DEF Reading, Sole, Puts
  <2>. QED BY <2>3, <2>4, <2>5, <2>6, <2>7, <2>8, <2>9 DEF SlotOK, Id
<1>. QED BY <1>1, <1>2 DEF Puts

LEMMA PutStep ==
    ASSUME Careful(setup), TableParts, NEW t \in Task, NEW s \in Slot, NEW b, NEW then,
           Puts(t, s, b, then),
           k' \in [Task -> Locals], \A u \in Task \ {t} : k'[u] = k[u],
           NEW c \in Entry, inode_table' = [inode_table EXCEPT ![s] = c],
           c.id = b.id, c.val = b.val, c.i_mount = b.i_mount, b.i_dirt => c.i_dirt,
           c.i_lock => b.i_lock \/ Locks(t)' = s, b.i_lock => c.i_lock /\ Locks(t)' = None,
           Locks(t)' \in {None, s}, ~panicked', k'[t].empty = None,
           k'[t].pc \notin {"read_inode", "reading_super"},
           \/ /\ c.i_count = b.i_count /\ sb' = sb
              /\ then = "umount" => Work(t)' = None
              /\ then = "return" => Work(t)' = s
           \/ /\ c.i_count = b.i_count - 1 /\ Work(t)' = None
              /\ then = "umount" => sb' = NotMounted
              /\ then = "return" => sb' = sb,
           c.i_count = 0 => ~c.i_dirt /\ ~c.i_lock,
           c.id = NoInode => ~c.i_dirt /\ ~c.i_lock,
           CallOK(t)'
    PROVE  TableParts'
<1>1. /\ TableTypeOK /\ SuperOK /\ SlotOK(s) /\ s # None /\ b.i_count \in Nat
      /\ ~Reading(s) /\ inode_table[s].i_count = Users(s) /\ Users(s) \in Nat \ {0}
      /\ \A u \in Task \ {t} : Sole(u) # s
      /\ setup' = setup /\ imap' = imap /\ disk' = disk
      /\ b.id = Id(s) /\ b.i_count = Users(s)
      /\ held' \in [Task -> Slot \cup {None}] /\ \A u \in Task \ {t} : held'[u] = held[u]
      /\ then \in {"return", "umount"}
  <2>1. TableTypeOK /\ SuperOK /\ SlotOK(s) /\ s # None BY TableConstants DEF TableParts
  <2>2. /\ ~Reading(s) /\ inode_table[s].i_count = Users(s) /\ Users(s) \in Nat \ {0}
        /\ \A u \in Task \ {t} : Sole(u) # s
    BY PutsIs
  <2>3. held' = held \/ held' = [held EXCEPT ![t] = None] BY DEF Puts
  <2>. QED BY <2>1, <2>2, <2>3 DEF Puts, TableTypeOK
<1>2. /\ inode_table' \in [Slot -> Entry] /\ inode_table'[s] = c
      /\ \A x \in Slot \ {s} : inode_table'[x] = inode_table[x]
  BY <1>1 DEF TableTypeOK
<1>3. /\ sb' \in [s_dev : BOOLEAN, s_lock : BOOLEAN, s_imount : Slot \cup {None}]
      /\ sb' = sb \/ (then = "umount" /\ sb' = NotMounted)
      /\ sb' # sb => sb.s_imount = s
  <2>1. sb' = sb \/ (then = "umount" /\ sb' = NotMounted) BY <1>1
  <2>2. NotMounted \in [s_dev : BOOLEAN, s_lock : BOOLEAN, s_imount : Slot \cup {None}]
    BY DEF NotMounted
  <2>3. then = "umount" => sb.s_imount = s BY DEF Puts
  <2>. QED BY <1>1, <2>1, <2>2, <2>3 DEF TableTypeOK
<1>4. TableTypeOK' BY <1>1, <1>2, <1>3 DEF TableTypeOK, Puts
<1>5. Touch(t, s)
  <2>1. \A x \in Slot \ {s} :
          /\ inode_table'[x] = inode_table[x]
          /\ held'[t] = x <=> held[t] = x
          /\ k'[t].empty = x <=> k[t].empty = x
          /\ Work(t)' = x <=> Work(t) = x
          /\ sb'.s_imount = x <=> sb.s_imount = x
    <3>. TAKE x \in Slot \ {s}
    <3>1. x # None BY TableConstants
    <3>2. held'[t] = x <=> held[t] = x BY <1>1, <3>1 DEF Puts, TableTypeOK
    <3>3. k'[t].empty # x /\ k[t].empty # x BY <3>1 DEF Puts
    <3>4. Work(t)' # x /\ Work(t) # x BY <1>1, <3>1 DEF Puts
    <3>5. sb'.s_imount = x <=> sb.s_imount = x BY <1>3, <3>1 DEF NotMounted
    <3>. QED BY <1>2, <3>2, <3>3, <3>4, <3>5
  <2>2. \A i \in Inode \ {Id(s)} : disk'[i] = disk[i] /\ written'[i] = written[i]
    BY <1>1 DEF Puts
  <2>3. inode_table'[s].i_lock => Locks(t)' = s \/ (inode_table[s].i_lock /\ Locks(t) # s)
    BY <1>2 DEF Puts
  <2>4. k[t].pc # "read_inode" /\ k'[t].pc # "read_inode" /\ Locks(t) \in {None, s}
    BY DEF Puts
  <2>. QED BY <1>1, <1>2, <1>4, <2>1, <2>2, <2>3, <2>4 DEF Touch
<1>6. ASSUME NEW u \in Task \ {t} PROVE Spares(t, s, u)
  <2>1. CallOK(u) BY DEF TableParts
  <2>2. k[u].pc = "wait_iget" /\ k[u].want = Root => sb'.s_imount # None
    BY <2>1, <1>3, PutsIs DEF CallOK
  <2>3. k[u].then = "umount" => sb' = sb /\ ~inode_table[k[u].slot].i_mount
    BY <2>1, <1>3, PutsIs DEF CallOK
  <2>4. k[u].pc = "reading_super" => sb'.s_lock
    BY <2>1, <1>3, PutsIs DEF CallOK
  <2>5. Locks(u) = s => inode_table'[s].i_lock /\ Locks(t)' = None
    <3>1. Locks(u) = s => inode_table[s].i_lock /\ Locks(t) # s
      BY <2>1, <1>1 DEF CallOK, TableParts, Apart
    <3>. QED BY <3>1, <1>2 DEF Puts
  <2>6. k[u].pc = "wait_iget" /\ k[u].want = Id(s) =>
           /\ written'[Id(s)] # Unlinked
           /\ Freeable(Id(s)) => inode_table'[s].val # Unlinked /\ held'[t] # s
    <3>1. k[u].pc = "wait_iget" /\ k[u].want = Id(s) /\ Freeable(Id(s)) => held[t] # s
      BY <2>1 DEF CallOK, Unheld
    <3>2. held'[t] = s => held[t] = s BY <1>1 DEF Puts, TableTypeOK
    <3>. QED BY <3>1, <3>2, <1>2 DEF Puts
  <2>7. k[u].then = "umount" /\ k[u].slot = s => ~inode_table'[s].i_mount
    BY <2>3, <1>2 DEF Puts
  <2>. QED BY <1>1, <2>2, <2>3, <2>4, <2>5, <2>6, <2>7 DEF Spares
<1>7. SuperOK'
  <2>1. \A x \in Slot : inode_table'[x].id = Id(x) BY <1>1, <1>2 DEF Id
  <2>. QED BY <1>1, <1>3, <2>1, Typed DEF SuperOK, Id, NotMounted
<1>8. SlotOK(s)'
  <2>1. c.i_count = Users(s)'
    <3>1. /\ Users(s)' = Users(s)
                + (IF held'[t] = s THEN 1 ELSE 0) - (IF held[t] = s THEN 1 ELSE 0)
                + (IF k'[t].empty = s THEN 1 ELSE 0) - (IF k[t].empty = s THEN 1 ELSE 0)
                + (IF Work(t)' = s THEN 1 ELSE 0) - (IF Work(t) = s THEN 1 ELSE 0)
                + (IF sb'.s_imount = s THEN 1 ELSE 0) - (IF sb.s_imount = s THEN 1 ELSE 0)
      BY <1>1, UsersStep
    <3>2. k[t].empty # s /\ k'[t].empty # s BY <1>1 DEF Puts
    <3>3. CASE then = "return"
      <4>1. sb' = sb BY <3>3
      <4>2. \/ held[t] = s /\ held'[t] # s /\ Work(t) # s
            \/ Work(t) = s /\ held'[t] = held[t]
        BY <3>3, <1>1 DEF Puts, TableTypeOK
      <4>3. CASE c.i_count = b.i_count /\ Work(t)' = s
        BY <3>1, <3>2, <4>1, <4>2, <4>3, <1>1
      <4>4. CASE c.i_count = b.i_count - 1 /\ Work(t)' # s
        BY <3>1, <3>2, <4>1, <4>2, <4>4, <1>1
      <4>. QED BY <3>3, <4>3, <4>4, <1>1
    <3>4. CASE then = "umount"
      <4>1. held'[t] = held[t] /\ Work(t) # s /\ Work(t)' # s /\ sb.s_imount = s
        BY <3>4, <1>1 DEF Puts
      <4>2. CASE c.i_count = b.i_count /\ sb' = sb
        BY <3>1, <3>2, <4>1, <4>2, <1>1
      <4>3. CASE c.i_count = b.i_count - 1 /\ sb' = NotMounted
        <5>1. sb'.s_imount # s BY <4>3, <1>1 DEF NotMounted
        <5>. QED BY <3>1, <3>2, <4>1, <4>3, <5>1, <1>1
      <4>. QED BY <3>4, <4>2, <4>3
    <3>. QED BY <3>3, <3>4, <1>1
  <2>2. ~Reading(s)' 
    <3>1. k'[t].pc # "read_inode" OBVIOUS
    <3>. QED BY <3>1, <1>1 DEF Reading
  <2>3. c.i_mount => sb'.s_imount = s
    <3>1. c.i_mount => sb.s_imount = s BY <1>1 DEF Puts, SlotOK
    <3>2. then = "umount" => ~c.i_mount BY DEF Puts
    <3>. QED BY <3>1, <3>2, <1>3
  <2>4. c.id # NoInode =>
         /\ c.id \in imap
         /\ c.id # Root => c.val = written'[c.id]
         /\ ~c.i_dirt => disk[c.id] = c.val
         /\ ~Freeable(c.id) => c.val # Unlinked
    <3>1. Id(s) # NoInode => Id(s) \in imap BY PutsIs
    <3>2. b.id # NoInode => /\ b.id # Root => b.val = written'[b.id]
                            /\ ~b.i_dirt => disk[b.id] = b.val
                            /\ ~Freeable(b.id) => b.val # Unlinked
      BY DEF Puts
    <3>3. c.id = b.id /\ c.val = b.val /\ b.id = Id(s) /\ (b.i_dirt => c.i_dirt) BY <1>1
    <3>. QED BY <3>1, <3>2, <3>3
  <2>5. inode_table'[s] = c /\ setup' = setup /\ imap' = imap /\ disk' = disk BY <1>1, <1>2
  <2>. QED BY <2>1, <2>2, <2>3, <2>4, <2>5 DEF SlotOK, Freeable
<1>9. ASSUME NEW i \in Inode, i = Id(s) PROVE InodeOK(i)'
  <2>1. InodeOK(i) BY DEF TableParts
  <2>2. inode_table'[s].id = i BY <1>1, <1>2, <1>9
  <2>3. i \in imap BY <1>9, PutsIs, TableConstants
  <2>4. written'[i] # written[i] => Freeable(i) /\ i \notin setup.blk BY DEF Puts
  <2>. QED BY <2>1, <2>2, <2>3, <2>4, <1>1 DEF InodeOK, Freeable, Id
<1>. QED BY <1>5, <1>6, <1>7, <1>8, <1>9, TouchSound

LEMMA DropSound ==
    ASSUME Careful(setup), TableParts, NEW t \in Task, NEW s \in Slot, NEW b, NEW then,
           Puts(t, s, b, then), NEW tab, tab = [inode_table EXCEPT ![s] = b],
           ~b.i_lock, b.i_count > 1 \/ ~b.i_dirt,
           Drop(t, tab, s, then)
    PROVE  TableParts'
<1>1. PICK c : c = [b EXCEPT !.i_count = b.i_count - 1] OBVIOUS
<1>2. /\ TableTypeOK /\ b \in Entry /\ b.i_count \in Nat \ {0} /\ then \in {"return", "umount"}
      /\ k[t] \in Locals
  <2>1. TableTypeOK /\ b \in Entry /\ b.i_count = inode_table[s].i_count /\ then \in {"return", "umount"}
    BY DEF Puts, TableParts
  <2>2. inode_table[s].i_count \in Nat \ {0} BY PutsIs
  <2>. QED BY <2>1, <2>2, Typed
<1>3. /\ c \in Entry /\ c.id = b.id /\ c.val = b.val /\ c.i_mount = b.i_mount /\ c.i_dirt = b.i_dirt
      /\ c.i_lock = b.i_lock /\ c.i_count = b.i_count - 1
  BY <1>1, <1>2 DEF Entry
<1>4. inode_table' = [inode_table EXCEPT ![s] = c]
  BY <1>1, <1>2 DEF TableTypeOK, Drop
<1>5. ~panicked' BY DEF TableParts, Drop
<1>6. c.id = NoInode => ~c.i_dirt BY <1>3 DEF Puts
<1>7. c.i_count = 0 => ~c.i_dirt BY <1>2, <1>3
<1>10. /\ c \in Entry /\ c.id = b.id /\ c.val = b.val /\ c.i_mount = b.i_mount /\ (b.i_dirt => c.i_dirt)
       /\ ~c.i_lock
       /\ c.i_count = 0 => ~c.i_dirt /\ ~c.i_lock
       /\ c.id = NoInode => ~c.i_dirt /\ ~c.i_lock
  BY <1>3, <1>6, <1>7
<1>8. CASE then = "umount"
  <2>. DEFINE l == [k[t] EXCEPT !.pc = "sync_inodes", !.slot = None, !.n = 1, !.then = "return"]
  <2>1. sb' = NotMounted /\ To(t, l) BY <1>8 DEF PutSuper, Drop
  <2>2. 1 \in Slot BY InodeAssumption DEF Slot
  <2>3. /\ l \in Locals /\ l.pc = "sync_inodes" /\ l.slot = None /\ l.then = "return"
        /\ l.empty = k[t].empty
    BY <1>2, <2>2 DEF Locals, CallPcs
  <2>. HIDE DEF l
  <2>4. k' \in [Task -> Locals] /\ k'[t] = l /\ \A u \in Task \ {t} : k'[u] = k[u]
    BY <1>2, <2>1, <2>3, ToIs
  <2>5. k'[t].empty = None BY <2>3, <2>4 DEF Puts
  <2>6. Work(t)' = None /\ Locks(t)' = None BY <2>3, <2>4 DEF Work, Locks, Writing
  <2>7. setup.unlink = {} /\ setup' = setup BY <1>8 DEF Careful, Puts
  <2>8. CallOK(t)' BY <2>3, <2>4, <2>5, <2>7 DEF CallOK, Writing, Sole, Locks
  <2>9. k'[t].pc \notin {"read_inode", "reading_super"} BY <2>3, <2>4
  <2>10. /\ c.i_count = b.i_count - 1 /\ Work(t)' = None
         /\ then = "umount" => sb' = NotMounted
         /\ then = "return" => sb' = sb
    BY <1>3, <1>8, <2>1, <2>6
  <2>. QED BY <1>4, <1>5, <1>10, <2>4, <2>5, <2>6, <2>8, <2>9, <2>10, PutStep
<1>9. CASE then = "return"
  <2>1. sb' = sb /\ Return(t) BY <1>9 DEF Drop
  <2>2. /\ k' \in [Task -> Locals] /\ k'[t] = User /\ \A u \in Task \ {t} : k'[u] = k[u]
        /\ Work(t)' = None /\ Locks(t)' = None
        /\ k'[t].pc = "user" /\ k'[t].slot = None /\ k'[t].empty = None
    BY <1>2, <2>1, ReturnIs
  <2>3. CallOK(t)' BY <2>2 DEF CallOK, Writing, Sole, Locks, User
  <2>4. k'[t].pc \notin {"read_inode", "reading_super"} /\ k'[t].empty = None BY <2>2
  <2>5. /\ c.i_count = b.i_count - 1 /\ Work(t)' = None
        /\ then = "umount" => sb' = NotMounted
        /\ then = "return" => sb' = sb
    BY <1>3, <1>9, <2>1, <2>2
  <2>. QED BY <1>4, <1>5, <1>10, <2>2, <2>3, <2>4, <2>5, PutStep
<1>. QED BY <1>2, <1>8, <1>9

LEMMA TruncateSound ==
    ASSUME Careful(setup), TableParts, NEW t \in Task, NEW s \in Slot, NEW b, NEW then,
           Puts(t, s, b, then), NEW tab, tab = [inode_table EXCEPT ![s] = b],
           ~b.i_lock, b.i_count = 1, b.val = Unlinked, b.id \in Inode,
           Truncate(t, tab, s, then)
    PROVE  TableParts'
<1>. DEFINE l == [k[t] EXCEPT !.pc = "truncate", !.slot = s, !.then = then]
<1>1. PICK c : c = [b EXCEPT !.i_dirt = TRUE] OBVIOUS
<1>2. /\ TableTypeOK /\ b \in Entry /\ then \in {"return", "umount"}
      /\ k[t] \in Locals /\ k[t].empty = None /\ s # None /\ b.id # NoInode /\ Freeable(b.id)
      /\ b.id = Id(s) /\ setup' = setup
  BY Typed, TableConstants DEF Puts, TableParts
<1>3. then = "return"
  <2>1. then = "umount" => Id(s) \in setup.dirs
    BY TableConstants DEF Puts, TableParts, SuperOK
  <2>. QED BY <1>2, <2>1 DEF Freeable
<1>4. /\ c \in Entry /\ c.id = b.id /\ c.val = b.val /\ c.i_mount = b.i_mount /\ c.i_dirt
      /\ c.i_lock = b.i_lock /\ c.i_count = b.i_count
  BY <1>1, <1>2 DEF Entry
<1>5. inode_table' = [inode_table EXCEPT ![s] = c] /\ inode_table'[s] = c
  BY <1>1, <1>2 DEF TableTypeOK, Truncate
<1>6. ~panicked' BY DEF TableParts, Truncate
<1>7. /\ l \in Locals /\ l.pc = "truncate" /\ l.slot = s /\ l.then = "return" /\ l.empty = None
  BY <1>2, <1>3 DEF Locals, CallPcs
<1>8. To(t, l) BY DEF Truncate
<1>. HIDE DEF l
<1>9. k' \in [Task -> Locals] /\ k'[t] = l /\ \A u \in Task \ {t} : k'[u] = k[u]
  BY <1>2, <1>7, <1>8, ToIs
<1>10. Work(t)' = s /\ Locks(t)' = None /\ Sole(t)' = s BY <1>7, <1>9 DEF Work, Locks, Writing, Sole
<1>11. CallOK(t)'
  <2>1. Freeable(b.id)' BY <1>2 DEF Freeable
  <2>2. inode_table'[s].id = b.id /\ inode_table'[s].val = Unlinked /\ inode_table'[s].i_count = 1
    BY <1>4, <1>5
  <2>. QED BY <1>2, <1>7, <1>9, <1>10, <2>1, <2>2 DEF CallOK, Writing, Id, Freeable
<1>12. /\ ~c.i_lock /\ c.i_count # 0 /\ c.id # NoInode
       /\ c.i_count = b.i_count /\ sb' = sb
       /\ then = "umount" => Work(t)' = None
       /\ then = "return" => Work(t)' = s
  BY <1>2, <1>3, <1>4, <1>10 DEF Truncate
<1>13. k'[t].empty = None /\ k'[t].pc \notin {"read_inode", "reading_super"} BY <1>7, <1>9
<1>. QED BY <1>4, <1>5, <1>6, <1>9, <1>10, <1>11, <1>12, <1>13, PutStep

(* write_inode of the last reference.                                      *)
LEMMA PutWriteSound ==
    ASSUME Careful(setup), TableParts, NEW t \in Task, NEW s \in Slot, NEW b, NEW then,
           Puts(t, s, b, then), NEW tab, tab = [inode_table EXCEPT ![s] = b],
           ~b.i_lock, b.i_count = 1, b.val # Unlinked, b.id \in Inode,
           WriteInode(t, tab, s, [k[t] EXCEPT !.by = "iput", !.slot = s, !.then = then]),
           UNCHANGED sb
    PROVE  TableParts'
<1>. DEFINE m == [k[t] EXCEPT !.by = "iput", !.slot = s, !.then = then]
            l == [m EXCEPT !.pc = "write_inode", !.want = tab[s].id]
<1>1. PICK c : c = [b EXCEPT !.i_lock = TRUE] OBVIOUS
<1>2. /\ TableTypeOK /\ b \in Entry /\ then \in {"return", "umount"}
      /\ k[t] \in Locals /\ k[t].empty = None /\ s # None /\ b.id # NoInode
      /\ b.id = Id(s) /\ setup' = setup /\ tab[s] = b
  BY Typed, TableConstants DEF Puts, TableParts, TableTypeOK
<1>3. /\ c \in Entry /\ c.id = b.id /\ c.val = b.val /\ c.i_mount = b.i_mount /\ c.i_dirt = b.i_dirt
      /\ c.i_lock /\ c.i_count = b.i_count
  BY <1>1, <1>2 DEF Entry
<1>4. inode_table' = [inode_table EXCEPT ![s] = c] /\ inode_table'[s] = c
  BY <1>1, <1>2 DEF TableTypeOK, WriteInode
<1>5. ~panicked' BY DEF TableParts, WriteInode
<1>6. /\ l \in Locals /\ l.pc = "write_inode" /\ l.slot = s /\ l.then = then /\ l.empty = None
      /\ l.by = "iput" /\ l.want = b.id
  BY <1>2 DEF Locals, CallPcs
<1>7. To(t, l) BY DEF WriteInode
<1>. HIDE DEF l, m
<1>8. k' \in [Task -> Locals] /\ k'[t] = l /\ \A u \in Task \ {t} : k'[u] = k[u]
  BY <1>2, <1>6, <1>7, ToIs
<1>9. /\ Work(t)' = (IF then = "umount" THEN None ELSE s)
      /\ Locks(t)' = s /\ Sole(t)' = s /\ Writing(t)'
  BY <1>6, <1>8 DEF Work, Locks, Writing, Sole
<1>10. CallOK(t)'
  <2>1. /\ inode_table'[s].id = b.id /\ inode_table'[s].val # Unlinked /\ inode_table'[s].i_count = 1
        /\ inode_table'[s].i_lock
    BY <1>3, <1>4
  <2>2. then = "umount" => s = sb'.s_imount /\ t \in setup'.umount /\ ~inode_table'[s].i_mount
    BY <1>2, <1>3, <1>4 DEF Puts
  <2>. QED BY <1>2, <1>6, <1>8, <1>9, <2>1, <2>2 DEF CallOK, Id
<1>11. /\ c.i_count = b.i_count /\ sb' = sb
       /\ then = "umount" => Work(t)' = None
       /\ then = "return" => Work(t)' = s
  BY <1>3, <1>9
<1>12. c.i_count # 0 /\ c.id # NoInode BY <1>2, <1>3
<1>13. k'[t].empty = None /\ k'[t].pc \notin {"read_inode", "reading_super"} BY <1>6, <1>8
<1>. QED BY <1>2, <1>3, <1>4, <1>5, <1>8, <1>9, <1>10, <1>11, <1>12, <1>13, PutStep

LEMMA PutRepeatSound ==
    ASSUME Careful(setup), TableParts, NEW t \in Task, NEW s \in Slot, NEW b, NEW then,
           Puts(t, s, b, then), NEW tab, tab = [inode_table EXCEPT ![s] = b],
           ~b.i_lock, b.id \in Inode, PutRepeat(t, tab, s, then)
    PROVE  TableParts'
<1>1. tab[s] = b BY DEF TableParts, TableTypeOK
<1>2. CASE /\ b.i_count > 1 \/ ~b.i_dirt
           /\ Drop(t, tab, s, then)
  BY <1>2, DropSound
<1>3. CASE /\ b.i_count = 1 /\ b.val = Unlinked
           /\ Truncate(t, tab, s, then)
  BY <1>3, TruncateSound
<1>4. CASE /\ b.i_count = 1 /\ b.val # Unlinked
           /\ WriteInode(t, tab, s, [k[t] EXCEPT !.by = "iput", !.slot = s, !.then = then])
           /\ UNCHANGED sb
  BY <1>4, PutWriteSound
<1>. QED BY <1>1, <1>2, <1>3, <1>4 DEF PutRepeat

-----------------------------------------------------------------------------
(* sync_inodes, and what calls it: the reference to s is that of iput.     *)
Syncs(t, tab, then, s) ==
    /\ setup.unlink = {} /\ UNCHANGED <<setup, imap, disk, written>>
    /\ k[t].empty = None /\ k[t].pc \notin {"wait_iget", "read_inode"}
    /\ k[t].then # "umount"
    /\ \/ then = "return" /\ s = None /\ Work(t) = None /\ held' = held
       \/ /\ then = "iput" /\ s \in Slot /\ Id(s) \in setup.blk
          /\ \/ Work(t) = s /\ held' = held
             \/ Work(t) = None /\ held[t] = s /\ held' = [held EXCEPT ![t] = None]
    /\ tab \in [Slot -> Entry]
    /\ \A x \in Slot : tab[x] = [inode_table[x] EXCEPT !.i_lock = @ /\ x # Locks(t)]

LEMMA SyncStep ==
    ASSUME Careful(setup), TableParts, NEW t \in Task, NEW tab, NEW then, NEW s,
           Syncs(t, tab, then, s), inode_table' \in [Slot -> Entry],
           k' \in [Task -> Locals], \A u \in Task \ {t} : k'[u] = k[u],
           \A x \in Slot : inode_table'[x] = [inode_table[x] EXCEPT
                              !.i_lock = x = Locks(t)' \/ (@ /\ x # Locks(t))],
           Locks(t)' # None => /\ Locks(t)' \in Slot
                               /\ Id(Locks(t)') # NoInode /\ inode_table[Locks(t)'].i_count # 0
                               /\ ~inode_table[Locks(t)'].i_lock \/ Locks(t)' = Locks(t),
           k'[t].empty = None, k'[t].pc \notin {"read_inode", "reading_super"},
           UNCHANGED <<sb, panicked>>, Work(t)' = s, CallOK(t)'
    PROVE  TableParts'
<1>1. /\ TableTypeOK /\ SuperOK /\ Apart /\ OneSlot /\ setup.unlink = {}
      /\ setup' = setup /\ imap' = imap /\ disk' = disk /\ written' = written /\ sb' = sb
      /\ ~panicked'
      /\ held' \in [Task -> Slot \cup {None}] /\ \A u \in Task \ {t} : held'[u] = held[u]
  <2>1. held' = held \/ held' = [held EXCEPT ![t] = None] BY DEF Syncs
  <2>. QED BY <2>1 DEF TableParts, Syncs, TableTypeOK
<1>2. TableTypeOK' BY <1>1 DEF TableTypeOK
<1>3. ASSUME NEW x \in Slot
      PROVE  /\ inode_table'[x].id = Id(x) /\ inode_table'[x].i_count = inode_table[x].i_count
             /\ inode_table'[x].i_dirt = inode_table[x].i_dirt /\ inode_table'[x].val = inode_table[x].val
             /\ inode_table'[x].i_mount = inode_table[x].i_mount
             /\ inode_table'[x].i_lock <=> x = Locks(t)' \/ (inode_table[x].i_lock /\ x # Locks(t))
             /\ x # Locks(t) /\ x # Locks(t)' => inode_table'[x] = inode_table[x]
             /\ Users(x)' = Users(x)
  <2>1. inode_table[x] \in Entry /\ x # None BY <1>1, Typed, TableConstants
  <2>2. inode_table'[x] = [inode_table[x] EXCEPT
                              !.i_lock = x = Locks(t)' \/ (inode_table[x].i_lock /\ x # Locks(t))]
    OBVIOUS
  <2>3. /\ inode_table'[x].id = Id(x) /\ inode_table'[x].i_count = inode_table[x].i_count
        /\ inode_table'[x].i_dirt = inode_table[x].i_dirt /\ inode_table'[x].val = inode_table[x].val
        /\ inode_table'[x].i_mount = inode_table[x].i_mount
        /\ inode_table'[x].i_lock <=> x = Locks(t)' \/ (inode_table[x].i_lock /\ x # Locks(t))
        /\ x # Locks(t) /\ x # Locks(t)' => inode_table'[x] = inode_table[x]
    BY <2>1, <2>2 DEF Entry, Id
  <2>4. Users(x)' = Users(x)
    <3>1. /\ Users(x) \in Nat
          /\ Users(x)' = Users(x)
                + (IF held'[t] = x THEN 1 ELSE 0) - (IF held[t] = x THEN 1 ELSE 0)
                + (IF k'[t].empty = x THEN 1 ELSE 0) - (IF k[t].empty = x THEN 1 ELSE 0)
                + (IF Work(t)' = x THEN 1 ELSE 0) - (IF Work(t) = x THEN 1 ELSE 0)
                + (IF sb'.s_imount = x THEN 1 ELSE 0) - (IF sb.s_imount = x THEN 1 ELSE 0)
      BY <1>1, UsersStep
    <3>2. k[t].empty # x /\ k'[t].empty # x BY <2>1 DEF Syncs
    <3>3. \/ held'[t] = held[t] /\ Work(t) = s
          \/ held'[t] = None /\ held[t] = s /\ Work(t) = None
      BY <1>1 DEF Syncs, TableTypeOK
    <3>4. (IF held'[t] = x THEN 1 ELSE 0) + (IF Work(t)' = x THEN 1 ELSE 0)
            = (IF held[t] = x THEN 1 ELSE 0) + (IF Work(t) = x THEN 1 ELSE 0)
      BY <2>1, <3>3
    <3>. QED BY <1>1, <3>1, <3>2, <3>4
  <2>. QED BY <2>3, <2>4
<1>4. Locks(t) # None => Locks(t) \in Slot /\ Id(Locks(t)) # NoInode
  BY <1>1, Typed DEF TableParts, CallOK, Locks
<1>5. ASSUME NEW u \in Task \ {t} PROVE Left(u) /\ (Locks(t)' # None => Locks(u) # Locks(t)')
  <2>1. CallOK(u) /\ k'[u] = k[u] /\ held'[u] = held[u] /\ k[u].slot \in Slot \cup {None}
        /\ k[u].empty \in Slot \cup {None} /\ k[u].n \in Slot
    BY <1>1, Typed DEF TableParts
  <2>2. Locks(u) # None => /\ Locks(u) \in Slot /\ inode_table[Locks(u)].i_lock
                           /\ Locks(u) # Locks(t) /\ Locks(u) # Locks(t)'
    <3>1. Locks(u) # None => Locks(u) \in Slot /\ inode_table[Locks(u)].i_lock
      BY <2>1 DEF CallOK, Locks
    <3>2. Locks(u) # None => Locks(u) # Locks(t) BY <1>1 DEF Apart
    <3>. QED BY <3>1, <3>2
  <2>3. Sole(u) # None => /\ Sole(u) \in Slot
                          /\ k[u].pc = "wait_iget" => Id(Sole(u)) = NoInode
                          /\ k[u].pc # "wait_iget" => Sole(u) = Locks(u)
    <3>1. k[u].pc # "truncate" BY <1>1, <2>1 DEF CallOK, Freeable
    <3>. QED BY <2>1, <3>1 DEF CallOK, Sole, Locks
  <2>4. Sole(u) # None => Sole(u) # Locks(t) /\ Sole(u) # Locks(t)' BY <1>4, <2>2, <2>3
  <2>5. Sole(u) # None => inode_table'[Sole(u)] = inode_table[Sole(u)] BY <1>3, <2>3, <2>4
  <2>6. Locks(u) # None => inode_table'[Locks(u)].i_lock /\ inode_table'[Locks(u)].id = Id(Locks(u))
    BY <1>3, <2>2
  <2>7. k[u].pc = "wait_iget" => /\ written'[k[u].want] # Unlinked
                                 /\ k[u].want = Root => sb'.s_imount # None
    BY <1>1, <2>1 DEF CallOK
  <2>8. Unheld(k[u].want)' BY <1>1 DEF Unheld, Freeable
  <2>9. k[u].then = "umount" => ~inode_table'[k[u].slot].i_mount
    BY <1>3, <2>1 DEF CallOK
  <2>10. k[u].pc = "reading_super" => sb'.s_lock BY <1>1, <2>1 DEF CallOK
  <2>11. \A x \in Slot : inode_table'[x].id = Id(x) BY <1>3
  <2>. QED BY <1>1, <2>1, <2>2, <2>5, <2>6, <2>7, <2>8, <2>9, <2>10, <2>11 DEF Left
<1>6. SuperOK'
  <2>1. \A x \in Slot : inode_table'[x].id = Id(x) BY <1>3
  <2>. QED BY <1>1, <2>1, Typed DEF SuperOK, Id
<1>7. LockedBy'
  <2>1. \A u \in Task \ {t} : Locks(u)' = Locks(u) BY DEF Locks, Writing
  <2>. QED BY <1>3, <2>1, LockedByIs
<1>8. ASSUME NEW x \in Slot PROVE SlotOK(x)'
  <2>1. SlotOK(x) BY DEF TableParts
  <2>2. Reading(x)' <=> Reading(x)
    <3>1. k[t].pc # "read_inode" /\ k'[t].pc # "read_inode" BY DEF Syncs
    <3>. QED BY <3>1 DEF Reading
  <2>3. inode_table'[x].i_count = 0 \/ inode_table'[x].id = NoInode => ~inode_table'[x].i_lock
    <3>1. x = Locks(t)' => Id(x) # NoInode /\ inode_table[x].i_count # 0
      BY TableConstants
    <3>2. inode_table[x].i_lock => Id(x) # NoInode /\ inode_table[x].i_count # 0
      BY <2>1 DEF SlotOK, Id
    <3>. QED BY <1>3, <3>1, <3>2
  <2>. QED BY <1>1, <1>3, <2>1, <2>2, <2>3 DEF SlotOK, Id, Freeable
<1>9. ASSUME NEW i \in Inode PROVE InodeOK(i)'
  <2>1. \A x \in Slot : inode_table'[x].id = Id(x) BY <1>3
  <2>. QED BY <1>1, <2>1, InodeKept
<1>10. OneSlot'
  <2>1. \A x \in Slot : inode_table'[x].id = Id(x) BY <1>3
  <2>. QED BY <1>1, <2>1 DEF OneSlot, Id
<1>. QED BY <1>1, <1>2, <1>5, <1>6, <1>7, <1>8, <1>9, <1>10, StepSound

LEMMA SyncFromSound ==
    ASSUME Careful(setup), TableParts, NEW t \in Task, NEW tab, NEW then, NEW s, NEW n \in Nat \ {0},
           Syncs(t, tab, then, s), SyncFrom(t, tab, n, then, s)
    PROVE  TableParts'
<1>. DEFINE Stops == {m \in n..NR_INODE : \/ tab[m].i_lock
                                          \/ tab[m].i_dirt /\ tab[m].id # NoInode}
            least == CHOOSE x \in Stops : \A y \in Stops : x <= y
<1>1. PICK m : m = least OBVIOUS
<1>2. Stops # {} => /\ m \in Slot
                    /\ tab[m].i_lock \/ (tab[m].i_dirt /\ tab[m].id # NoInode)
  <2>1. Stops \in SUBSET Nat /\ n..NR_INODE \subseteq Slot BY InodeAssumption DEF Slot
  <2>2. Stops # {} => \E x \in Stops : \A y \in Stops : x <= y BY <2>1, LeastOf
  <2>3. Stops # {} => m \in Stops BY <1>1, <2>2
  <2>. QED BY <2>1, <2>3
<1>3. \/ /\ Stops # {} /\ tab[m].i_lock
         /\ inode_table' = tab
         /\ To(t, [k[t] EXCEPT !.pc = "sync_inodes", !.n = m, !.then = then, !.slot = s])
         /\ UNCHANGED <<sb, panicked>>
      \/ /\ Stops # {} /\ ~tab[m].i_lock
         /\ WriteInode(t, tab, m, [k[t] EXCEPT !.by = "sync", !.slot = s, !.n = m, !.then = then])
         /\ UNCHANGED sb
      \/ /\ Stops = {} /\ then = "return"
         /\ inode_table' = tab
         /\ Return(t)
         /\ UNCHANGED <<sb, panicked>>
      \/ /\ Stops = {} /\ then = "iput"
         /\ inode_table' = tab
         /\ To(t, [k[t] EXCEPT !.pc = "iput_synced", !.slot = s, !.then = "return"])
         /\ UNCHANGED <<sb, panicked>>
  BY <1>1 DEF SyncFrom
<1>. HIDE DEF Stops, least
<1>4. /\ TableTypeOK /\ setup.unlink = {} /\ setup' = setup /\ tab \in [Slot -> Entry]
      /\ then \in {"return", "iput"} /\ s \in Slot \cup {None} /\ k[t] \in Locals /\ k[t].empty = None
      /\ then = "return" <=> s = None
      /\ then = "iput" => Id(s) \in setup.blk
      /\ then # "umount"
  BY Typed, TableConstants DEF TableParts, Syncs
<1>5. ASSUME NEW x \in Slot
      PROVE  /\ tab[x].id = Id(x) /\ tab[x].i_count = inode_table[x].i_count
             /\ tab[x].i_dirt = inode_table[x].i_dirt
             /\ tab[x].i_lock <=> inode_table[x].i_lock /\ x # Locks(t)
             /\ tab[x] \in Entry /\ inode_table[x] \in Entry
             /\ tab[x] = [inode_table[x] EXCEPT !.i_lock = @ /\ x # Locks(t)]
  <2>1. inode_table[x] \in Entry /\ tab[x] \in Entry BY <1>4, Typed
  <2>2. tab[x] = [inode_table[x] EXCEPT !.i_lock = @ /\ x # Locks(t)] BY DEF Syncs
  <2>. QED BY <2>1, <2>2 DEF Entry, Id
<1>6. ASSUME inode_table' = tab, NEW l \in Locals, To(t, l), UNCHANGED <<sb, panicked>>,
             l.empty = None, l.slot = s,
             \/ l.pc = "sync_inodes" /\ l.then = then
             \/ l.pc = "iput_synced" /\ l.then = "return" /\ then = "iput"
             \/ l = User /\ l.pc = "user" /\ l.then = "return" /\ then = "return"
      PROVE  TableParts'
  <2>1. k' \in [Task -> Locals] /\ k'[t] = l /\ \A u \in Task \ {t} : k'[u] = k[u]
    BY <1>4, <1>6, ToIs
  <2>2. Work(t)' = s /\ Locks(t)' = None /\ Sole(t)' = None /\ ~Writing(t)'
    BY <1>4, <1>6, <2>1 DEF Work, Locks, Sole, Writing
  <2>3. s # None => inode_table'[s].id = Id(s) BY <1>4, <1>5, <1>6
  <2>4. CallOK(t)' BY <1>4, <1>6, <2>1, <2>2, <2>3 DEF CallOK, Id
  <2>5. \A x \in Slot : inode_table'[x] = [inode_table[x] EXCEPT
                              !.i_lock = x = Locks(t)' \/ (@ /\ x # Locks(t))]
    <3>. TAKE x \in Slot
    <3>1. x # None BY TableConstants
    <3>. QED BY <1>5, <1>6, <2>2, <3>1 DEF Entry
  <2>6. k'[t].empty = None /\ k'[t].pc \notin {"read_inode", "reading_super"} BY <1>6, <2>1
  <2>7. inode_table' \in [Slot -> Entry] BY <1>4, <1>6
  <2>. QED BY <1>6, <2>1, <2>2, <2>4, <2>5, <2>6, <2>7, SyncStep
<1>7. CASE Stops # {} /\ inode_table' = tab /\ UNCHANGED <<sb, panicked>>
           /\ To(t, [k[t] EXCEPT !.pc = "sync_inodes", !.n = m, !.then = then, !.slot = s])
  <2>1. PICK l : l = [k[t] EXCEPT !.pc = "sync_inodes", !.n = m, !.then = then, !.slot = s] OBVIOUS
  <2>2. l \in Locals /\ l.empty = None /\ l.slot = s /\ l.pc = "sync_inodes" /\ l.then = then
    BY <1>2, <1>4, <1>7, <2>1 DEF Locals, CallPcs
  <2>3. To(t, l) BY <1>7, <2>1
  <2>. QED BY <1>6, <1>7, <2>2, <2>3
<1>8. CASE Stops = {} /\ then = "return" /\ inode_table' = tab /\ Return(t) /\ UNCHANGED <<sb, panicked>>
  <2>1. To(t, User) BY <1>8 DEF To, Return
  <2>2. /\ User \in Locals /\ User.empty = None /\ User.slot = s /\ User.pc = "user"
        /\ User.then = "return"
    BY <1>4, <1>8, UserTyped DEF User
  <2>. QED BY <1>6, <1>8, <2>1, <2>2
<1>9. CASE then = "iput" /\ inode_table' = tab /\ UNCHANGED <<sb, panicked>>
           /\ To(t, [k[t] EXCEPT !.pc = "iput_synced", !.slot = s, !.then = "return"])
  <2>1. PICK l : l = [k[t] EXCEPT !.pc = "iput_synced", !.slot = s, !.then = "return"] OBVIOUS
  <2>2. l \in Locals /\ l.empty = None /\ l.slot = s /\ l.pc = "iput_synced" /\ l.then = "return"
    BY <1>4, <1>9, <2>1 DEF Locals, CallPcs
  <2>3. To(t, l) BY <1>9, <2>1
  <2>. QED BY <1>6, <1>9, <2>2, <2>3
<1>10. CASE /\ Stops # {} /\ ~tab[m].i_lock
            /\ WriteInode(t, tab, m, [k[t] EXCEPT !.by = "sync", !.slot = s, !.n = m, !.then = then])
            /\ UNCHANGED sb
  <2>1. PICK l : l = [[k[t] EXCEPT !.by = "sync", !.slot = s, !.n = m, !.then = then]
                         EXCEPT !.pc = "write_inode", !.want = tab[m].id] OBVIOUS
  <2>2. To(t, l) /\ UNCHANGED <<sb, panicked>> BY <1>10, <2>1 DEF WriteInode
  <2>3. /\ m \in Slot /\ tab[m].id = Id(m) /\ Id(m) # NoInode /\ inode_table[m].i_dirt
        /\ tab[m].id \in Inode \cup {NoInode} /\ m # None
        /\ ~inode_table[m].i_lock \/ m = Locks(t)
    BY <1>2, <1>4, <1>5, <1>10, Typed, TableConstants
  <2>4. inode_table[m].i_count # 0
    <3>1. SlotOK(m) BY <2>3 DEF TableParts
    <3>. QED BY <2>3, <3>1 DEF SlotOK
  <2>5. /\ l \in Locals /\ l.empty = None /\ l.slot = s /\ l.pc = "write_inode" /\ l.then = then
        /\ l.by = "sync" /\ l.n = m /\ l.want = Id(m)
    BY <1>4, <2>1, <2>3 DEF Locals, CallPcs
  <2>6. k' \in [Task -> Locals] /\ k'[t] = l /\ \A u \in Task \ {t} : k'[u] = k[u]
    BY <1>4, <2>2, <2>5, ToIs
  <2>7. Work(t)' = s /\ Locks(t)' = m /\ Sole(t)' = None /\ Writing(t)'
    BY <1>4, <2>5, <2>6 DEF Work, Locks, Sole, Writing
  <2>8. inode_table' = [tab EXCEPT ![m].i_lock = TRUE] BY <1>10 DEF WriteInode
  <2>9. /\ inode_table' \in [Slot -> Entry]
        /\ \A x \in Slot : inode_table'[x] = [inode_table[x] EXCEPT
                              !.i_lock = x = Locks(t)' \/ (@ /\ x # Locks(t))]
    <3>1. PICK c : c = [tab[m] EXCEPT !.i_lock = TRUE] OBVIOUS
    <3>2. c \in Entry /\ inode_table' = [tab EXCEPT ![m] = c]
      <4>1. tab[m] \in Entry BY <1>5, <2>3
      <4>2. c \in Entry BY <3>1, <4>1 DEF Entry
      <4>. QED BY <2>8, <3>1, <4>2
    <3>3. c = [inode_table[m] EXCEPT !.i_lock = TRUE]
      BY <1>5, <2>3, <3>1 DEF Entry
    <3>4. /\ inode_table' \in [Slot -> Entry] /\ inode_table'[m] = c
          /\ \A x \in Slot \ {m} : inode_table'[x] = tab[x]
      BY <1>4, <2>3, <3>2
    <3>5. \A x \in Slot \ {m} : inode_table'[x] = [inode_table[x] EXCEPT
                              !.i_lock = x = Locks(t)' \/ (@ /\ x # Locks(t))]
      BY <1>5, <2>7, <3>4
    <3>6. inode_table'[m] = [inode_table[m] EXCEPT
                              !.i_lock = m = Locks(t)' \/ (@ /\ m # Locks(t))]
      BY <1>5, <2>3, <2>7, <3>3, <3>4
    <3>. QED BY <3>4, <3>5, <3>6
  <2>10. /\ inode_table'[m].i_lock /\ inode_table'[m].id = Id(m)
         /\ s # None => inode_table'[s].id = Id(s)
    <3>1. \A x \in Slot : /\ inode_table'[x].id = Id(x)
                          /\ x = m => inode_table'[x].i_lock
      BY <1>5, <2>7, <2>9 DEF Entry, Id
    <3>. QED BY <1>4, <2>3, <3>1
  <2>11. CallOK(t)' BY <1>4, <2>3, <2>5, <2>6, <2>7, <2>10 DEF CallOK, Id
  <2>12. k'[t].empty = None /\ k'[t].pc \notin {"read_inode", "reading_super"} BY <2>5, <2>6
  <2>. QED BY <2>2, <2>3, <2>4, <2>6, <2>7, <2>9, <2>11, <2>12, SyncStep
<1>. QED BY <1>3, <1>4, <1>7, <1>8, <1>9, <1>10

(* iput finds the inode locked.                                            *)
LEMMA PutWaitsSound ==
    ASSUME Careful(setup), TableParts, NEW t \in Task, NEW s \in Slot, NEW b, NEW then,
           Puts(t, s, b, then), b.i_lock, inode_table' = [inode_table EXCEPT ![s] = b],
           To(t, [k[t] EXCEPT !.pc = "iput", !.slot = s, !.then = then]),
           UNCHANGED <<sb, panicked>>
    PROVE  TableParts'
<1>. DEFINE l == [k[t] EXCEPT !.pc = "iput", !.slot = s, !.then = then]
<1>1. /\ TableTypeOK /\ b \in Entry /\ then \in {"return", "umount"} /\ k[t] \in Locals
      /\ k[t].empty = None /\ s # None /\ setup' = setup /\ b.id # NoInode /\ ~panicked'
  BY Typed, TableConstants DEF Puts, TableParts
<1>2. l \in Locals /\ l.pc = "iput" /\ l.slot = s /\ l.then = then /\ l.empty = None
  BY <1>1 DEF Locals, CallPcs
<1>3. To(t, l) OBVIOUS
<1>. HIDE DEF l
<1>4. k' \in [Task -> Locals] /\ k'[t] = l /\ \A u \in Task \ {t} : k'[u] = k[u]
  BY <1>1, <1>2, <1>3, ToIs
<1>5. /\ Work(t)' = (IF then = "umount" THEN None ELSE s)
      /\ Locks(t)' = None /\ Sole(t)' = None /\ ~Writing(t)'
  BY <1>2, <1>4 DEF Work, Locks, Writing, Sole
<1>6. CallOK(t)'
  <2>1. inode_table'[s] = b BY <1>1 DEF TableTypeOK
  <2>2. then = "umount" => s = sb'.s_imount /\ t \in setup'.umount /\ ~inode_table'[s].i_mount
    BY <1>1, <2>1 DEF Puts
  <2>. QED BY <1>1, <1>2, <1>4, <1>5, <2>2 DEF CallOK
<1>7. /\ b.i_count = b.i_count /\ sb' = sb
      /\ then = "umount" => Work(t)' = None
      /\ then = "return" => Work(t)' = s
  BY <1>5
<1>8. b.i_count # 0
  BY PutsIs DEF Puts
<1>9. k'[t].empty = None /\ k'[t].pc \notin {"read_inode", "reading_super"} BY <1>2, <1>4
<1>. QED BY <1>1, <1>4, <1>5, <1>6, <1>7, <1>8, <1>9, PutStep

(* iput of a task that has nothing locked.                                 *)
LEMMA IPutSound ==
    ASSUME Careful(setup), TableParts, NEW t \in Task, NEW s \in Slot, NEW b, NEW then,
           Puts(t, s, b, then), NEW tab, tab = [inode_table EXCEPT ![s] = b],
           IPut(t, tab, s, then), Locks(t) = None, k[t].pc # "wait_iget",
           then = "return" => k[t].then # "umount",
           then = "return" /\ setup.unlink = {} => b = inode_table[s]
    PROVE  TableParts'
<1>1. tab[s] = b /\ TableTypeOK /\ b.i_count # 0
  <2>1. inode_table[s].i_count # 0 BY PutsIs
  <2>2. b.i_count # 0 BY <2>1 DEF Puts
  <2>. QED BY <2>2 DEF TableParts, TableTypeOK
<1>2. CASE b.i_lock
  <2>1. /\ inode_table' = tab
        /\ To(t, [k[t] EXCEPT !.pc = "iput", !.slot = s, !.then = then])
        /\ UNCHANGED <<sb, panicked>>
    BY <1>1, <1>2 DEF IPut
  <2>. QED BY <1>2, <2>1, PutWaitsSound
<1>3. CASE ~b.i_lock /\ b.id = NoInode
  <2>1. Drop(t, tab, s, then)
    <3>1. b.id \notin setup.blk /\ b.id \notin Inode
      BY <1>1, <1>3, InodeAssumption DEF TableTypeOK
    <3>. QED BY <1>1, <1>3, <3>1 DEF IPut
  <2>2. ~b.i_dirt BY <1>3 DEF Puts
  <2>. QED BY <1>3, <2>1, <2>2, DropSound
<1>4. CASE ~b.i_lock /\ b.id \in setup.blk
  <2>1. SyncFrom(t, tab, 1, "iput", s)
    <3>1. b.id # NoInode BY <1>1, <1>4, InodeAssumption DEF TableTypeOK
    <3>. QED BY <1>1, <1>4, <3>1 DEF IPut
  <2>2. setup.unlink = {} BY <1>4 DEF Careful
  <2>3. then = "return"
    <3>1. then = "umount" => Id(s) \in setup.dirs
      BY TableConstants DEF Puts, TableParts, SuperOK
    <3>. QED BY <1>4, <3>1 DEF Careful, Puts
  <2>4. /\ tab = inode_table /\ k[t].then # "umount" /\ Id(s) \in setup.blk
        /\ \A x \in Slot : x # None
    BY <1>1, <1>4, <2>2, <2>3, TableConstants DEF TableTypeOK, Puts
  <2>5. UNCHANGED <<setup, imap, disk, written>>
    BY <1>1, <2>2 DEF Puts, Freeable, TableTypeOK
  <2>6. \A x \in Slot : tab[x] = [inode_table[x] EXCEPT !.i_lock = @ /\ x # Locks(t)]
    <3>. TAKE x \in Slot
    <3>1. inode_table[x] \in Entry /\ x # None BY <1>1, TableConstants DEF TableTypeOK
    <3>. QED BY <2>4, <3>1 DEF Entry
  <2>7. Syncs(t, tab, "iput", s)
    BY <1>1, <2>2, <2>3, <2>4, <2>5, <2>6 DEF Syncs, Puts, TableTypeOK
  <2>. QED BY <2>1, <2>7, SyncFromSound
<1>5. CASE ~b.i_lock /\ b.id \in Inode \ setup.blk
  <2>1. PutRepeat(t, tab, s, then)
    BY <1>1, <1>5, InodeAssumption DEF IPut
  <2>. QED BY <1>5, <2>1, PutRepeatSound
<1>6. b.id \in Inode \cup {NoInode} BY DEF Puts, Entry
<1>. QED BY <1>2, <1>3, <1>4, <1>5, <1>6

(* An inode that iput finds as everybody left it.                          *)
LEMMA PutsKept ==
    ASSUME Careful(setup), TableParts, NEW t \in Task, NEW s \in Slot, NEW b \in Entry, NEW then,
           b.id = Id(s), b.i_count = inode_table[s].i_count, b.val = inode_table[s].val,
           b.i_dirt = inode_table[s].i_dirt, b.i_mount => inode_table[s].i_mount,
           b.i_lock <=> inode_table[s].i_lock /\ Locks(t) # s,
           \/ /\ then = "umount" /\ sb.s_imount = s /\ t \in setup.umount /\ ~b.i_mount
              /\ held' = held /\ Work(t) = None
           \/ /\ then = "return"
              /\ \/ held[t] = s /\ held' = [held EXCEPT ![t] = None] /\ Work(t) = None
                 \/ Work(t) = s /\ held' = held,
           k[t].empty = None, k[t].pc # "read_inode", Locks(t) \in {None, s},
           UNCHANGED <<setup, imap, disk, written>>
    PROVE  Puts(t, s, b, then)
<1>1. SlotOK(s) /\ TableTypeOK BY DEF TableParts
<1>2. ~Reading(s)
  <2>1. CASE then = "return"
    <3>1. Uses(t, s) BY <2>1 DEF Uses
    <3>. QED BY <3>1, UsedIs
  <2>2. CASE then = "umount"
    <3>. SUFFICES ASSUME NEW u \in Task, k[u].pc = "read_inode", k[u].slot = s PROVE FALSE
      BY DEF Reading
    <3>1. Sole(u) = s /\ s # None BY TableConstants DEF Sole
    <3>2. k[u].then = "umount" BY <2>2, <3>1, SoleIs
    <3>3. CallOK(u) BY DEF TableParts
    <3>. QED BY <3>2, <3>3 DEF CallOK
  <2>. QED BY <2>1, <2>2
<1>3. b.id # NoInode => /\ b.id # Root => b.val = written'[b.id]
                        /\ ~b.i_dirt => disk[b.id] = b.val
                        /\ ~Freeable(b.id) => b.val # Unlinked
  BY <1>1, <1>2 DEF SlotOK, Id
<1>4. b.id = NoInode => ~b.i_dirt /\ ~b.i_lock BY <1>1 DEF SlotOK, Id
<1>5. ASSUME NEW u \in Task \ {t}, k[u].pc = "wait_iget", k[u].want = Id(s)
      PROVE  written'[Id(s)] # Unlinked /\ (Freeable(Id(s)) => b.val # Unlinked)
  <2>1. CallOK(u) BY DEF TableParts
  <2>. QED BY <1>5, <2>1 DEF CallOK, Unheld
<1>6. written' \in [Inode -> {Unlinked} \cup Version] BY <1>1 DEF TableTypeOK
<1>7. b.i_lock => inode_table[s].i_lock /\ Locks(t) # s OBVIOUS
<1>8. inode_table[s].i_lock => b.i_lock \/ Locks(t) = s
  BY <1>1, Typed DEF Entry
<1>. QED BY <1>3, <1>4, <1>5, <1>6, <1>7, <1>8 DEF Puts

LEMMA SameSlot ==
    ASSUME TableTypeOK, NEW s \in Slot
    PROVE  /\ inode_table = [inode_table EXCEPT ![s] = inode_table[s]]
           /\ inode_table[s] \in Entry
BY DEF TableTypeOK

LEMMA CloseSound ==
    ASSUME Careful(setup), TableParts, NEW t \in Task, Close(t)
    PROVE  TableParts'
<1>1. PICK s : s = held[t] OBVIOUS
<1>2. /\ CallOK(t) /\ TableTypeOK /\ k[t] = User /\ s # None /\ s \in Slot
      /\ IPut(t, inode_table, s, "return") /\ held' = [held EXCEPT ![t] = None]
      /\ UNCHANGED <<setup, imap, disk, written>>
  BY <1>1, Typed DEF Close, At, TableParts, CallOK
<1>3. /\ Work(t) = None /\ Locks(t) = None /\ k[t].empty = None /\ k[t].then = "return"
      /\ k[t].pc = "user"
  BY <1>2 DEF Work, Locks, Writing, User
<1>4. PICK b : b = inode_table[s] OBVIOUS
<1>5. b \in Entry /\ inode_table = [inode_table EXCEPT ![s] = b] BY <1>2, <1>4, SameSlot
<1>6. s # Locks(t) BY <1>2, <1>3
<1>7. Puts(t, s, b, "return")
  BY <1>1, <1>2, <1>3, <1>4, <1>5, <1>6, PutsKept DEF Id
<1>. QED BY <1>2, <1>3, <1>4, <1>5, <1>7, IPutSound

LEMMA IPutAgainSound ==
    ASSUME Careful(setup), TableParts, NEW t \in Task, IPutAgain(t)
    PROVE  TableParts'
<1>1. PICK s : s = k[t].slot OBVIOUS
<1>2. /\ CallOK(t) /\ TableTypeOK /\ s # None /\ s \in Slot /\ k[t].pc = "iput"
      /\ k[t].then \in {"return", "umount"} /\ k[t].empty = None
      /\ IPut(t, inode_table, s, k[t].then) /\ held' = held
      /\ UNCHANGED <<setup, imap, disk, written>>
  BY <1>1, Typed DEF IPutAgain, At, TableParts, CallOK, Writing
<1>3. /\ Work(t) = (IF k[t].then = "umount" THEN None ELSE s) /\ Locks(t) = None
      /\ k[t].then = "umount" => sb.s_imount = s /\ t \in setup.umount /\ ~inode_table[s].i_mount
  BY <1>1, <1>2 DEF Work, Locks, Writing, CallOK
<1>4. PICK b : b = inode_table[s] OBVIOUS
<1>5. b \in Entry /\ inode_table = [inode_table EXCEPT ![s] = b] BY <1>2, <1>4, SameSlot
<1>6. s # Locks(t) BY <1>2, <1>3
<1>7. Puts(t, s, b, k[t].then)
  BY <1>2, <1>3, <1>4, <1>5, <1>6, PutsKept DEF Id
<1>. QED BY <1>2, <1>3, <1>4, <1>5, <1>7, IPutSound

LEMMA IPutSyncedSound ==
    ASSUME Careful(setup), TableParts, NEW t \in Task, IPutSynced(t)
    PROVE  TableParts'
<1>1. PICK s : s = k[t].slot OBVIOUS
<1>2. /\ CallOK(t) /\ TableTypeOK /\ s # None /\ s \in Slot /\ k[t].pc = "iput_synced"
      /\ k[t].then = "return" /\ k[t].empty = None /\ Id(s) \in setup.blk
      /\ PutRepeat(t, inode_table, s, k[t].then) /\ held' = held
      /\ UNCHANGED <<setup, imap, disk, written>> /\ ~inode_table[s].i_lock
  BY <1>1, Typed DEF IPutSynced, At, TableParts, CallOK, Writing, Locked
<1>3. Work(t) = s /\ Locks(t) = None /\ Id(s) \in Inode
  BY <1>1, <1>2, InodeAssumption DEF Work, Locks, Writing, TableTypeOK
<1>4. PICK b : b = inode_table[s] OBVIOUS
<1>5. b \in Entry /\ inode_table = [inode_table EXCEPT ![s] = b] BY <1>2, <1>4, SameSlot
<1>6. s # Locks(t) BY <1>2, <1>3
<1>7. Puts(t, s, b, k[t].then)
  BY <1>2, <1>3, <1>4, <1>5, <1>6, PutsKept DEF Id
<1>. QED BY <1>2, <1>3, <1>4, <1>5, <1>7, PutRepeatSound DEF Id

LEMMA IPutWrittenSound ==
    ASSUME Careful(setup), TableParts, NEW t \in Task, IPutWritten(t)
    PROVE  TableParts'
<1>1. PICK s : s = k[t].slot OBVIOUS
<1>2. /\ CallOK(t) /\ TableTypeOK /\ s # None /\ s \in Slot /\ k[t].pc = "written"
      /\ k[t].by = "iput"
      /\ k[t].then \in {"return", "umount"} /\ k[t].empty = None
      /\ PutRepeat(t, [inode_table EXCEPT ![s].i_lock = FALSE], s, k[t].then) /\ held' = held
      /\ UNCHANGED <<setup, imap, disk, written>>
  BY <1>1, Typed DEF IPutWritten, At, TableParts, CallOK, Writing
<1>3. /\ Work(t) = (IF k[t].then = "umount" THEN None ELSE s) /\ Locks(t) = s
      /\ k[t].then = "umount" => sb.s_imount = s /\ t \in setup.umount /\ ~inode_table[s].i_mount
      /\ Id(s) \in Inode
  BY <1>1, <1>2, Typed DEF Work, Locks, Writing, CallOK
<1>4. PICK b : b = [inode_table[s] EXCEPT !.i_lock = FALSE] OBVIOUS
<1>5. /\ b \in Entry /\ b.id = Id(s) /\ b.i_count = inode_table[s].i_count /\ b.val = inode_table[s].val
      /\ b.i_dirt = inode_table[s].i_dirt /\ b.i_mount = inode_table[s].i_mount /\ ~b.i_lock
  BY <1>2, <1>4, Typed DEF Entry, Id
<1>6. [inode_table EXCEPT ![s].i_lock = FALSE] = [inode_table EXCEPT ![s] = b]
  BY <1>4
<1>7. Puts(t, s, b, k[t].then)
  BY <1>2, <1>3, <1>5, PutsKept
<1>. QED BY <1>2, <1>3, <1>5, <1>6, <1>7, PutRepeatSound

LEMMA UMountSound ==
    ASSUME Careful(setup), TableParts, NEW t \in Task, UMount(t)
    PROVE  TableParts'
<1>1. PICK s : s = sb.s_imount OBVIOUS
<1>2. /\ CallOK(t) /\ TableTypeOK /\ k[t] = User /\ s # None /\ s \in Slot /\ t \in setup.umount
      /\ IPut(t, [inode_table EXCEPT ![s].i_mount = FALSE], s, "umount") /\ held' = held
      /\ UNCHANGED <<setup, imap, disk, written>>
  BY <1>1, Typed DEF UMount, At, TableParts, CallOK
<1>3. Work(t) = None /\ Locks(t) = None /\ k[t].empty = None /\ k[t].pc = "user"
  BY <1>2 DEF Work, Locks, Writing, User
<1>4. PICK b : b = [inode_table[s] EXCEPT !.i_mount = FALSE] OBVIOUS
<1>5. /\ b \in Entry /\ b.id = Id(s) /\ b.i_count = inode_table[s].i_count /\ b.val = inode_table[s].val
      /\ b.i_dirt = inode_table[s].i_dirt /\ ~b.i_mount /\ b.i_lock = inode_table[s].i_lock
  BY <1>2, <1>4, Typed DEF Entry, Id
<1>6. [inode_table EXCEPT ![s].i_mount = FALSE] = [inode_table EXCEPT ![s] = b]
  BY <1>4
<1>7. Puts(t, s, b, "umount")
  <2>1. s # Locks(t) BY <1>2, <1>3
  <2>. QED BY <1>1, <1>2, <1>3, <1>5, <2>1, PutsKept
<1>. QED BY <1>2, <1>3, <1>6, <1>7, IPutSound

LEMMA UnlinkSound ==
    ASSUME Careful(setup), TableParts, NEW t \in Task, Unlink(t)
    PROVE  TableParts'
<1>1. PICK s : s = held[t] OBVIOUS
<1>2. /\ CallOK(t) /\ TableTypeOK /\ k[t] = User /\ s # None /\ s \in Slot /\ t \in setup.unlink
      /\ Id(s) \in Inode /\ Id(s) \notin setup.dirs \cup {Root}
      /\ IPut(t, [inode_table EXCEPT ![s].val = Unlinked, ![s].i_dirt = TRUE], s, "return")
      /\ held' = [held EXCEPT ![t] = None] /\ written' = [written EXCEPT ![Id(s)] = Unlinked]
      /\ UNCHANGED <<setup, imap, disk>>
  BY <1>1, Typed DEF Unlink, At, TableParts, CallOK, Id
<1>3. Work(t) = None /\ Locks(t) = None /\ k[t].empty = None /\ k[t].pc = "user" /\ k[t].then = "return"
  BY <1>2 DEF Work, Locks, Writing, User
<1>4. PICK b : b = [inode_table[s] EXCEPT !.val = Unlinked, !.i_dirt = TRUE] OBVIOUS
<1>5. /\ b \in Entry /\ b.id = Id(s) /\ b.i_count = inode_table[s].i_count /\ b.val = Unlinked
      /\ b.i_dirt /\ b.i_mount = inode_table[s].i_mount /\ b.i_lock = inode_table[s].i_lock
  BY <1>2, <1>4, Typed DEF Entry, Id
<1>6. [inode_table EXCEPT ![s].val = Unlinked, ![s].i_dirt = TRUE] = [inode_table EXCEPT ![s] = b]
  BY <1>2, <1>4 DEF TableTypeOK, Entry
<1>7. setup.unlink # {} /\ setup.blk = {} /\ Freeable(Id(s)) /\ Id(s) # NoInode
  BY <1>2, InodeAssumption DEF Careful, Freeable
<1>8. SlotOK(s) /\ Id(s) \in imap BY <1>2, <1>7 DEF TableParts, SlotOK, Id
<1>9. /\ written' \in [Inode -> {Unlinked} \cup Version] /\ written'[Id(s)] = Unlinked
      /\ \A i \in Inode : written'[i] # written[i] => i = Id(s)
  BY <1>2 DEF TableTypeOK
<1>10. ASSUME NEW u \in Task \ {t}, k[u].pc = "wait_iget", k[u].want = Id(s) PROVE FALSE
  <2>1. Unheld(Id(s)) BY <1>10 DEF TableParts, CallOK
  <2>. QED BY <1>1, <1>2, <1>7, <2>1 DEF Unheld
<1>11. Puts(t, s, b, "return")
  BY <1>1, <1>2, <1>3, <1>5, <1>7, <1>8, <1>9, <1>10 DEF Puts
<1>. QED BY <1>2, <1>3, <1>6, <1>7, <1>11, IPutSound

(* sys_mount finds the super block, and the end of sys_mount.              *)
LEMMA GetSuperSound ==
    ASSUME Careful(setup), TableParts, NEW t \in Task, GetSuper(t)
    PROVE  TableParts'
<1>1. PICK s : s = k[t].slot OBVIOUS
<1>2. /\ CallOK(t) /\ TableTypeOK /\ s # None /\ s \in Slot /\ k[t].pc = "read_super"
      /\ k[t].then = "return" /\ k[t].empty = None /\ held' = held /\ sb.s_dev /\ ~sb.s_lock
      /\ UNCHANGED <<setup, imap, disk, written>> /\ Mounted(t, sb)
  BY <1>1, Typed DEF GetSuper, At, TableParts, CallOK
<1>3. Work(t) = s /\ Locks(t) = None BY <1>1, <1>2 DEF Work, Locks, Writing
<1>4. CASE sb.s_imount # None \/ inode_table[s].i_mount
  <2>1. IPut(t, inode_table, s, "return") BY <1>1, <1>2, <1>4 DEF Mounted
  <2>2. PICK b : b = inode_table[s] OBVIOUS
  <2>3. b \in Entry /\ inode_table = [inode_table EXCEPT ![s] = b] BY <1>2, <2>2, SameSlot
  <2>4. s # Locks(t) BY <1>2, <1>3
  <2>5. Puts(t, s, b, "return")
    BY <1>2, <1>3, <2>2, <2>3, <2>4, PutsKept DEF Id
  <2>. QED BY <1>2, <1>3, <2>1, <2>2, <2>3, <2>5, IPutSound
<1>5. CASE sb.s_imount = None /\ ~inode_table[s].i_mount
  <2>1. /\ sb' = [sb EXCEPT !.s_imount = s]
        /\ inode_table' = [inode_table EXCEPT ![s].i_mount = TRUE, ![s].i_dirt = TRUE]
        /\ Return(t) /\ UNCHANGED panicked
    BY <1>1, <1>2, <1>5 DEF Mounted
  <2>2. inode_table' = [inode_table EXCEPT ![s] = [@ EXCEPT !.i_mount = TRUE, !.i_dirt = TRUE]]
    BY <1>2, <2>1 DEF TableTypeOK, Entry
  <2>3. /\ sb' \in [s_dev : BOOLEAN, s_lock : BOOLEAN, s_imount : Slot \cup {None}]
        /\ sb'.s_dev /\ ~sb'.s_lock /\ sb'.s_imount = s
    BY <1>2, <2>1 DEF TableTypeOK
  <2>4. \A u \in Task \ {t} : k[u].pc # "reading_super" BY <1>2 DEF TableParts, CallOK
  <2>. QED BY <1>1, <1>2, <1>5, <2>1, <2>2, <2>3, <2>4, MountedSound
<1>. QED BY <1>4, <1>5, <1>2, Typed

LEMMA SuperReadSound ==
    ASSUME Careful(setup), TableParts, NEW t \in Task, SuperRead(t)
    PROVE  TableParts'
<1>1. PICK s : s = k[t].slot OBVIOUS
<1>2. /\ CallOK(t) /\ TableTypeOK /\ SuperOK /\ s # None /\ s \in Slot /\ k[t].pc = "reading_super"
      /\ held' = held /\ sb.s_lock /\ Apart /\ SlotOK(s)
      /\ UNCHANGED <<setup, imap, disk, written>> /\ Mounted(t, [sb EXCEPT !.s_lock = FALSE])
  BY <1>1, Typed DEF SuperRead, At, TableParts, CallOK
<1>3. sb.s_imount = None /\ sb.s_dev /\ ~inode_table[s].i_mount
  BY <1>2 DEF SuperOK, SlotOK
<1>4. PICK super : super = [sb EXCEPT !.s_lock = FALSE] OBVIOUS
<1>5. /\ super \in [s_dev : BOOLEAN, s_lock : BOOLEAN, s_imount : Slot \cup {None}]
      /\ super.s_dev /\ ~super.s_lock /\ super.s_imount = None
  BY <1>2, <1>3, <1>4 DEF TableTypeOK
<1>6. /\ sb' = [super EXCEPT !.s_imount = s]
      /\ inode_table' = [inode_table EXCEPT ![s].i_mount = TRUE, ![s].i_dirt = TRUE]
      /\ Return(t) /\ UNCHANGED panicked
  BY <1>1, <1>2, <1>3, <1>4, <1>5 DEF Mounted
<1>7. inode_table' = [inode_table EXCEPT ![s] = [@ EXCEPT !.i_mount = TRUE, !.i_dirt = TRUE]]
  BY <1>2, <1>6 DEF TableTypeOK, Entry
<1>8. /\ sb' \in [s_dev : BOOLEAN, s_lock : BOOLEAN, s_imount : Slot \cup {None}]
      /\ sb'.s_dev /\ ~sb'.s_lock /\ sb'.s_imount = s
  BY <1>2, <1>5, <1>6
<1>9. \A u \in Task \ {t} : k[u].pc # "reading_super" BY <1>2 DEF Apart
<1>. QED BY <1>1, <1>2, <1>3, <1>6, <1>7, <1>8, <1>9, MountedSound

-----------------------------------------------------------------------------
LEMMA SyncInodesSound ==
    ASSUME Careful(setup), TableParts, NEW t \in Task, SyncInodes(t)
    PROVE  TableParts'
<1>1. /\ CallOK(t) /\ TableTypeOK /\ k[t] = User /\ setup.unlink = {} /\ held' = held
      /\ UNCHANGED <<setup, imap, disk, written>> /\ SyncFrom(t, inode_table, 1, "return", None)
  BY DEF SyncInodes, At, TableParts, CallOK, Careful
<1>2. Work(t) = None /\ Locks(t) = None /\ k[t].empty = None /\ k[t].pc = "user" /\ k[t].then = "return"
  BY <1>1 DEF Work, Locks, Writing, User
<1>3. \A x \in Slot : inode_table[x] = [inode_table[x] EXCEPT !.i_lock = @ /\ x # Locks(t)]
  BY <1>1, <1>2, TableConstants DEF TableTypeOK, Entry
<1>4. Syncs(t, inode_table, "return", None) BY <1>1, <1>2, <1>3 DEF Syncs, TableTypeOK
<1>. QED BY <1>1, <1>4, SyncFromSound

LEMMA SyncAgainSound ==
    ASSUME Careful(setup), TableParts, NEW t \in Task, SyncAgain(t)
    PROVE  TableParts'
<1>1. PICK then : then = k[t].then OBVIOUS
<1>2. PICK s : s = k[t].slot OBVIOUS
<1>3. /\ CallOK(t) /\ TableTypeOK /\ k[t].pc = "sync_inodes" /\ setup.unlink = {} /\ held' = held
      /\ \/ then = "iput" /\ s # None /\ s \in Slot /\ Id(s) \in setup.blk
         \/ then = "return" /\ s = None
      /\ UNCHANGED <<setup, imap, disk, written>> /\ SyncFrom(t, inode_table, k[t].n, then, s)
      /\ k[t].n \in Nat \ {0} /\ k[t].empty = None
  <2>1. /\ CallOK(t) /\ TableTypeOK /\ k[t].pc = "sync_inodes" /\ held' = held
        /\ UNCHANGED <<setup, imap, disk, written>> /\ SyncFrom(t, inode_table, k[t].n, then, s)
    BY <1>1, <1>2 DEF SyncAgain, At, TableParts
  <2>2. k[t].n \in Slot /\ k[t].slot \in Slot \cup {None} BY <2>1, Typed
  <2>3. k[t].n \in Nat \ {0} BY <2>2 DEF Slot
  <2>4. /\ setup.unlink = {} /\ k[t].empty = None
        /\ \/ then = "iput" /\ s # None /\ Id(s) \in setup.blk
           \/ then = "return" /\ s = None
    BY <1>1, <1>2, <2>1 DEF CallOK
  <2>. QED BY <1>2, <2>1, <2>2, <2>3, <2>4
<1>4. Work(t) = s /\ Locks(t) = None /\ then = k[t].then
  BY <1>1, <1>2, <1>3 DEF Work, Locks, Writing
<1>5. \A x \in Slot : inode_table[x] = [inode_table[x] EXCEPT !.i_lock = @ /\ x # Locks(t)]
  BY <1>3, <1>4, TableConstants DEF TableTypeOK, Entry
<1>6. Syncs(t, inode_table, then, s)
  BY <1>3, <1>4, <1>5 DEF Syncs, TableTypeOK
<1>. QED BY <1>3, <1>6, SyncFromSound

LEMMA SyncWrittenSound ==
    ASSUME Careful(setup), TableParts, NEW t \in Task, SyncWritten(t)
    PROVE  TableParts'
<1>1. PICK then : then = k[t].then OBVIOUS
<1>2. PICK s : s = k[t].slot OBVIOUS
<1>3. PICK n : n = k[t].n OBVIOUS
<1>4. PICK tab : tab = [inode_table EXCEPT ![n].i_lock = FALSE] OBVIOUS
<1>5. /\ CallOK(t) /\ TableTypeOK /\ k[t].pc = "written" /\ k[t].by = "sync" /\ setup.unlink = {}
      /\ held' = held
      /\ \/ then = "iput" /\ s # None /\ s \in Slot /\ Id(s) \in setup.blk
         \/ then = "return" /\ s = None
      /\ UNCHANGED <<setup, imap, disk, written>> /\ SyncFrom(t, tab, n + 1, then, s)
      /\ n \in Slot /\ n + 1 \in Nat \ {0} /\ k[t].empty = None
  <2>1. /\ CallOK(t) /\ TableTypeOK /\ k[t].pc = "written" /\ k[t].by = "sync" /\ held' = held
        /\ UNCHANGED <<setup, imap, disk, written>> /\ SyncFrom(t, tab, n + 1, then, s)
    BY <1>1, <1>2, <1>3, <1>4 DEF SyncWritten, At, TableParts
  <2>2. n \in Slot /\ k[t].slot \in Slot \cup {None} BY <1>3, <2>1, Typed
  <2>3. n + 1 \in Nat \ {0} BY <2>2 DEF Slot
  <2>4. /\ setup.unlink = {} /\ k[t].empty = None
        /\ \/ then = "iput" /\ s # None /\ Id(s) \in setup.blk
           \/ then = "return" /\ s = None
    BY <1>1, <1>2, <2>1 DEF CallOK, Writing
  <2>. QED BY <1>2, <2>1, <2>2, <2>3, <2>4
<1>6. Work(t) = s /\ Locks(t) = n /\ then = k[t].then
  BY <1>1, <1>2, <1>3, <1>5 DEF Work, Locks, Writing
<1>7. /\ tab \in [Slot -> Entry]
      /\ \A x \in Slot : tab[x] = [inode_table[x] EXCEPT !.i_lock = @ /\ x # Locks(t)]
  <2>1. PICK c : c = [inode_table[n] EXCEPT !.i_lock = FALSE] OBVIOUS
  <2>2. inode_table \in [Slot -> Entry] /\ inode_table[n] \in Entry BY <1>5 DEF TableTypeOK
  <2>3. c \in Entry /\ tab = [inode_table EXCEPT ![n] = c] BY <1>4, <2>1, <2>2 DEF Entry
  <2>4. tab \in [Slot -> Entry] /\ tab[n] = c /\ \A x \in Slot \ {n} : tab[x] = inode_table[x]
    BY <1>5, <2>2, <2>3
  <2>5. \A x \in Slot \ {n} : tab[x] = [inode_table[x] EXCEPT !.i_lock = @ /\ x # Locks(t)]
    <3>. TAKE x \in Slot \ {n}
    <3>1. inode_table[x] \in Entry /\ tab[x] = inode_table[x] BY <2>2, <2>4
    <3>. QED BY <1>6, <3>1 DEF Entry
  <2>6. tab[n] = [inode_table[n] EXCEPT !.i_lock = @ /\ n # Locks(t)]
    BY <1>6, <2>1, <2>2, <2>4 DEF Entry
  <2>. QED BY <2>4, <2>5, <2>6
<1>8. Syncs(t, tab, then, s)
  BY <1>5, <1>6, <1>7 DEF Syncs
<1>. QED BY <1>5, <1>8, SyncFromSound

-----------------------------------------------------------------------------
LEMMA FreeInodeSound ==
    ASSUME Careful(setup), TableParts, NEW t \in Task, FreeInode(t)
    PROVE  TableParts'
<1>1. PICK s : s = k[t].slot OBVIOUS
<1>2. PICK i : i = Id(s) OBVIOUS
<1>3. /\ CallOK(t) /\ TableTypeOK /\ SuperOK /\ OneSlot /\ s # None /\ s \in Slot /\ k[t].pc = "truncate"
      /\ k[t].then = "return" /\ k[t].empty = None /\ i \in Inode /\ Freeable(i) /\ held' = held
      /\ inode_table[s].val = Unlinked /\ inode_table[s].i_count = 1
      /\ inode_table' = [inode_table EXCEPT ![s] = Blank] /\ imap' = imap \ {i}
      /\ Return(t) /\ UNCHANGED <<setup, disk, written, sb>> /\ ~panicked'
  <2>1. /\ CallOK(t) /\ TableTypeOK /\ SuperOK /\ OneSlot /\ s # None /\ s \in Slot /\ k[t].pc = "truncate"
        /\ k[t].then = "return" /\ i \in Inode /\ Freeable(i)
        /\ inode_table[s].val = Unlinked
    BY <1>1, <1>2, Typed DEF FreeInode, At, TableParts, CallOK
  <2>2. inode_table[s].i_count = 1 /\ k[t].empty = None
    BY <1>1, <2>1 DEF CallOK, Sole
  <2>3. /\ held' = held /\ imap' = imap \ {i} /\ inode_table' = [inode_table EXCEPT ![s] = Blank]
        /\ Return(t) /\ UNCHANGED <<setup, disk, written, sb>>
        /\ panicked' = (inode_table[s].i_count > 1)
    BY <1>1, <1>2, <2>1 DEF FreeInode, Id
  <2>4. ~(inode_table[s].i_count > 1) BY <2>2
  <2>5. ~panicked' BY <2>3, <2>4, Zenon
  <2>. QED BY <2>1, <2>2, <2>3, <2>5
<1>4. /\ Work(t) = s /\ Locks(t) = None /\ Uses(t, s) /\ setup.unlink # {} /\ setup.blk = {}
      /\ i # NoInode /\ i # Root /\ i \notin setup.dirs
  BY <1>1, <1>3, InodeAssumption DEF Work, Locks, Writing, Uses, Freeable, Careful
<1>5. /\ k' \in [Task -> Locals] /\ k'[t] = User /\ \A u \in Task \ {t} : k'[u] = k[u]
      /\ Work(t)' = None /\ Locks(t)' = None
      /\ k'[t].pc = "user" /\ k'[t].slot = None /\ k'[t].empty = None
  BY <1>3, ReturnIs
<1>6. /\ inode_table' \in [Slot -> Entry] /\ inode_table'[s] = Blank
      /\ \A x \in Slot \ {s} : inode_table'[x] = inode_table[x]
  BY <1>3, UserTyped DEF TableTypeOK
<1>7. /\ Blank.id = NoInode /\ Blank.i_count = 0 /\ ~Blank.i_dirt /\ ~Blank.i_lock /\ ~Blank.i_mount
  BY DEF Blank
<1>8. /\ Users(s) = 1 /\ ~Reading(s) /\ sb.s_imount # s /\ held[t] # s
      /\ \A u \in Task \ {t} : Sole(u) # s /\ ~Uses(u, s)
  <2>1. Users(s) = 1 /\ ~Reading(s) /\ \A u \in Task \ {t} : Sole(u) # s
    BY <1>3, <1>4, UsedIs
  <2>. QED BY <1>3, <1>4, <2>1, UsersAre DEF Uses
<1>9. written[i] = Unlinked
  <2>1. SlotOK(s) BY <1>3 DEF TableParts
  <2>. QED BY <1>2, <1>3, <1>4, <1>8, <2>1 DEF SlotOK, Id
<1>10. TableTypeOK' BY <1>3, <1>5, <1>6 DEF TableTypeOK
<1>11. SuperOK' BY <1>3, <1>6, <1>8, Typed DEF SuperOK, Id
<1>12. ASSUME NEW u \in Task \ {t} PROVE Left(u)
  <2>1. CallOK(u) /\ k[u].slot \in Slot \cup {None} BY <1>3, Typed DEF TableParts
  <2>2. Sole(u) # None => Sole(u) \in Slot /\ Sole(u) # s BY <1>8, SoleIs
  <2>3. Locks(u) = Sole(u) \/ Locks(u) = None
    <3>1. k[u].by \in {"iput", "sync"} BY <1>3, Typed
    <3>. QED BY <1>4, <2>1, <3>1 DEF Locks, Sole, Writing, CallOK
  <2>4. Locks(u) # None => inode_table'[Locks(u)].i_lock /\ inode_table'[Locks(u)].id = Id(Locks(u))
    BY <1>6, <2>1, <2>2, <2>3 DEF CallOK, Id
  <2>5. \A x \in Slot : Work(u) = x => inode_table'[x].id = Id(x)
    BY <1>6, <1>8 DEF Uses, Id
  <2>6. k[u].pc = "wait_iget" => /\ written'[k[u].want] # Unlinked
                                 /\ k[u].want = Root => sb'.s_imount # None
                                 /\ Unheld(k[u].want)'
    <3>1. SUFFICES ASSUME k[u].pc = "wait_iget"
                   PROVE  /\ written'[k[u].want] # Unlinked
                          /\ k[u].want = Root => sb'.s_imount # None
                          /\ Unheld(k[u].want)'
      OBVIOUS
    <3>2. /\ written[k[u].want] # Unlinked /\ (k[u].want = Root => sb.s_imount # None)
          /\ Unheld(k[u].want) /\ k[u].want # NoInode
      BY <1>3, <2>1, <3>1, InodeAssumption DEF CallOK
    <3>3. \A x \in Slot : inode_table'[x].id = k[u].want => x # s /\ Id(x) = k[u].want
      BY <1>6, <1>7, <3>2 DEF Id
    <3>4. k'[u].want = k[u].want BY <1>5
    <3>. QED BY <1>3, <1>6, <3>2, <3>3, <3>4 DEF Unheld, Id, Freeable
  <2>7. k[u].then = "umount" => sb'.s_imount = sb.s_imount /\ ~inode_table'[k[u].slot].i_mount
    BY <1>3, <1>6, <1>8, <2>1 DEF CallOK
  <2>8. k[u].pc = "reading_super" => sb'.s_lock BY <1>3, <2>1 DEF CallOK
  <2>. QED BY <1>3, <1>5, <1>6, <2>2, <2>4, <2>5, <2>6, <2>7, <2>8 DEF Left
<1>13. CallOK(t)' BY <1>5 DEF CallOK, Writing, Sole, Locks, User
<1>14. LockedBy'
  <2>1. \A u \in Task \ {t} : Locks(u)' = Locks(u) BY <1>5 DEF Locks, Writing
  <2>. QED BY <1>4, <1>6, <1>7, <2>1, TableConstants, LockedByIs
<1>15. ASSUME NEW x \in Slot PROVE SlotOK(x)'
  <2>1. CASE x = s
    <3>1. Users(s)' = 0
      BY <1>3, <1>5, <1>8, <1>4, UsersStep
    <3>. QED BY <1>6, <1>7, <2>1, <3>1 DEF SlotOK
  <2>2. CASE x # s
    <3>1. x # None /\ (Id(x) # i \/ Id(x) = NoInode)
      BY <1>2, <1>3, <1>4, <2>2, TableConstants DEF OneSlot
    <3>2. Work(t)' # x /\ Work(t) # x /\ x # None BY <1>4, <1>5, <2>2, TableConstants
    <3>3. Id(x) # NoInode =>
             /\ disk'[Id(x)] = disk[Id(x)] /\ written'[Id(x)] = written[Id(x)]
             /\ Id(x) \in imap => Id(x) \in imap'
      BY <1>3, <3>1
    <3>. QED BY <1>3, <1>5, <1>6, <2>2, <3>2, <3>3, SlotKept
  <2>. QED BY <2>1, <2>2
<1>16. ASSUME NEW j \in Inode PROVE InodeOK(j)'
  <2>1. CASE j = i
    <3>1. Freeable(i)' BY <1>3 DEF Freeable
    <3>. QED BY <1>3, <1>4, <1>9, <2>1, <3>1 DEF InodeOK
  <2>2. CASE j # i
    <3>1. \A x \in Slot : Id(x) = j => inode_table'[x].id = j
      BY <1>2, <1>6, <2>2 DEF Id
    <3>. QED BY <1>3, <2>2, <3>1, InodeKept
  <2>. QED BY <2>1, <2>2
<1>17. OneSlot'
  BY <1>3, <1>6, <1>7 DEF OneSlot, Id
<1>. QED BY <1>3, <1>5, <1>10, <1>11, <1>12, <1>13, <1>14, <1>15, <1>16, <1>17, StepSound

LEMMA NewInodeSound ==
    ASSUME Careful(setup), TableParts, NEW t \in Task, NEW i \in Inode, NewInode(t, i)
    PROVE  TableParts'
<1>1. PICK c : c = [Blank EXCEPT !.id = i, !.i_count = 1, !.i_dirt = TRUE, !.val = 1] OBVIOUS
<1>2. PICK e \in Empty : inode_table' = [inode_table EXCEPT ![e] = c] /\ held' = [held EXCEPT ![t] = e]
  BY <1>1 DEF NewInode
<1>3. /\ TableTypeOK /\ SuperOK /\ OneSlot /\ CallOK(t) /\ InodeOK(i)
      /\ k[t] = User /\ held[t] = None /\ i \notin imap /\ e \in Slot /\ e # None
      /\ imap' = imap \cup {i} /\ written' = [written EXCEPT ![i] = 1]
      /\ UNCHANGED <<setup, disk, sb, k>> /\ ~panicked' /\ inode_table[e].i_count = 0
  BY TableConstants DEF NewInode, TableParts, CallOK, At, Empty
<1>4. /\ sb.s_imount # e /\ Users(e) = 0 /\ ~Reading(e)
      /\ \A u \in Task : ~Uses(u, e) /\ Sole(u) # e /\ Locks(u) # e
  BY <1>3, UnusedIs
<1>5. /\ c \in Entry /\ c.id = i /\ c.i_count = 1 /\ c.i_dirt /\ ~c.i_lock /\ ~c.i_mount /\ c.val = 1
  BY <1>1, UserTyped DEF Blank, Entry, Version
<1>6. /\ inode_table' \in [Slot -> Entry] /\ inode_table'[e] = c
      /\ \A x \in Slot \ {e} : inode_table'[x] = inode_table[x]
      /\ held' \in [Task -> Slot \cup {None}] /\ held'[t] = e
      /\ \A u \in Task \ {t} : held'[u] = held[u]
      /\ written' \in [Inode -> {Unlinked} \cup Version] /\ written'[i] = 1
      /\ \A j \in Inode \ {i} : written'[j] = written[j]
  BY <1>2, <1>3, <1>5 DEF TableTypeOK, Version
<1>7. TableTypeOK' BY <1>3, <1>6 DEF TableTypeOK
<1>8. /\ i # NoInode /\ i # Root /\ i \notin setup.dirs \cup setup.blk
      /\ \A x \in Slot : Id(x) # i
  <2>1. \A x \in Slot : SlotOK(x) BY DEF TableParts
  <2>. QED BY <1>3, <2>1, InodeAssumption DEF InodeOK, SlotOK, Id
<1>9. 1 # Unlinked BY DEF Unlinked
<1>10. SuperOK' BY <1>3, <1>4, <1>6, Typed DEF SuperOK, Id
<1>11. Work(t) = None /\ Locks(t) = None /\ k[t].pc = "user"
  BY <1>3 DEF Work, Locks, Writing, User
<1>12. ASSUME NEW u \in Task \ {t} PROVE Left(u)
  <2>1. CallOK(u) /\ k[u].slot \in Slot \cup {None} /\ k[u].n \in Slot BY <1>3, Typed DEF TableParts
  <2>2. Sole(u) # None => Sole(u) \in Slot /\ Sole(u) # e BY <1>4, SoleIs
  <2>3. Locks(u) # None => Locks(u) \in Slot /\ Locks(u) # e BY <1>4, <2>1 DEF Locks
  <2>4. Locks(u) # None => inode_table'[Locks(u)].i_lock /\ inode_table'[Locks(u)].id = Id(Locks(u))
    BY <1>6, <2>1, <2>3 DEF CallOK, Id
  <2>5. \A x \in Slot : Work(u) = x => inode_table'[x].id = Id(x)
    BY <1>4, <1>6 DEF Uses, Id
  <2>6. k[u].pc = "wait_iget" => /\ written'[k[u].want] # Unlinked
                                 /\ k[u].want = Root => sb'.s_imount # None
                                 /\ Unheld(k[u].want)'
    <3>1. SUFFICES ASSUME k[u].pc = "wait_iget"
                   PROVE  /\ written'[k[u].want] # Unlinked
                          /\ k[u].want = Root => sb'.s_imount # None
                          /\ Unheld(k[u].want)'
      OBVIOUS
    <3>2. /\ written[k[u].want] # Unlinked /\ (k[u].want = Root => sb.s_imount # None)
          /\ Unheld(k[u].want) /\ k[u].want \in Inode
      BY <1>3, <2>1, <3>1 DEF CallOK
    <3>3. k[u].want # i
      <4>1. InodeOK(k[u].want) BY <3>2 DEF TableParts
      <4>. QED BY <1>3, <3>2, <4>1 DEF InodeOK
    <3>4. \A x \in Slot : inode_table'[x].id = k[u].want => x # e /\ Id(x) = k[u].want
      BY <1>5, <1>6, <3>3 DEF Id
    <3>5. \A x \in Slot \ {e} : \A v \in Task : held'[v] = x => held[v] = x
      BY <1>6
    <3>. QED BY <1>3, <1>6, <3>2, <3>3, <3>4, <3>5 DEF Unheld, Id, Freeable
  <2>7. k[u].then = "umount" => sb'.s_imount = sb.s_imount /\ ~inode_table'[k[u].slot].i_mount
    BY <1>3, <1>4, <1>6, <2>1 DEF CallOK
  <2>8. k[u].pc = "reading_super" => sb'.s_lock BY <1>3, <2>1 DEF CallOK
  <2>. QED BY <1>3, <1>6, <2>2, <2>4, <2>5, <2>6, <2>7, <2>8 DEF Left
<1>13. CallOK(t)' /\ Locks(t)' = None BY <1>3 DEF CallOK, Writing, Sole, Locks, User
<1>14. LockedBy'
  <2>1. \A u \in Task \ {t} : Locks(u)' = Locks(u) BY <1>3 DEF Locks, Writing
  <2>. QED BY <1>11, <1>5, <1>6, <2>1, TableConstants, LockedByIs
<1>18. Work(t)' = None /\ k'[t].pc = "user" /\ k[t].empty = None /\ k'[t].empty = None
       /\ \A u \in Task \ {t} : k'[u] = k[u]
  BY <1>3 DEF Work, User
<1>15. ASSUME NEW x \in Slot PROVE SlotOK(x)'
  <2>1. CASE x = e
    <3>1. Users(e)' = 1
      BY <1>3, <1>4, <1>6, <1>11, <1>18, UsersStep
    <3>2. ~Reading(e)' BY <1>3, <1>4 DEF Reading
    <3>. QED BY <1>3, <1>5, <1>6, <1>8, <1>9, <2>1, <3>1, <3>2 DEF SlotOK
  <2>2. CASE x # e
    <3>1. x # None BY TableConstants
    <3>2. Id(x) # NoInode =>
             /\ disk'[Id(x)] = disk[Id(x)] /\ written'[Id(x)] = written[Id(x)]
             /\ Id(x) \in imap => Id(x) \in imap'
      BY <1>3, <1>6, <1>8, Typed
    <3>3. /\ held'[t] # x /\ held[t] # x /\ Work(t) # x /\ Work(t)' # x
          /\ k'[t].empty # x /\ k[t].empty # x
          /\ k'[t].pc # "read_inode" /\ k[t].pc # "read_inode"
          /\ inode_table'[x] = inode_table[x] /\ sb'.s_imount = sb.s_imount
          /\ \A u \in Task \ {t} : k'[u] = k[u] /\ held'[u] = held[u]
      BY <1>3, <1>6, <1>11, <1>18, <2>2, <3>1
    <3>4. /\ held'[t] = x <=> held[t] = x
          /\ k'[t].empty = x <=> k[t].empty = x
          /\ Work(t)' = x <=> Work(t) = x
          /\ sb'.s_imount = x <=> sb.s_imount = x
          /\ k'[t].pc = "read_inode" /\ k'[t].slot = x <=> k[t].pc = "read_inode" /\ k[t].slot = x
      BY <3>3
    <3>5. setup' = setup BY <1>3
    <3>. QED BY <3>2, <3>3, <3>4, <3>5, SlotKept
  <2>. QED BY <2>1, <2>2
<1>16. ASSUME NEW j \in Inode PROVE InodeOK(j)'
  <2>1. InodeOK(j) BY DEF TableParts
  <2>2. CASE j = i
    <3>1. \E x \in Slot : inode_table'[x].id = i BY <1>3, <1>5, <1>6
    <3>. QED BY <1>3, <1>8, <2>1, <2>2, <3>1 DEF InodeOK, Id, Freeable
  <2>3. CASE j # i /\ j = Id(e)
    <3>1. SlotOK(e) /\ ~inode_table[e].i_dirt BY <1>3, UnusedIs DEF TableParts
    <3>2. j # Root => disk[j] = written[j]
      BY <1>4, <2>3, <3>1, InodeAssumption DEF SlotOK, Id
    <3>. QED BY <1>3, <1>6, <2>1, <2>3, <3>2 DEF InodeOK, Freeable
  <2>4. CASE j # i /\ j # Id(e)
    <3>1. \A x \in Slot : Id(x) = j => inode_table'[x].id = j
      BY <1>6, <2>4 DEF Id
    <3>. QED BY <1>3, <1>6, <2>4, <3>1, InodeKept
  <2>. QED BY <2>2, <2>3, <2>4
<1>17. OneSlot'
  BY <1>3, <1>5, <1>6, <1>8 DEF OneSlot, Id
<1>. QED BY <1>3, <1>7, <1>10, <1>12, <1>13, <1>14, <1>15, <1>16, <1>17, <1>18, StepSound

-----------------------------------------------------------------------------
(* invalidate_inodes, up to the next locked inode.                         *)
LEMMA InvalidateSound ==
    ASSUME Careful(setup), TableParts, NEW t \in Task, NEW n \in Slot, InvalidateFrom(t, n),
           k[t].pc \in {"user", "invalidate"}, k[t].slot = None, k[t].then = "return",
           sb' = sb \/ (sb.s_imount = None /\ ~sb.s_lock /\ sb' = NotMounted),
           UNCHANGED <<setup, imap, disk, written, held, panicked>>
    PROVE  TableParts'
<1>. DEFINE Stops == {m \in n..NR_INODE : Locked(m)}
            least == IF Stops = {} THEN NR_INODE + 1
                     ELSE CHOOSE x \in Stops : \A y \in Stops : x <= y
<1>1. PICK m : m = least OBVIOUS
<1>2. /\ inode_table' = [s \in Slot |->
             IF s \in n..(m - 1) /\ inode_table[s].id = Root
             THEN [inode_table[s] EXCEPT !.id = NoInode, !.i_dirt = FALSE]
             ELSE inode_table[s]]
      /\ IF Stops = {} THEN Return(t) ELSE To(t, [k[t] EXCEPT !.pc = "invalidate", !.n = m])
  BY <1>1 DEF InvalidateFrom
<1>3. /\ \A x \in Slot : x \in n..(m - 1) => ~inode_table[x].i_lock
      /\ Stops # {} => m \in Slot
  <2>1. Stops \in SUBSET Nat /\ n..NR_INODE \subseteq Slot BY InodeAssumption DEF Slot
  <2>2. Stops # {} => \E x \in Stops : \A y \in Stops : x <= y BY <2>1, LeastOf
  <2>3. Stops # {} => m \in Stops /\ \A y \in Stops : m <= y BY <1>1, <2>2
  <2>4. Stops # {} => m \in Slot BY <2>1, <2>3
  <2>5. ASSUME NEW x \in Slot, x \in n..(m - 1), inode_table[x].i_lock PROVE FALSE
    <3>1. x \in n..NR_INODE /\ x \in Nat /\ n \in Nat /\ NR_INODE \in Nat BY <2>5, InodeAssumption DEF Slot
    <3>2. x \in Stops BY <2>5, <3>1 DEF Locked
    <3>3. m \in Nat /\ m <= x BY <2>1, <2>3, <3>2
    <3>. QED BY <2>5, <3>1, <3>3
  <2>. QED BY <2>4, <2>5
<1>. HIDE DEF Stops, least
<1>4. /\ TableTypeOK /\ SuperOK /\ OneSlot /\ CallOK(t) /\ k[t] \in Locals /\ k[t].empty = None
      /\ setup' = setup /\ imap' = imap /\ disk' = disk /\ written' = written /\ held' = held
      /\ ~panicked' /\ Work(t) = None /\ Locks(t) = None /\ Root # NoInode
      /\ Root \notin setup.dirs \cup setup.blk
  BY Typed, InodeAssumption DEF TableParts, CallOK, Work, Locks, Writing, Careful
<1>5. ASSUME NEW x \in Slot
      PROVE  /\ inode_table'[x] \in Entry
             /\ inode_table'[x].i_count = inode_table[x].i_count
             /\ inode_table'[x].i_lock = inode_table[x].i_lock
             /\ inode_table'[x].i_mount = inode_table[x].i_mount
             /\ \/ inode_table'[x] = inode_table[x]
                \/ /\ Id(x) = Root /\ ~inode_table[x].i_lock
                   /\ inode_table'[x].id = NoInode /\ ~inode_table'[x].i_dirt
  <2>1. inode_table[x] \in Entry BY <1>4, Typed
  <2>2. PICK c : c = [inode_table[x] EXCEPT !.id = NoInode, !.i_dirt = FALSE] OBVIOUS
  <2>3. /\ c \in Entry /\ c.id = NoInode /\ ~c.i_dirt /\ c.i_count = inode_table[x].i_count
        /\ c.i_lock = inode_table[x].i_lock /\ c.i_mount = inode_table[x].i_mount
    BY <2>1, <2>2 DEF Entry
  <2>4. \/ inode_table'[x] = inode_table[x]
        \/ inode_table'[x] = c /\ Id(x) = Root /\ ~inode_table[x].i_lock
    BY <1>2, <1>3, <2>2 DEF Id
  <2>. QED BY <2>1, <2>3, <2>4
<1>6. PICK l \in Locals : /\ To(t, l) /\ l.slot = None /\ l.then = "return" /\ l.empty = None
                          /\ l = User \/ l.pc = "invalidate"
  <2>1. CASE Stops = {}
    <3>1. To(t, User) BY <1>2, <2>1 DEF To, Return
    <3>2. User \in Locals /\ User.slot = None /\ User.then = "return" /\ User.empty = None
      BY UserTyped DEF User
    <3>. QED BY <3>1, <3>2
  <2>2. CASE Stops # {}
    <3>1. PICK l : l = [k[t] EXCEPT !.pc = "invalidate", !.n = m] OBVIOUS
    <3>2. l \in Locals /\ l.slot = None /\ l.then = "return" /\ l.empty = None /\ l.pc = "invalidate"
      BY <1>3, <1>4, <2>2, <3>1 DEF Locals, CallPcs
    <3>. QED BY <1>2, <2>2, <3>1, <3>2
  <2>. QED BY <2>1, <2>2
<1>7. k' \in [Task -> Locals] /\ k'[t] = l /\ \A u \in Task \ {t} : k'[u] = k[u]
  BY <1>4, <1>6, ToIs
<1>8. /\ l.pc \in {"user", "invalidate"} /\ Work(t)' = None /\ Locks(t)' = None
      /\ Sole(t)' = None /\ ~Writing(t)'
  BY <1>6, <1>7 DEF Work, Locks, Sole, Writing, User
<1>9. inode_table' \in [Slot -> Entry]
  <2>1. inode_table' = [x \in Slot |-> inode_table'[x]] BY <1>2
  <2>. QED BY <1>5, <2>1
<1>10. /\ sb' \in [s_dev : BOOLEAN, s_lock : BOOLEAN, s_imount : Slot \cup {None}]
       /\ sb'.s_imount = sb.s_imount
       /\ sb.s_lock => sb' = sb
  <2>1. /\ NotMounted \in [s_dev : BOOLEAN, s_lock : BOOLEAN, s_imount : Slot \cup {None}]
        /\ NotMounted.s_imount = None
    BY DEF NotMounted
  <2>. QED BY <1>4, <2>1 DEF TableTypeOK
<1>11. TableTypeOK' BY <1>4, <1>7, <1>9, <1>10 DEF TableTypeOK
<1>12. SuperOK'
  <2>1. sb'.s_lock => sb' = sb
    <3>1. ~NotMounted.s_lock BY DEF NotMounted
    <3>. QED BY <3>1
  <2>2. sb'.s_imount # None => sb' = sb /\ sb.s_imount \in Slot /\ Id(sb.s_imount) # Root
    <3>1. NotMounted.s_imount = None BY DEF NotMounted
    <3>. QED BY <1>4, <3>1, Typed DEF SuperOK
  <2>3. sb'.s_imount # None => inode_table'[sb'.s_imount].id \in setup.dirs
    BY <1>4, <1>5, <2>2 DEF SuperOK, Id
  <2>. QED BY <1>4, <2>1, <2>2, <2>3 DEF SuperOK, Id
<1>13. ASSUME NEW u \in Task \ {t} PROVE Left(u)
  <2>1. /\ CallOK(u) /\ k[u].slot \in Slot \cup {None} /\ k[u].empty \in Slot \cup {None}
        /\ k[u].n \in Slot
    BY <1>4, Typed DEF TableParts
  <2>2. Locks(u) # None => Locks(u) \in Slot /\ inode_table[Locks(u)].i_lock
    BY <2>1 DEF CallOK, Locks
  <2>3. Sole(u) # None => Sole(u) \in Slot /\ (inode_table[Sole(u)].i_lock \/ Id(Sole(u)) # Root)
    <3>1. CASE k[u].pc = "wait_iget" BY <1>4, <2>1, <3>1 DEF CallOK, Sole
    <3>2. CASE k[u].pc = "truncate" BY <2>1, <3>2 DEF CallOK, Sole, Freeable
    <3>3. CASE k[u].pc \notin {"wait_iget", "truncate"}
      <4>1. Sole(u) # None => Sole(u) = Locks(u) BY <3>3 DEF Sole, Locks
      <4>. QED BY <2>2, <4>1
    <3>. QED BY <3>1, <3>2, <3>3
  <2>4. Sole(u) # None => inode_table'[Sole(u)] = inode_table[Sole(u)] BY <1>5, <2>3
  <2>5. Locks(u) # None => inode_table'[Locks(u)].i_lock /\ inode_table'[Locks(u)].id = Id(Locks(u))
    BY <1>5, <2>2 DEF Id
  <2>6. \A x \in Slot : Id(x) \notin {NoInode, Root} => inode_table'[x].id = Id(x)
    BY <1>5 DEF Id
  <2>7. k[u].pc = "wait_iget" => /\ written'[k[u].want] # Unlinked
                                 /\ k[u].want = Root => sb'.s_imount # None
                                 /\ Unheld(k[u].want)'
    <3>1. SUFFICES ASSUME k[u].pc = "wait_iget"
                   PROVE  /\ written'[k[u].want] # Unlinked
                          /\ k[u].want = Root => sb'.s_imount # None
                          /\ Unheld(k[u].want)'
      OBVIOUS
    <3>2. /\ written[k[u].want] # Unlinked /\ (k[u].want = Root => sb.s_imount # None)
          /\ Unheld(k[u].want) /\ k[u].want # NoInode
      BY <1>4, <2>1, <3>1, InodeAssumption DEF CallOK
    <3>3. \A x \in Slot : inode_table'[x].id = k[u].want => inode_table'[x] = inode_table[x]
      BY <1>5, <3>2
    <3>4. k'[u].want = k[u].want BY <1>7
    <3>. QED BY <1>4, <1>10, <3>2, <3>3, <3>4 DEF Unheld, Id, Freeable
  <2>8. k[u].then = "umount" => sb'.s_imount = sb.s_imount /\ ~inode_table'[k[u].slot].i_mount
    BY <1>5, <1>10, <2>1 DEF CallOK
  <2>9. k[u].pc = "reading_super" => sb'.s_lock BY <1>10, <2>1 DEF CallOK
  <2>. QED BY <1>4, <1>7, <2>4, <2>5, <2>6, <2>7, <2>8, <2>9 DEF Left
<1>14. CallOK(t)' BY <1>6, <1>7, <1>8 DEF CallOK, User
<1>15. LockedBy'
  <2>1. \A u \in Task \ {t} : Locks(u)' = Locks(u) BY <1>7 DEF Locks, Writing
  <2>. QED BY <1>4, <1>5, <2>1, TableConstants, LockedByIs
<1>16. ASSUME NEW x \in Slot PROVE SlotOK(x)'
  <2>1. x # None /\ SlotOK(x) BY TableConstants DEF TableParts
  <2>2. CASE inode_table'[x] = inode_table[x]
    <3>1. k'[t].pc # "read_inode" /\ k[t].pc # "read_inode" BY <1>7, <1>8
    <3>. QED BY <1>4, <1>6, <1>7, <1>8, <1>10, <2>1, <2>2, <3>1, SlotKept
  <2>3. CASE Id(x) = Root /\ ~inode_table[x].i_lock /\ inode_table'[x].id = NoInode /\ ~inode_table'[x].i_dirt
    <3>1. Users(x)' = Users(x) BY <1>4, <1>6, <1>7, <1>8, <1>10, <2>1, UsersStep
    <3>. QED BY <1>5, <1>10, <2>1, <2>3, <3>1 DEF SlotOK
  <2>. QED BY <1>5, <2>2, <2>3
<1>17. ASSUME NEW i \in Inode PROVE InodeOK(i)'
  <2>1. i # Root => \A x \in Slot : Id(x) = i => inode_table'[x].id = i BY <1>5 DEF Id
  <2>. QED BY <1>4, <2>1, InodeKept
<1>18. OneSlot' BY <1>4, <1>5 DEF OneSlot, Id
<1>19. k'[t].pc # "reading_super" BY <1>7, <1>8
<1>. QED BY <1>4, <1>8, <1>11, <1>12, <1>13, <1>14, <1>15, <1>16, <1>17, <1>18, <1>19, StepSound

LEMMA ChangeDiskSound ==
    ASSUME Careful(setup), TableParts, NEW t \in Task, ChangeDisk(t)
    PROVE  TableParts'
<1>1. /\ k[t] = User /\ SuperOK /\ InvalidateFrom(t, 1)
      /\ UNCHANGED <<setup, imap, disk, written, held, panicked>>
      /\ sb.s_lock => sb.s_imount # None
      /\ sb' = IF sb.s_imount = None THEN NotMounted ELSE sb
  BY DEF ChangeDisk, TableParts, CallOK, At
<1>2. k[t].pc = "user" /\ k[t].slot = None /\ k[t].then = "return" BY <1>1 DEF User
<1>3. 1 \in Slot BY InodeAssumption DEF Slot
<1>4. sb' = sb \/ (sb.s_imount = None /\ ~sb.s_lock /\ sb' = NotMounted) BY <1>1 DEF SuperOK
<1>. QED BY <1>1, <1>2, <1>3, <1>4, InvalidateSound

LEMMA InvalidateAgainSound ==
    ASSUME Careful(setup), TableParts, NEW t \in Task, InvalidateAgain(t)
    PROVE  TableParts'
<1>1. PICK n : n = k[t].n OBVIOUS
<1>2. /\ k[t].pc = "invalidate" /\ InvalidateFrom(t, n) /\ n \in Slot
      /\ k[t].slot = None /\ k[t].then = "return"
      /\ UNCHANGED <<setup, imap, disk, written, sb, held, panicked>>
  BY <1>1, Typed DEF InvalidateAgain, TableParts, CallOK, At
<1>. QED BY <1>2, InvalidateSound

-----------------------------------------------------------------------------
LEMMA TableInit == Init => TableInv
<1>. SUFFICES ASSUME Init, Careful(setup) PROVE TableParts
  BY DEF TableInv
<1>1. /\ setup \in Setups
      /\ setup.dirs \subseteq Inode /\ setup.blk \subseteq Inode /\ Root \in Inode /\ NoInode \notin Inode
  BY InodeAssumption DEF Init
<1>2. /\ \A s \in Slot : inode_table[s] = Blank
      /\ \A t \in Task : k[t] = User /\ held[t] = None
      /\ sb = NotMounted
      /\ \A i \in Inode : disk[i] = 1 /\ written[i] = (IF i \in imap THEN 1 ELSE Unlinked)
      /\ imap = setup.dirs \cup {Root} \cup setup.blk /\ ~panicked
  BY DEF Init
<1>3. TableTypeOK
  <2>1. /\ inode_table \in [Slot -> Entry] /\ k \in [Task -> Locals]
        /\ held \in [Task -> Slot \cup {None}]
    BY UserTyped DEF Init
  <2>2. /\ imap \in SUBSET Inode /\ disk \in [Inode -> {Unlinked} \cup Version]
        /\ written \in [Inode -> {Unlinked} \cup Version]
    BY <1>1 DEF Init, Version
  <2>3. sb \in [s_dev : BOOLEAN, s_lock : BOOLEAN, s_imount : Slot \cup {None}]
    BY <1>2 DEF NotMounted
  <2>. QED BY <1>1, <2>1, <2>2, <2>3 DEF TableTypeOK
<1>4. \A t \in Task : /\ Work(t) = None /\ Locks(t) = None /\ Sole(t) = None /\ ~Writing(t)
                      /\ k[t].pc = "user" /\ k[t].slot = None /\ k[t].empty = None
                      /\ k[t].then = "return"
  BY <1>2 DEF Work, Locks, Sole, Writing, User
<1>5. \A t \in Task : CallOK(t)
  BY <1>2, <1>4 DEF CallOK
<1>6. SuperOK /\ LockedBy /\ Apart /\ OneSlot
  BY <1>2, <1>4 DEF SuperOK, LockedBy, Apart, OneSlot, NotMounted, Blank, Id
<1>7. ASSUME NEW s \in Slot PROVE SlotOK(s)
  <2>1. Held(s) = {} /\ Taken(s) = {} /\ Worked(s) = {}
    BY <1>2, <1>4, TableConstants DEF Held, Taken, Worked
  <2>2. sb.s_imount # s BY <1>2, TableConstants DEF NotMounted
  <2>3. Users(s) = 0 BY <2>1, <2>2, UsersIs, FS_EmptySet
  <2>. QED BY <1>2, <2>3 DEF SlotOK, Blank
<1>8. ASSUME NEW i \in Inode PROVE InodeOK(i)
  BY <1>2 DEF InodeOK, Unlinked, Freeable
<1>. QED BY <1>2, <1>3, <1>5, <1>6, <1>7, <1>8 DEF TableParts

LEMMA TableNext == TableInv /\ [Next]_vars => TableInv'
<1>. SUFFICES ASSUME TableInv, [Next]_vars, Careful(setup)' PROVE TableParts'
  BY DEF TableInv
<1>1. setup' = setup
  BY DEF Next, vars, IGet, NewInode, Fork, IGetAgain, ReadInode, Modify, Close, Unlink, IPutAgain,
         IPutSynced, IPutWritten, CopyInode, FreeInode, SyncInodes, SyncAgain, SyncWritten, Mount,
         GetSuper, ReadSuper, SuperRead, SuperFails, UMount, ChangeDisk, InvalidateAgain
<1>2. Careful(setup) /\ TableParts BY <1>1 DEF TableInv
<1>3. CASE UNCHANGED vars
  <2>1. /\ inode_table' = inode_table /\ imap' = imap /\ disk' = disk /\ written' = written
        /\ sb' = sb /\ k' = k /\ held' = held /\ panicked' = panicked
    BY <1>3 DEF vars
  <2>2. TableTypeOK' /\ ~panicked' BY <1>1, <1>2, <2>1 DEF TableParts, TableTypeOK
  <2>3. SuperOK' /\ OneSlot' BY <1>1, <1>2, <2>1 DEF TableParts, SuperOK, OneSlot, Id
  <2>4. \A t \in Task : Work(t)' = Work(t) /\ Locks(t)' = Locks(t) /\ Sole(t)' = Sole(t)
    BY <2>1 DEF Work, Locks, Sole, Writing
  <2>5. Apart' /\ LockedBy' BY <1>2, <2>1, <2>4 DEF TableParts, Apart, LockedBy
  <2>6. ASSUME NEW s \in Slot PROVE SlotOK(s)'
    <3>1. SlotOK(s) BY <1>2 DEF TableParts
    <3>2. Users(s)' = Users(s) BY <2>1 DEF Users
    <3>3. Reading(s)' <=> Reading(s) BY <2>1 DEF Reading
    <3>. QED BY <1>1, <2>1, <3>1, <3>2, <3>3 DEF SlotOK, Freeable
  <2>7. ASSUME NEW i \in Inode PROVE InodeOK(i)'
    BY <1>1, <1>2, <2>1, InodeKept DEF Id
  <2>8. ASSUME NEW t \in Task PROVE CallOK(t)'
    <3>1. CallOK(t) BY <1>2 DEF TableParts
    <3>. QED BY <1>1, <2>1, <3>1 DEF CallOK, Writing, Sole, Locks, Unheld, Freeable, Id
  <2>. QED BY <2>2, <2>3, <2>5, <2>6, <2>7, <2>8 DEF TableParts
<1>4. CASE Next
  <2>1. PICK t \in Task :
        \/ \E i \in Inode : IGet(t, i) \/ NewInode(t, i)
        \/ \E child \in Task \ {t} : Fork(t, child)
        \/ IGetAgain(t) \/ ReadInode(t) \/ Modify(t)
        \/ Close(t) \/ Unlink(t)
        \/ IPutAgain(t) \/ IPutSynced(t) \/ IPutWritten(t) \/ CopyInode(t) \/ FreeInode(t)
        \/ SyncInodes(t) \/ SyncAgain(t) \/ SyncWritten(t)
        \/ Mount(t) \/ GetSuper(t) \/ ReadSuper(t) \/ SuperRead(t) \/ SuperFails(t)
        \/ UMount(t)
        \/ ChangeDisk(t) \/ InvalidateAgain(t)
    BY <1>4 DEF Next
  <2>2. CASE \E i \in Inode : IGet(t, i) \/ NewInode(t, i)
    BY <1>2, <2>2, IGetSound, NewInodeSound
  <2>3. CASE \E child \in Task \ {t} : Fork(t, child) BY <1>2, <2>3, ForkSound
  <2>4. CASE IGetAgain(t) BY <1>2, <2>4, IGetAgainSound
  <2>5. CASE ReadInode(t) BY <1>2, <2>5, ReadInodeSound
  <2>6. CASE Modify(t) BY <1>2, <2>6, ModifySound
  <2>7. CASE Close(t) BY <1>2, <2>7, CloseSound
  <2>8. CASE Unlink(t) BY <1>2, <2>8, UnlinkSound
  <2>9. CASE IPutAgain(t) BY <1>2, <2>9, IPutAgainSound
  <2>10. CASE IPutSynced(t) BY <1>2, <2>10, IPutSyncedSound
  <2>11. CASE IPutWritten(t) BY <1>2, <2>11, IPutWrittenSound
  <2>12. CASE CopyInode(t) BY <1>2, <2>12, CopyInodeSound
  <2>13. CASE FreeInode(t) BY <1>2, <2>13, FreeInodeSound
  <2>14. CASE SyncInodes(t) BY <1>2, <2>14, SyncInodesSound
  <2>15. CASE SyncAgain(t) BY <1>2, <2>15, SyncAgainSound
  <2>16. CASE SyncWritten(t) BY <1>2, <2>16, SyncWrittenSound
  <2>17. CASE Mount(t) BY <1>2, <2>17, MountSound
  <2>18. CASE GetSuper(t) BY <1>2, <2>18, GetSuperSound
  <2>19. CASE ReadSuper(t) BY <1>2, <2>19, ReadSuperSound
  <2>20. CASE SuperRead(t) BY <1>2, <2>20, SuperReadSound
  <2>21. CASE SuperFails(t) BY <1>2, <2>21, SuperFailsSound
  <2>22. CASE UMount(t) BY <1>2, <2>22, UMountSound
  <2>23. CASE ChangeDisk(t) BY <1>2, <2>23, ChangeDiskSound
  <2>24. CASE InvalidateAgain(t) BY <1>2, <2>24, InvalidateAgainSound
  <2>. QED BY <2>1, <2>2, <2>3, <2>4, <2>5, <2>6, <2>7, <2>8, <2>9, <2>10, <2>11, <2>12, <2>13,
              <2>14, <2>15, <2>16, <2>17, <2>18, <2>19, <2>20, <2>21, <2>22, <2>23, <2>24
<1>. QED BY <1>3, <1>4

(* As long as programs are careful, each task that sleeps in iget, iput,   *)
(* sync_inodes, mount or umount has the references, and alone the lock,    *)
(* that its next step needs, and no panic is met.                          *)
THEOREM TableInvariant == Spec => []TableInv
<1>. QED BY TableInit, TableNext, PTL DEF Spec

LEMMA TableSounds ==
    ASSUME TableParts
    PROVE  /\ CountsExact /\ OneCopy
           /\ \A i \in Inode \ {Root} : written[i] # Unlinked =>
                \/ disk[i] = written[i]
                \/ \E s \in Find(i) : inode_table[s].val = written[i] /\ inode_table[s].i_dirt
           /\ \A s \in Slot : inode_table[s].i_count = 0 =>
                ~inode_table[s].i_dirt /\ ~inode_table[s].i_lock
<1>1. CountsExact BY DEF CountsExact, TableParts, SlotOK
<1>2. OneCopy
  <2>. SUFFICES ASSUME NEW i \in Inode PROVE Cardinality(Find(i)) <= 1
    BY DEF OneCopy
  <2>1. ASSUME NEW s \in Find(i) PROVE Find(i) = {s}
    <3>1. \A x \in Slot : Id(x) = i => x = s
      BY InodeAssumption DEF TableParts, OneSlot, Find, Id
    <3>. QED BY <3>1 DEF Find, Id
  <2>2. CASE Find(i) = {} BY <2>2, FS_EmptySet
  <2>3. CASE Find(i) # {}
    <3>1. PICK s : Find(i) = {s} BY <2>1, <2>3
    <3>2. Cardinality({s}) = 1 BY FS_Singleton
    <3>. QED BY <3>1, <3>2
  <2>. QED BY <2>2, <2>3
<1>3. ASSUME NEW i \in Inode \ {Root}, written[i] # Unlinked, disk[i] # written[i]
      PROVE  \E s \in Find(i) : inode_table[s].val = written[i] /\ inode_table[s].i_dirt
  <2>1. PICK s \in Slot : Id(s) = i BY <1>3 DEF TableParts, InodeOK
  <2>2. SlotOK(s) /\ i # NoInode BY InodeAssumption DEF TableParts
  <2>3. inode_table[s].val = written[i] /\ (~inode_table[s].i_dirt => disk[i] = inode_table[s].val)
    BY <1>3, <2>1, <2>2 DEF SlotOK, Id
  <2>. QED BY <1>3, <2>1, <2>3, Typed DEF Find, Id, TableParts
<1>4. ASSUME NEW s \in Slot, inode_table[s].i_count = 0
      PROVE  ~inode_table[s].i_dirt /\ ~inode_table[s].i_lock
  BY <1>4 DEF TableParts, SlotOK
<1>. QED BY <1>1, <1>2, <1>3, <1>4

(* i_count of an inode is the number of its users when iget, iput and      *)
(* sys_umount look at it, and iget, which sleeps between its search and    *)
(* its read, never brings an inode into memory twice.                      *)
THEOREM InodesSafety == Spec => []InodesSound
<1>1. TableInv => InodesSound
  BY TableSounds DEF TableInv, InodesSound
<1>. QED BY <1>1, TableInvariant, PTL

(* What was stored in an inode is on the disk, or in memory and marked     *)
(* dirty, whatever iput, sync_inodes and a change of the disk do; so       *)
(* get_empty_inode never meets an unused inode it has to write.            *)
THEOREM StoredNotLost == Spec => []NothingLost
<1>1. TableInv => NothingLost
  BY TableSounds DEF TableInv, NothingLost
<1>. QED BY <1>1, TableInvariant, PTL
=============================================================================
