----------------------------- MODULE PipeProofs -----------------------------
(***************************************************************************)
(* Proofs about pipes, also when tasks select on them: whatever the size   *)
(* of the page, the counts, and the number of readers and writers.         *)
(*                                                                         *)
(* The pipe's invariant is ValidData, the picture of the ring that         *)
(* read_pipe and write_pipe rely on; the readers' bytes follow from it.    *)
(***************************************************************************)
EXTENDS Select, TLAPS

(* What is asleep where: schedule() is called only in the loops. *)
Sleepers ==
    /\ \A t \in i_wait : pc[t] \in {"read", "select_again"}
    /\ \A t \in i_wait2 : pc[t] = "write"

Inv == STypeOK /\ Sleepers /\ ValidData /\ StreamIntact /\ NobodyWaitsForEachOther

-----------------------------------------------------------------------------
(* The remainders of numbers less than one turn off. *)
LEMMA Remainder ==
    ASSUME NEW M \in Nat \ {0}, NEW x \in Int, -M <= x, x < 2 * M
    PROVE  x % M = IF x < 0 THEN x + M ELSE IF x < M THEN x ELSE x - M
<1>1. CASE x < 0
  BY <1>1
<1>2. CASE 0 <= x /\ x < M
  BY <1>2
<1>3. CASE M <= x
  BY <1>3
<1>. QED BY <1>1, <1>2, <1>3

(* A piece is limited by three things, and reaches one of them. *)
LEMMA LeastOfThree ==
    ASSUME NEW a \in Int, NEW b \in Int, NEW c \in Int
    PROVE  /\ Min3(a, b, c) \in {a, b, c}
           /\ Min3(a, b, c) <= a /\ Min3(a, b, c) <= b /\ Min3(a, b, c) <= c
  BY DEF Min3

(* How far apart two places of the page are, and two numbers of bytes.     *)
LEMMA DistanceIs ==
    ASSUME NEW a \in 0..(PAGE_SIZE - 1), NEW b \in 0..(PAGE_SIZE - 1)
    PROVE  (a - b) % PAGE_SIZE = IF b <= a THEN a - b ELSE a - b + PAGE_SIZE
<1> DEFINE x == a - b
<1>1. PAGE_SIZE \in Nat \ {0}
  BY PipeAssumption
<1>2. x \in Int /\ -PAGE_SIZE <= x /\ x < 2 * PAGE_SIZE
  BY <1>1
<1>. HIDE DEF x
<1>3. x % PAGE_SIZE = IF x < 0 THEN x + PAGE_SIZE ELSE IF x < PAGE_SIZE THEN x ELSE x - PAGE_SIZE
  BY <1>1, <1>2, Remainder
<1>. QED BY <1>1, <1>2, <1>3 DEF x

(* The same for the numbers of two bytes. *)
LEMMA BetweenIs ==
    ASSUME NEW a \in 0..(Serial - 1), NEW b \in 0..(Serial - 1)
    PROVE  (a - b) % Serial = IF b <= a THEN a - b ELSE a - b + Serial
<1> DEFINE x == a - b
<1>1. PAGE_SIZE \in Nat \ {0} /\ Serial = 2 * PAGE_SIZE /\ Serial \in Nat \ {0}
  BY PipeAssumption DEF Serial
<1>2. x \in Int /\ -Serial <= x /\ x < 2 * Serial
  BY <1>1
<1>. HIDE DEF x
<1>3. x % Serial = IF x < 0 THEN x + Serial ELSE IF x < Serial THEN x ELSE x - Serial
  BY <1>1, <1>2, Remainder
<1>. QED BY <1>1, <1>2, <1>3 DEF x

(* The number of bytes between the tail and the head. *)
LEMMA SizeIs ==
    ASSUME STypeOK
    PROVE  /\ PIPE_SIZE \in 0..(PAGE_SIZE - 1)
           /\ PIPE_SIZE = IF tail <= head THEN head - tail ELSE head - tail + PAGE_SIZE
<1>1. PAGE_SIZE \in Nat \ {0} /\ head \in 0..(PAGE_SIZE - 1) /\ tail \in 0..(PAGE_SIZE - 1)
  BY PipeAssumption DEF STypeOK, TypeOK
<1>2. PIPE_SIZE = IF tail <= head THEN head - tail ELSE head - tail + PAGE_SIZE
  BY <1>1, DistanceIs DEF PIPE_SIZE
<1>. QED BY <1>1, <1>2

(* Moving on by a piece, up to the end of the page. *)
LEMMA AdvanceIs ==
    ASSUME NEW p \in 0..(PAGE_SIZE - 1), NEW n \in Nat, p + n <= PAGE_SIZE
    PROVE  Advance(p, n) = IF p + n = PAGE_SIZE THEN 0 ELSE p + n
<1> DEFINE x == p + n
<1>1. PAGE_SIZE \in Nat \ {0}
  BY PipeAssumption
<1>2. x \in Int /\ -PAGE_SIZE <= x /\ x < 2 * PAGE_SIZE
  BY <1>1
<1>. HIDE DEF x
<1>3. x % PAGE_SIZE = IF x < 0 THEN x + PAGE_SIZE ELSE IF x < PAGE_SIZE THEN x ELSE x - PAGE_SIZE
  BY <1>1, <1>2, Remainder
<1>. QED BY <1>1, <1>2, <1>3 DEF x, Advance

(* The cells and numbers of bytes counted from the tail on. *)
LEMMA CellIs ==
    ASSUME NEW p \in 0..(PAGE_SIZE - 1), NEW n \in 0..PAGE_SIZE
    PROVE  (p + n) % PAGE_SIZE = IF p + n < PAGE_SIZE THEN p + n ELSE p + n - PAGE_SIZE
<1> DEFINE x == p + n
<1>1. PAGE_SIZE \in Nat \ {0}
  BY PipeAssumption
<1>2. x \in Int /\ -PAGE_SIZE <= x /\ x < 2 * PAGE_SIZE
  BY <1>1
<1>. HIDE DEF x
<1>3. x % PAGE_SIZE = IF x < 0 THEN x + PAGE_SIZE ELSE IF x < PAGE_SIZE THEN x ELSE x - PAGE_SIZE
  BY <1>1, <1>2, Remainder
<1>. QED BY <1>1, <1>2, <1>3 DEF x

(* The number of a byte that comes n bytes later. *)
LEMMA NumberIs ==
    ASSUME NEW s \in 0..(Serial - 1), NEW n \in 0..PAGE_SIZE
    PROVE  /\ (s + n) % Serial = IF s + n < Serial THEN s + n ELSE s + n - Serial
           /\ (s + n) % Serial \in 0..(Serial - 1)
<1> DEFINE x == s + n
<1>1. PAGE_SIZE \in Nat \ {0} /\ Serial = 2 * PAGE_SIZE /\ Serial \in Nat \ {0}
  BY PipeAssumption DEF Serial
<1>2. x \in Int /\ -Serial <= x /\ x < 2 * Serial
  BY <1>1
<1>. HIDE DEF x
<1>3. x % Serial = IF x < 0 THEN x + Serial ELSE IF x < Serial THEN x ELSE x - Serial
  BY <1>1, <1>2, Remainder
<1>. QED BY <1>1, <1>2, <1>3 DEF x

-----------------------------------------------------------------------------
(* A piece is read: what is in the pipe comes from its old beginning, and  *)
(* the rest of the picture stays.                                          *)
LEMMA ReadsTheRing ==
    ASSUME Inv, NEW t \in Task, ReadPiece(t)
    PROVE  /\ head' = head /\ tail' \in 0..(PAGE_SIZE - 1) /\ got' \in 0..(Serial - 1)
           /\ count' \in [Task -> 0..MaxCount]
           /\ ValidData' /\ StreamIntact'
<1> DEFINE n == Min3(PAGE_SIZE - tail, count[t], PIPE_SIZE)
<1>1. /\ PAGE_SIZE \in Nat \ {0} /\ Serial = 2 * PAGE_SIZE
      /\ tail \in 0..(PAGE_SIZE - 1) /\ head \in 0..(PAGE_SIZE - 1)
      /\ count[t] \in 0..MaxCount /\ MaxCount \in Nat
      /\ sent \in 0..(Serial - 1) /\ got \in 0..(Serial - 1)
      /\ count \in [Task -> 0..MaxCount]
  BY PipeAssumption DEF Inv, STypeOK, TypeOK, Serial
<1>2. /\ PIPE_SIZE \in 0..(PAGE_SIZE - 1)
      /\ PIPE_SIZE = IF tail <= head THEN head - tail ELSE head - tail + PAGE_SIZE
  BY SizeIs DEF Inv
<1>3. n \in 1..(PAGE_SIZE - 1) /\ n <= PIPE_SIZE /\ n <= count[t] /\ tail + n <= PAGE_SIZE
  <2>1. PAGE_SIZE - tail > 0 /\ count[t] > 0 /\ PIPE_SIZE > 0
    BY <1>1, <1>2 DEF ReadPiece
  <2>2. PAGE_SIZE - tail \in Int /\ count[t] \in Int /\ PIPE_SIZE \in Int
    BY <1>1, <1>2
  <2>. QED BY <1>1, <1>2, <2>1, <2>2, LeastOfThree
<1>4. /\ count' = [count EXCEPT ![t] = @ - n] /\ tail' = Advance(tail, n)
      /\ got' = (got + n) % Serial /\ head' = head /\ sent' = sent
      /\ \/ (intact' = (intact /\ (faulted \/ Delivers(tail, n, got)))) /\ page' = page /\ faulted' = faulted
         \/ faulted'
  BY DEF ReadPiece, Fault
<1>. HIDE DEF n
<1>5. tail' = IF tail + n = PAGE_SIZE THEN 0 ELSE tail + n
  BY <1>1, <1>3, <1>4, AdvanceIs
<1>6. got' = IF got + n < Serial THEN got + n ELSE got + n - Serial
  <2>1. n \in 0..PAGE_SIZE
    BY <1>1, <1>3
  <2>. QED BY <2>1, <1>1, <1>4, NumberIs
<1>7. tail' \in 0..(PAGE_SIZE - 1) /\ got' \in 0..(Serial - 1)
  BY <1>1, <1>3, <1>5, <1>6
<1>8. count' \in [Task -> 0..MaxCount]
  BY <1>1, <1>3, <1>4
<1>9. PIPE_SIZE' = PIPE_SIZE - n
  <2>1. PIPE_SIZE' = (head - tail') % PAGE_SIZE
    BY <1>4 DEF PIPE_SIZE
  <2>2. (head - tail') % PAGE_SIZE = IF tail' <= head THEN head - tail' ELSE head - tail' + PAGE_SIZE
    BY <1>1, <1>7, DistanceIs
  <2>. QED BY <2>1, <2>2, <1>1, <1>2, <1>3, <1>5
<1>10. (sent' - got') % Serial = PIPE_SIZE'
  <2>1. (sent - got) % Serial = PIPE_SIZE
    BY DEF Inv, ValidData
  <2>2. (sent - got) % Serial = IF got <= sent THEN sent - got ELSE sent - got + Serial
    BY <1>1, BetweenIs
  <2>3. (sent - got') % Serial = IF got' <= sent THEN sent - got' ELSE sent - got' + Serial
    BY <1>1, <1>7, BetweenIs
  <2>. QED BY <2>1, <2>2, <2>3, <1>1, <1>2, <1>3, <1>4, <1>6, <1>9
<1>11. ASSUME ~faulted, page' = page, NEW i \in 0..(PIPE_SIZE' - 1)
       PROVE  page'[(tail' + i) % PAGE_SIZE] = (got' + i) % Serial
  <2>1. i \in 0..PAGE_SIZE /\ i + n \in 0..(PIPE_SIZE - 1) /\ i + n \in 0..PAGE_SIZE
    BY <1>9, <1>2, <1>3, <1>1
  <2>2. page[(tail + (i + n)) % PAGE_SIZE] = (got + (i + n)) % Serial
    BY <1>11, <2>1 DEF Inv, ValidData
  <2>3. (tail + (i + n)) % PAGE_SIZE = (tail' + i) % PAGE_SIZE
    <3>1. (tail + (i + n)) % PAGE_SIZE = IF tail + (i + n) < PAGE_SIZE THEN tail + (i + n) ELSE tail + (i + n) - PAGE_SIZE
      BY <2>1, <1>1, CellIs
    <3>2. (tail' + i) % PAGE_SIZE = IF tail' + i < PAGE_SIZE THEN tail' + i ELSE tail' + i - PAGE_SIZE
      BY <2>1, <1>7, CellIs
    <3>. QED BY <3>1, <3>2, <1>5, <1>1, <1>3, <2>1
  <2>4. (got + (i + n)) % Serial = (got' + i) % Serial
    <3>1. (got + (i + n)) % Serial = IF got + (i + n) < Serial THEN got + (i + n) ELSE got + (i + n) - Serial
      BY <2>1, <1>1, NumberIs
    <3>2. (got' + i) % Serial = IF got' + i < Serial THEN got' + i ELSE got' + i - Serial
      BY <2>1, <1>7, NumberIs
    <3>. QED BY <3>1, <3>2, <1>6, <1>1, <1>3, <2>1
  <2>. QED BY <2>2, <2>3, <2>4, <1>11
<1>12. ASSUME ~faulted PROVE Delivers(tail, n, got)
  <2> SUFFICES ASSUME NEW i \in 0..(n - 1) PROVE page[tail + i] = (got + i) % Serial
    BY DEF Delivers
  <2>1. i \in 0..(PIPE_SIZE - 1) /\ i \in 0..PAGE_SIZE /\ tail + i < PAGE_SIZE
    BY <1>1, <1>2, <1>3
  <2>2. (tail + i) % PAGE_SIZE = tail + i
    BY <1>1, <2>1, CellIs
  <2>. QED BY <1>12, <2>1, <2>2 DEF Inv, ValidData
<1>13. ValidData'
  BY <1>4, <1>10, <1>11 DEF ValidData
<1>14. StreamIntact'
  BY <1>4, <1>12 DEF Inv, StreamIntact
<1>. QED BY <1>4, <1>7, <1>8, <1>13, <1>14

(* A piece is written: it goes into cells that held nothing, after what is *)
(* in the pipe already.                                                    *)
LEMMA WritesTheRing ==
    ASSUME Inv, NEW t \in Task, WritePiece(t)
    PROVE  /\ tail' = tail /\ head' \in 0..(PAGE_SIZE - 1) /\ sent' \in 0..(Serial - 1)
           /\ count' \in [Task -> 0..MaxCount]
           /\ page' \in [0..(PAGE_SIZE - 1) -> -1..(Serial - 1)]
           /\ ValidData' /\ StreamIntact'
<1> DEFINE n == Min3(PAGE_SIZE - head, count[t], Room)
<1>1. /\ PAGE_SIZE \in Nat \ {0} /\ Serial = 2 * PAGE_SIZE
      /\ tail \in 0..(PAGE_SIZE - 1) /\ head \in 0..(PAGE_SIZE - 1)
      /\ count[t] \in 0..MaxCount /\ MaxCount \in Nat
      /\ sent \in 0..(Serial - 1) /\ got \in 0..(Serial - 1)
  BY PipeAssumption DEF Inv, STypeOK, TypeOK, Serial
<1>0. count \in [Task -> 0..MaxCount] /\ page \in [0..(PAGE_SIZE - 1) -> -1..(Serial - 1)]
  BY DEF Inv, STypeOK, TypeOK
<1>2. /\ PIPE_SIZE \in 0..(PAGE_SIZE - 1)
      /\ PIPE_SIZE = IF tail <= head THEN head - tail ELSE head - tail + PAGE_SIZE
      /\ Room = PAGE_SIZE - 1 - PIPE_SIZE
  BY SizeIs DEF Inv, Room
<1>3. n \in 1..(PAGE_SIZE - 1) /\ n <= PAGE_SIZE - 1 - PIPE_SIZE /\ n <= count[t] /\ head + n <= PAGE_SIZE
  <2>1. PAGE_SIZE - head > 0 /\ count[t] > 0 /\ Room > 0
    BY <1>1, <1>2 DEF WritePiece
  <2>2. PAGE_SIZE - head \in Int /\ count[t] \in Int /\ Room \in Int
    BY <1>1, <1>2
  <2>3. /\ n \in {PAGE_SIZE - head, count[t], Room}
        /\ n <= PAGE_SIZE - head /\ n <= count[t] /\ n <= Room
    BY <2>2, LeastOfThree
  <2>. HIDE DEF n
  <2>. QED BY <1>1, <1>2, <2>1, <2>2, <2>3
<1>4. /\ count' = [count EXCEPT ![t] = @ - n] /\ head' = Advance(head, n)
      /\ sent' = (sent + n) % Serial
      /\ \/ page' = (IF faulted THEN page ELSE Stored(head, n, sent)) /\ faulted' = faulted
         \/ faulted' /\ page' = Unknown
      /\ tail' = tail /\ got' = got /\ intact' = intact
  BY DEF WritePiece, Fault
<1>. HIDE DEF n
<1>5. head' = IF head + n = PAGE_SIZE THEN 0 ELSE head + n
  BY <1>1, <1>3, <1>4, AdvanceIs
<1>6. sent' = IF sent + n < Serial THEN sent + n ELSE sent + n - Serial
  <2>1. n \in 0..PAGE_SIZE
    BY <1>1, <1>3
  <2>. QED BY <2>1, <1>1, <1>4, NumberIs
<1>7. head' \in 0..(PAGE_SIZE - 1) /\ sent' \in 0..(Serial - 1)
  BY <1>1, <1>3, <1>5, <1>6
<1>8. count' \in [Task -> 0..MaxCount]
  BY <1>0, <1>1, <1>3, <1>4
<1>9. PIPE_SIZE' = PIPE_SIZE + n
  <2>1. PIPE_SIZE' = (head' - tail) % PAGE_SIZE
    BY <1>4 DEF PIPE_SIZE
  <2>2. (head' - tail) % PAGE_SIZE = IF tail <= head' THEN head' - tail ELSE head' - tail + PAGE_SIZE
    BY <1>1, <1>7, DistanceIs
  <2>. QED BY <2>1, <2>2, <1>1, <1>2, <1>3, <1>5
<1>10. (sent' - got') % Serial = PIPE_SIZE'
  <2>1. (sent - got) % Serial = PIPE_SIZE
    BY DEF Inv, ValidData
  <2>2. (sent - got) % Serial = IF got <= sent THEN sent - got ELSE sent - got + Serial
    BY <1>1, BetweenIs
  <2>3. (sent' - got) % Serial = IF got <= sent' THEN sent' - got ELSE sent' - got + Serial
    BY <1>1, <1>7, BetweenIs
  <2>4. got' = got
    BY <1>4
  <2>. QED BY <2>1, <2>2, <2>3, <2>4, <1>1, <1>2, <1>3, <1>6, <1>9
<1>11. \A i \in 0..(n - 1) : (sent + i) % Serial \in 0..(Serial - 1)
  <2> SUFFICES ASSUME NEW i \in 0..(n - 1) PROVE (sent + i) % Serial \in 0..(Serial - 1)
    OBVIOUS
  <2>1. i \in 0..PAGE_SIZE
    BY <1>1, <1>3
  <2>. QED BY <2>1, <1>1, NumberIs
<1>12. /\ Stored(head, n, sent) \in [0..(PAGE_SIZE - 1) -> -1..(Serial - 1)]
       /\ \A c \in 0..(PAGE_SIZE - 1) : Stored(head, n, sent)[c] = IF c \in head..(head + n - 1)
                                           THEN (sent + (c - head)) % Serial ELSE page[c]
  <2>1. ASSUME NEW c \in head..(head + n - 1)
        PROVE  sent + c - head = sent + (c - head) /\ (sent + (c - head)) % Serial \in 0..(Serial - 1)
    <3>1. c - head \in 0..(n - 1)
      BY <1>1, <1>3
    <3>. QED BY <3>1, <1>1, <1>11
  <2>. QED BY <2>1, <1>0, <1>1 DEF Stored
<1>13. page' \in [0..(PAGE_SIZE - 1) -> -1..(Serial - 1)]
  <2>1. Unknown \in [0..(PAGE_SIZE - 1) -> -1..(Serial - 1)]
    BY <1>1 DEF Unknown
  <2>. QED BY <2>1, <1>0, <1>4, <1>12
<1>14. ASSUME ~faulted', NEW i \in 0..(PIPE_SIZE' - 1)
       PROVE  page'[(tail' + i) % PAGE_SIZE] = (got' + i) % Serial
  <2>1. i \in 0..PAGE_SIZE /\ ~faulted /\ page' = Stored(head, n, sent)
    BY <1>1, <1>2, <1>3, <1>4, <1>9, <1>14
  <2> DEFINE c == (tail + i) % PAGE_SIZE
  <2>2. c = IF tail + i < PAGE_SIZE THEN tail + i ELSE tail + i - PAGE_SIZE
    BY <2>1, <1>1, CellIs
  <2>. HIDE DEF c
  <2>3. c \in 0..(PAGE_SIZE - 1)
    BY <2>1, <2>2, <1>1
  <2>4. CASE i < PIPE_SIZE
    <3>1. c \notin head..(head + n - 1)
      BY <2>1, <2>2, <2>4, <1>1, <1>2, <1>3
    <3>2. page[c] = (got + i) % Serial
      BY <2>1, <2>4, <1>2 DEF c, Inv, ValidData
    <3>. QED BY <3>1, <3>2, <2>1, <2>3, <1>4, <1>12 DEF c
  <2>5. CASE PIPE_SIZE <= i
    <3>1. i - PIPE_SIZE \in 0..(n - 1) /\ i - PIPE_SIZE \in 0..PAGE_SIZE
      BY <2>1, <2>5, <1>1, <1>2, <1>3, <1>9
    <3>2. c = head + (i - PIPE_SIZE)
      BY <2>1, <2>2, <3>1, <1>1, <1>2, <1>3
    <3>3. c \in head..(head + n - 1) /\ c - head = i - PIPE_SIZE
      BY <3>1, <3>2, <2>3, <1>1, <1>3
    <3>4. page'[c] = (sent + (i - PIPE_SIZE)) % Serial
      BY <3>3, <2>1, <2>3, <1>12
    <3>5. (sent + (i - PIPE_SIZE)) % Serial = (got + i) % Serial
      <4>1. (sent - got) % Serial = PIPE_SIZE
        BY DEF Inv, ValidData
      <4>2. (sent - got) % Serial = IF got <= sent THEN sent - got ELSE sent - got + Serial
        BY <1>1, BetweenIs
      <4> DEFINE j == i - PIPE_SIZE
      <4>3. j \in 0..PAGE_SIZE
        BY <3>1
      <4>. HIDE DEF j
      <4>4. (sent + j) % Serial = IF sent + j < Serial THEN sent + j ELSE sent + j - Serial
        BY <4>3, <1>1, NumberIs
      <4>5. (got + i) % Serial = IF got + i < Serial THEN got + i ELSE got + i - Serial
        BY <2>1, <1>1, NumberIs
      <4>. QED BY <4>1, <4>2, <4>4, <4>5, <1>1, <1>2, <2>1 DEF j
    <3>. QED BY <3>4, <3>5, <1>4 DEF c
  <2>. QED BY <2>4, <2>5, <2>1, <1>1, <1>2
<1>15. ValidData'
  BY <1>10, <1>14 DEF ValidData
<1>16. StreamIntact'
  BY <1>4 DEF Inv, StreamIntact
<1>. QED BY <1>4, <1>7, <1>8, <1>13, <1>15, <1>16

(* The data of the pipe are left alone. *)
LEMMA SameRing ==
    ASSUME ValidData, StreamIntact, UNCHANGED <<ring, sent, got, intact, faulted>>
    PROVE  ValidData' /\ StreamIntact'
  BY DEF ValidData, StreamIntact, ring, PIPE_SIZE

-----------------------------------------------------------------------------
(* The pipe that sys_pipe makes is empty, and nobody uses it. *)
LEMMA InvInit == SInit => Inv
<1> SUFFICES ASSUME SInit PROVE Inv
  OBVIOUS
<1> USE DEF SInit, Init
<1>1. STypeOK
  <2>1. PAGE_SIZE \in Nat \ {0} /\ Serial = 2 * PAGE_SIZE /\ MaxCount \in Nat
    BY PipeAssumption DEF Serial
  <2>2. page \in [0..(PAGE_SIZE - 1) -> -1..(Serial - 1)]
    BY <2>1 DEF Unknown
  <2>3. 0 \in 0..(PAGE_SIZE - 1) /\ 0 \in 0..(Serial - 1) /\ 0 \in 0..MaxCount
    BY <2>1
  <2>. QED BY <2>2, <2>3 DEF STypeOK, TypeOK
<1>2. PIPE_SIZE = 0
  BY <1>1, SizeIs
<1>3. (sent - got) % Serial = 0
  <2>1. sent \in 0..(Serial - 1) /\ got \in 0..(Serial - 1) /\ sent = 0 /\ got = 0
    BY <1>1 DEF STypeOK, TypeOK
  <2>. QED BY <2>1, BetweenIs
<1>4. ValidData /\ StreamIntact
  BY <1>2, <1>3 DEF ValidData, StreamIntact
<1>5. Sleepers /\ NobodyWaitsForEachOther
  BY DEF Sleepers, NobodyWaitsForEachOther
<1>. QED BY <1>1, <1>4, <1>5 DEF Inv

(* Those who came later are tasks. *)
LEMMA AfterType ==
    ASSUME STypeOK, NEW u \in Task, GoesOn(u), i_wait' \subseteq Task
    PROVE  after' \in [Task -> SUBSET Task]
  BY DEF STypeOK, GoesOn

(* Read, write, close, select, and signals, one by one. *)
LEMMA InvStep == Inv /\ [SNext]_svars => Inv'
<1> SUFFICES ASSUME Inv, [SNext]_svars PROVE Inv'
  OBVIOUS
<1>0. STypeOK /\ TypeOK /\ Sleepers /\ ValidData /\ StreamIntact /\ NobodyWaitsForEachOther
  BY DEF Inv, STypeOK
<1>a. MaxCount \in Nat \ {0} /\ 0 \in 0..MaxCount
  BY PipeAssumption
<1> USE <1>0, <1>a DEF Inv
<1>1. ASSUME NEW t \in Task, NEW call \in {"read", "write"}, NEW n \in 1..MaxCount, Start(t, call, n),
             UNCHANGED <<sel, timeout, after>>
      PROVE  Inv'
  <2>1. ValidData' /\ StreamIntact'
    BY <1>1, SameRing DEF Start
  <2>2. n \in 0..MaxCount
    OBVIOUS
  <2>3. STypeOK'
    BY <1>1, <2>2 DEF Start, STypeOK, TypeOK, ring, ends, queues
  <2>4. Sleepers' /\ NobodyWaitsForEachOther'
    BY <1>1 DEF Start, queues, Sleepers, NobodyWaitsForEachOther, TypeOK
  <2>. QED BY <2>1, <2>3, <2>4
<1>2. ASSUME NEW t \in Task, NEW end \in {"read", "write"}, Close(t, end), UNCHANGED <<sel, timeout, after>>
      PROVE  Inv'
  <2>1. ValidData' /\ StreamIntact'
    BY <1>2, SameRing DEF Close
  <2>2. (i_wait' = i_wait /\ i_wait2' = i_wait2) \/ (i_wait' = {} /\ i_wait2' = {})
    BY <1>2 DEF Close, queues
  <2>3. STypeOK'
    BY <1>2, <2>2 DEF Close, STypeOK, TypeOK, ring
  <2>4. Sleepers' /\ NobodyWaitsForEachOther'
    BY <1>2, <2>2 DEF Close, Sleepers, NobodyWaitsForEachOther, TypeOK
  <2>. QED BY <2>1, <2>3, <2>4
<1>3. ASSUME NEW t \in Task, Signal(t), UNCHANGED <<sel, timeout, after>> PROVE Inv'
  <2>1. ValidData' /\ StreamIntact'
    BY <1>3, SameRing DEF Signal
  <2>2. STypeOK'
    BY <1>3 DEF Signal, STypeOK, TypeOK, ring, ends
  <2>3. Sleepers' /\ NobodyWaitsForEachOther'
    BY <1>3 DEF Signal, Sleepers, NobodyWaitsForEachOther, TypeOK
  <2>. QED BY <2>1, <2>2, <2>3
<1>4. ASSUME NEW t \in Task, ReadDone(t), GoesOn(t), UNCHANGED <<sel, timeout>> PROVE Inv'
  <2>1. ValidData' /\ StreamIntact'
    BY <1>4, SameRing DEF ReadDone
  <2>2. STypeOK'
    <3>1. TypeOK'
      BY <1>4 DEF ReadDone, Return, TypeOK, ring, ends
    <3>2. i_wait' \subseteq Task
      BY <3>1 DEF TypeOK
    <3>3. after' \in [Task -> SUBSET Task]
      BY <1>4, <3>2, AfterType
    <3>. QED BY <1>4, <3>1, <3>3 DEF STypeOK
  <2>3. Sleepers' /\ NobodyWaitsForEachOther'
    BY <1>4 DEF ReadDone, Return, Awake, Sleepers, NobodyWaitsForEachOther, TypeOK
  <2>. QED BY <2>1, <2>2, <2>3
<1>5. ASSUME NEW t \in Task, ReadEmpty(t), GoesOn(t), UNCHANGED <<sel, timeout>> PROVE Inv'
  <2>1. ValidData' /\ StreamIntact'
    BY <1>5, SameRing DEF ReadEmpty
  <2>2. i_wait2' = {} /\ UNCHANGED <<ring, ends, sent, got, intact, faulted>>
    BY <1>5 DEF ReadEmpty
  <2>3. \/ i_wait' = i_wait /\ Return(t) /\ signal' = [signal EXCEPT ![t] = FALSE]
        \/ i_wait' = i_wait \cup {t} /\ UNCHANGED <<pc, count, signal>>
    BY <1>5 DEF ReadEmpty
  <2>4. pc[t] = "read" /\ t \notin i_wait
    BY <1>5 DEF ReadEmpty, Awake
  <2>5. STypeOK'
    <3>1. TypeOK'
      <4>1. /\ pc' \in [Task -> {"idle", "read", "read_copy", "write", "write_copy", "select", "select_again"}]
            /\ count' \in [Task -> 0..MaxCount] /\ signal' \in [Task -> BOOLEAN]
        BY <2>3 DEF Return, TypeOK
      <4>2. i_wait' \subseteq Task
        BY <2>3 DEF TypeOK
      <4>. QED BY <1>5, <2>2, <4>1, <4>2 DEF TypeOK, ring, ends
    <3>2. i_wait' \subseteq Task
      BY <3>1 DEF TypeOK
    <3>3. after' \in [Task -> SUBSET Task]
      BY <1>5, <3>2, AfterType
    <3>. QED BY <1>5, <3>1, <3>3 DEF STypeOK
  <2>6. Sleepers' /\ NobodyWaitsForEachOther'
    BY <2>2, <2>3, <2>4 DEF Return, Sleepers, NobodyWaitsForEachOther, TypeOK
  <2>. QED BY <2>1, <2>5, <2>6
<1>6. ASSUME NEW t \in Task, ReadPiece(t), GoesOn(t), UNCHANGED <<sel, timeout>> PROVE Inv'
  <2>1. /\ head' = head /\ tail' \in 0..(PAGE_SIZE - 1) /\ got' \in 0..(Serial - 1)
        /\ count' \in [Task -> 0..MaxCount] /\ ValidData' /\ StreamIntact'
    BY <1>6, ReadsTheRing
  <2>2. /\ pc' = pc \/ pc' = [pc EXCEPT ![t] = "read_copy"]
        /\ page' = page \/ page' = Unknown
        /\ intact' \in BOOLEAN /\ faulted' \in BOOLEAN
        /\ UNCHANGED <<ends, queues, sent, signal>>
        /\ pc[t] = "read" /\ t \notin i_wait /\ t \notin i_wait2
    BY <1>6 DEF ReadPiece, Fault, Awake, TypeOK
  <2>3. page' \in [0..(PAGE_SIZE - 1) -> -1..(Serial - 1)]
    BY <2>2, PipeAssumption DEF TypeOK, Unknown, Serial
  <2>4. STypeOK'
    <3>1. TypeOK'
      BY <1>6, <2>1, <2>2, <2>3 DEF TypeOK, ends, queues
    <3>2. i_wait' \subseteq Task
      BY <3>1 DEF TypeOK
    <3>3. after' \in [Task -> SUBSET Task]
      BY <1>6, <3>2, AfterType
    <3>. QED BY <1>6, <3>1, <3>3 DEF STypeOK
  <2>5. Sleepers' /\ NobodyWaitsForEachOther'
    BY <2>2 DEF queues, Sleepers, NobodyWaitsForEachOther, TypeOK
  <2>. QED BY <2>1, <2>4, <2>5
<1>7. ASSUME NEW t \in Task, Copied(t), GoesOn(t), UNCHANGED <<sel, timeout>> PROVE Inv'
  <2>1. ValidData' /\ StreamIntact'
    BY <1>7, SameRing DEF Copied
  <2>2. STypeOK'
    <3>1. TypeOK'
      BY <1>7 DEF Copied, TypeOK, ring, ends, queues
    <3>2. i_wait' \subseteq Task
      BY <3>1 DEF TypeOK
    <3>3. after' \in [Task -> SUBSET Task]
      BY <1>7, <3>2, AfterType
    <3>. QED BY <1>7, <3>1, <3>3 DEF STypeOK
  <2>3. Sleepers' /\ NobodyWaitsForEachOther'
    BY <1>7 DEF Copied, queues, Sleepers, NobodyWaitsForEachOther, TypeOK
  <2>. QED BY <2>1, <2>2, <2>3
<1>8. ASSUME NEW t \in Task, WriteDone(t), GoesOn(t), UNCHANGED <<sel, timeout>> PROVE Inv'
  <2>1. ValidData' /\ StreamIntact'
    BY <1>8, SameRing DEF WriteDone
  <2>2. STypeOK'
    <3>1. TypeOK'
      BY <1>8 DEF WriteDone, Return, TypeOK, ring, ends
    <3>2. i_wait' \subseteq Task
      BY <3>1 DEF TypeOK
    <3>3. after' \in [Task -> SUBSET Task]
      BY <1>8, <3>2, AfterType
    <3>. QED BY <1>8, <3>1, <3>3 DEF STypeOK
  <2>3. Sleepers' /\ NobodyWaitsForEachOther'
    BY <1>8 DEF WriteDone, Return, Awake, Sleepers, NobodyWaitsForEachOther, TypeOK
  <2>. QED BY <2>1, <2>2, <2>3
<1>9. ASSUME NEW t \in Task, WriteFull(t), GoesOn(t), UNCHANGED <<sel, timeout>> PROVE Inv'
  <2>1. ValidData' /\ StreamIntact'
    BY <1>9, SameRing DEF WriteFull
  <2>2. i_wait' = {} /\ UNCHANGED <<ring, ends, sent, got, signal, intact, faulted>>
    BY <1>9 DEF WriteFull
  <2>3. \/ i_wait2' = i_wait2 /\ Return(t)
        \/ i_wait2' = i_wait2 \cup {t} /\ UNCHANGED <<pc, count>>
    BY <1>9 DEF WriteFull
  <2>4. pc[t] = "write" /\ t \notin i_wait2
    BY <1>9 DEF WriteFull, Awake
  <2>5. STypeOK'
    <3>1. TypeOK'
      BY <1>9, <2>2, <2>3 DEF Return, TypeOK, ring, ends
    <3>2. i_wait' \subseteq Task
      BY <3>1 DEF TypeOK
    <3>3. after' \in [Task -> SUBSET Task]
      BY <1>9, <3>2, AfterType
    <3>. QED BY <1>9, <3>1, <3>3 DEF STypeOK
  <2>6. Sleepers' /\ NobodyWaitsForEachOther'
    BY <2>2, <2>3, <2>4 DEF Return, Sleepers, NobodyWaitsForEachOther, TypeOK
  <2>. QED BY <2>1, <2>5, <2>6
<1>10. ASSUME NEW t \in Task, WritePiece(t), GoesOn(t), UNCHANGED <<sel, timeout>> PROVE Inv'
  <2>1. /\ tail' = tail /\ head' \in 0..(PAGE_SIZE - 1) /\ sent' \in 0..(Serial - 1)
        /\ count' \in [Task -> 0..MaxCount] /\ page' \in [0..(PAGE_SIZE - 1) -> -1..(Serial - 1)]
        /\ ValidData' /\ StreamIntact'
    BY <1>10, WritesTheRing
  <2>2. /\ pc' = pc \/ pc' = [pc EXCEPT ![t] = "write_copy"]
        /\ faulted' \in BOOLEAN
        /\ UNCHANGED <<ends, queues, got, signal, intact>>
        /\ pc[t] = "write" /\ t \notin i_wait /\ t \notin i_wait2
    BY <1>10 DEF WritePiece, Fault, Awake, TypeOK
  <2>3. STypeOK'
    <3>1. TypeOK'
      BY <1>10, <2>1, <2>2 DEF TypeOK, ends, queues
    <3>2. i_wait' \subseteq Task
      BY <3>1 DEF TypeOK
    <3>3. after' \in [Task -> SUBSET Task]
      BY <1>10, <3>2, AfterType
    <3>. QED BY <1>10, <3>1, <3>3 DEF STypeOK
  <2>4. Sleepers' /\ NobodyWaitsForEachOther'
    BY <2>2 DEF queues, Sleepers, NobodyWaitsForEachOther, TypeOK
  <2>. QED BY <2>1, <2>3, <2>4
<1>11. ASSUME SysPipe, UNCHANGED <<sel, timeout, after>> PROVE Inv'
  <2>1. PAGE_SIZE \in Nat \ {0} /\ Serial = 2 * PAGE_SIZE
    BY PipeAssumption DEF Serial
  <2>2. Unknown \in [0..(PAGE_SIZE - 1) -> -1..(Serial - 1)]
    BY <2>1 DEF Unknown
  <2>3. 0 \in 0..(PAGE_SIZE - 1) /\ 0 \in 0..(Serial - 1)
    BY <2>1
  <2>4. STypeOK'
    BY <1>11, <2>2, <2>3 DEF SysPipe, STypeOK, TypeOK, queues
  <2>5. ValidData'
    <3>1. (0 - 0) % PAGE_SIZE = 0 /\ (0 - 0) % Serial = 0
      <4>1. (0 - 0) % PAGE_SIZE = 0
        BY <2>1, <2>3, DistanceIs
      <4>2. (0 - 0) % Serial = 0
        BY <2>1, <2>3, BetweenIs
      <4>. QED BY <4>1, <4>2
    <3>2. PIPE_SIZE' = 0 /\ (sent' - got') % Serial = 0
      BY <1>11, <3>1 DEF SysPipe, PIPE_SIZE
    <3>. QED BY <3>2 DEF ValidData
  <2>6. StreamIntact' /\ Sleepers' /\ NobodyWaitsForEachOther'
    BY <1>11 DEF SysPipe, queues, StreamIntact, Sleepers, NobodyWaitsForEachOther
  <2>. QED BY <2>4, <2>5, <2>6
<1>12. ASSUME NEW t \in Selector, NEW what \in {"in", "out", "ex"}, NEW limit \in {"none", "running"},
              SelectStart(t, what, limit)
       PROVE  Inv'
  <2>1. ValidData' /\ StreamIntact'
    BY <1>12, SameRing DEF SelectStart
  <2>2. t \in Task
    BY SelectorAssumption
  <2>3. STypeOK'
    BY <1>12, <2>2 DEF SelectStart, STypeOK, TypeOK, ring, ends, queues
  <2>4. Sleepers' /\ NobodyWaitsForEachOther'
    BY <1>12, <2>2 DEF SelectStart, queues, Sleepers, NobodyWaitsForEachOther, TypeOK
  <2>. QED BY <2>1, <2>3, <2>4
<1>13. ASSUME NEW t \in Selector, SelectReturn(t) PROVE Inv'
  <2>1. ValidData' /\ StreamIntact'
    BY <1>13, SameRing DEF SelectReturn
  <2>2. t \in Task
    BY SelectorAssumption
  <2>3. STypeOK'
    <3>1. TypeOK'
      BY <1>13, <2>2 DEF SelectReturn, FreeWait, OnQueue, TypeOK, ring, ends
    <3>2. i_wait' \subseteq Task
      BY <3>1 DEF TypeOK
    <3>3. after' \in [Task -> SUBSET Task]
      BY <1>13, <3>2, AfterType, <2>2 DEF SelectReturn
    <3>. QED BY <1>13, <3>1, <3>3 DEF STypeOK, SelectReturn
  <2>4. Sleepers' /\ NobodyWaitsForEachOther'
    BY <1>13, <2>2 DEF SelectReturn, FreeWait, OnQueue, Awake, InSelect, Sleepers, NobodyWaitsForEachOther, TypeOK
  <2>. QED BY <2>1, <2>3, <2>4
<1>14. ASSUME NEW t \in Selector, SelectSleep(t) PROVE Inv'
  <2>1. ValidData' /\ StreamIntact'
    BY <1>14, SameRing DEF SelectSleep
  <2>2. t \in Task
    BY SelectorAssumption
  <2>3. STypeOK'
    <3>1. TypeOK'
      BY <1>14, <2>2 DEF SelectSleep, FreeWait, OnQueue, TypeOK, ring, ends
    <3>2. i_wait' \subseteq Task
      BY <3>1 DEF TypeOK
    <3>3. after' \in [Task -> SUBSET Task]
      BY <1>14, <3>2, AfterType, <2>2 DEF SelectSleep
    <3>. QED BY <1>14, <3>1, <3>3 DEF STypeOK, SelectSleep
  <2>4. Sleepers' /\ NobodyWaitsForEachOther'
    BY <1>14, <2>2 DEF SelectSleep, FreeWait, OnQueue, Awake, InSelect, Sleepers, NobodyWaitsForEachOther, TypeOK
  <2>. QED BY <2>1, <2>3, <2>4
<1>15. ASSUME NEW t \in Selector, SelectTimeout(t) \/ SelectSignal(t) PROVE Inv'
  <2>1. ValidData' /\ StreamIntact'
    BY <1>15, SameRing DEF SelectTimeout, SelectSignal
  <2>2. t \in Task
    BY SelectorAssumption
  <2>3. STypeOK'
    BY <1>15, <2>2 DEF SelectTimeout, SelectSignal, STypeOK, TypeOK, ring, ends
  <2>4. Sleepers' /\ NobodyWaitsForEachOther'
    BY <1>15 DEF SelectTimeout, SelectSignal, Sleepers, NobodyWaitsForEachOther, TypeOK
  <2>. QED BY <2>1, <2>3, <2>4
<1>16. ASSUME NEW t \in Selector, SelectWaits(t) PROVE Inv'
  <2>1. ValidData' /\ StreamIntact'
    BY <1>16, SameRing DEF SelectWaits
  <2>2. i_wait' \subseteq i_wait
    BY <1>16 DEF SelectWaits
  <2>3. STypeOK'
    BY <1>16, <2>2 DEF SelectWaits, STypeOK, TypeOK, ring, ends
  <2>4. Sleepers' /\ NobodyWaitsForEachOther'
    BY <1>16, <2>2 DEF SelectWaits, Sleepers, NobodyWaitsForEachOther
  <2>. QED BY <2>1, <2>3, <2>4
<1>17. CASE UNCHANGED svars
  <2>1. ValidData' /\ StreamIntact'
    BY <1>17, SameRing DEF svars, ring
  <2>2. STypeOK' /\ Sleepers' /\ NobodyWaitsForEachOther'
    BY <1>17 DEF svars, STypeOK, TypeOK, Sleepers, NobodyWaitsForEachOther
  <2>. QED BY <2>1, <2>2
<1>. QED
  BY <1>1, <1>2, <1>3, <1>4, <1>5, <1>6, <1>7, <1>8, <1>9, <1>10, <1>11, <1>12, <1>13, <1>14, <1>15, <1>16, <1>17
  DEF SNext, Calls, Step, PipeStep, SelectStep

-----------------------------------------------------------------------------
(* read_pipe, write_pipe and select, whoever calls them and in whatever    *)
(* order: the invariant, with the picture of the ring, holds throughout.   *)
THEOREM RingIsRight == SSpec => []Inv
<1>. QED BY InvInit, InvStep, PTL DEF SSpec

(* Every byte is delivered once and in order, as long as no page fault     *)
(* comes between the move of the head or the tail and the copy.            *)
THEOREM StreamIsIntact == SSpec => []StreamIntact
<1>1. Inv => StreamIntact
  BY DEF Inv
<1>. QED BY <1>1, RingIsRight, PTL

(* A reader goes to sleep only after it woke the writers, and a writer     *)
(* after it woke the readers: the two sides never wait for each other.     *)
THEOREM OneSideWaits == SSpec => []NobodyWaitsForEachOther
<1>1. Inv => NobodyWaitsForEachOther
  BY DEF Inv
<1>. QED BY <1>1, RingIsRight, PTL
=============================================================================
