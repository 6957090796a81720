----------------------------- MODULE Node8Proofs -----------------------------
(***************************************************************************)
(* What Node 8 keeps across restarts: the counter of the clears, for every    *)
(* set of nodes and any number of clears, and the black box, for every size   *)
(* of the ring.                                                               *)
(***************************************************************************)
EXTENDS EstopCounter, BlackBox, SequenceTheorems, TLAPS

-----------------------------------------------------------------------------
(* The counter of the clears *)

CounterTypes ==
  /\ disk \in [Files -> Nat] /\ writable \in [Files -> BOOLEAN]
  /\ counter_path \in Files /\ file \in {"idle", "opened"} /\ next \in Nat
  /\ clear_counter \in [Nodes -> Nat]

(* Unless it has been forgotten, the number last used is at hand: in the
   file, or in `next` while the file is empty *)
AtHand ==
  ~forgotten => /\ file = "idle" => \A n \in Nodes : clear_counter[n] <= disk[counter_path]
                /\ file = "opened" => \A n \in Nodes : clear_counter[n] < next

(* What is being written can be written: /tmp never goes away *)
Writable ==
  /\ writable["fallback"] = TRUE
  /\ file = "opened" => writable[counter_path] = TRUE

CounterInv == CounterTypes /\ AtHand /\ Writable /\ ClearsCount

(* The first clear has the number 1, above every node's *)
LEMMA CounterBegins == CounterInit => CounterInv
<1> SUFFICES ASSUME CounterInit PROVE CounterInv
  OBVIOUS
<1> USE DEF CounterInit, Files
<1>1. CounterTypes
  BY DEF CounterTypes
<1>2. AtHand /\ Writable
  BY DEF AtHand, Writable
<1>3. ClearsCount
  BY DEF ClearsCount
<1> QED BY <1>1, <1>2, <1>3 DEF CounterInv

(* load_and_bump_counter reads a number no node is above, and opens a file it
   can write *)
LEMMA CounterOpen == CounterInv /\ Open => CounterInv'
<1> SUFFICES ASSUME CounterInv, Open PROVE CounterInv'
  OBVIOUS
<1> USE DEF CounterInv, Open, load_and_bump_counter, Files
<1>1. CounterTypes'
  BY DEF CounterTypes
<1>2. Writable'
  <2>1. CASE writable[counter_path]
    BY <2>1 DEF Writable, CounterTypes
  <2>2. CASE ~writable[counter_path]
    BY <2>2 DEF Writable, CounterTypes
  <2> QED BY <2>1, <2>2
<1>3. AtHand'
  BY DEF AtHand, CounterTypes
<1>4. ClearsCount'
  BY DEF ClearsCount
<1> QED BY <1>1, <1>2, <1>3, <1>4

(* EstopService::handle: the number that goes out is above every node's, and is
   in the file before it is used again *)
LEMMA CounterWrite == ASSUME CounterInv, NEW reached \in SUBSET Nodes, Write(reached) PROVE CounterInv'
<1> USE DEF CounterInv, Write, Issue
<1>1. CounterTypes'
  BY DEF CounterTypes
<1>2. Writable'
  BY DEF Writable
<1>3. disk'[counter_path] = next
  BY DEF CounterTypes, Writable
<1>4. AtHand'
  BY <1>3 DEF AtHand, CounterTypes
<1>5. ClearsCount'
  <2>1. ~forgotten => ~ \E n \in Nodes : next <= clear_counter[n]
    BY DEF AtHand, CounterTypes
  <2> QED BY <2>1, Zenon DEF ClearsCount
<1> QED BY <1>1, <1>2, <1>4, <1>5

(* A write that fails loses the number, as `forgotten` says *)
LEMMA CounterWriteFails ==
  ASSUME CounterInv, NEW reached \in SUBSET Nodes, WriteFails(reached) PROVE CounterInv'
<1> USE DEF CounterInv, WriteFails, Issue
<1>1. CounterTypes'
  BY DEF CounterTypes
<1>2. Writable'
  BY DEF Writable
<1>3. AtHand' /\ ClearsCount'
  BY Zenon DEF AtHand, ClearsCount
<1> QED BY <1>1, <1>2, <1>3

(* A restart of the bridge forgets a number only as `forgotten` says; a node that
   is reset asks for less; a file that cannot be opened still reads *)
LEMMA CounterOther == CounterInv /\ (Restart \/ (\E n \in Nodes : NodeReset(n)) \/ LoseMedium) => CounterInv'
<1> SUFFICES ASSUME CounterInv, Restart \/ (\E n \in Nodes : NodeReset(n)) \/ LoseMedium PROVE CounterInv'
  OBVIOUS
<1> USE DEF CounterInv
<1>1. CASE Restart
  <2>1. CounterTypes' /\ Writable'
    BY <1>1 DEF Restart, CounterTypes, Writable, Files
  <2>2. ~forgotten' => ~forgotten /\ file = "idle" /\ counter_path = "configured"
    <3>1. ~forgotten' => ~forgotten /\ file # "opened" /\ counter_path # "fallback"
      BY <1>1, Zenon DEF Restart
    <3> QED BY <3>1 DEF CounterTypes, Files
  <2>3. AtHand'
    BY <1>1, <2>2 DEF Restart, AtHand
  <2>4. ClearsCount'
    BY <1>1, Zenon DEF Restart, ClearsCount
  <2> QED BY <2>1, <2>3, <2>4
<1>2. ASSUME NEW n \in Nodes, NodeReset(n) PROVE CounterInv'
  BY <1>2 DEF NodeReset, CounterTypes, AtHand, Writable, ClearsCount, Files
<1>3. CASE LoseMedium
  BY <1>3 DEF LoseMedium, CounterTypes, AtHand, Writable, ClearsCount, Files
<1> QED BY <1>1, <1>2, <1>3

(* A step of the counter keeps its invariant *)
LEMMA CounterStep == CounterInv /\ CounterNext => CounterInv'
<1> SUFFICES ASSUME CounterInv, CounterNext PROVE CounterInv'
  OBVIOUS
<1>1. ASSUME NEW reached \in SUBSET Nodes, Write(reached) \/ WriteFails(reached)
      PROVE  CounterInv'
  BY <1>1, CounterWrite, CounterWriteFails
<1> QED BY <1>1, CounterOpen, CounterOther DEF CounterNext

(* ... and so does no step *)
LEMMA CounterStays == CounterInv /\ UNCHANGED counter => CounterInv'
BY DEF CounterInv, CounterTypes, AtHand, Writable, ClearsCount, counter

(* estop_service.hpp's "strictly monotonic counter": no node has to reject a
   clear, whatever it missed and whoever was restarted, but after a restart or a
   failed write that lost the number last used. *)
THEOREM ClearsCountHolds == CounterSpec => []ClearsCount
<1>1. CounterInv /\ [CounterNext]_counter => CounterInv'
  BY CounterStep, CounterStays
<1>2. CounterInv => ClearsCount
  BY DEF CounterInv
<1> QED BY CounterBegins, <1>1, <1>2, PTL DEF CounterSpec

-----------------------------------------------------------------------------
(* The black box *)

BoxTypes ==
  /\ slots \in [0 .. CAPACITY - 1 -> Int] /\ header \in {NEVER} \cup Nat
  /\ write_index \in Nat /\ second \in Nat /\ cut \in BOOLEAN
  /\ node \in {"down", "idle", "snapshot", "tick", "put"}
  /\ tmp \in [at : Nat, n : Nat, recs : Seq(Int)]
  /\ files \in [0 .. MAX_SECOND -> [n : Nat, recs : Seq(Int)]]
  /\ node # "down" => header = write_index

(* The last CAPACITY records are where their index puts them, but for the oldest of
   them between a record and its header *)
Ring ==
  /\ header # NEVER =>
       \A i \in 0 .. header - 1 : header <= i + CAPACITY =>
         \/ slots[i % CAPACITY] = i
         \/ header = i + CAPACITY /\ slots[i % CAPACITY] = header /\ (cut \/ node = "put")
  /\ node = "put" => slots[header % CAPACITY] = header

(* What is written of a snapshot is what the ring holds: nothing is put meanwhile *)
Copied ==
  node = "snapshot" =>
    /\ tmp.n = Len(Records(write_index)) /\ Len(tmp.recs) <= tmp.n
    /\ \A k \in 1 .. Len(tmp.recs) : tmp.recs[k] = Records(write_index)[k]

BoxInv == BoxTypes /\ Ring /\ Copied /\ SnapshotsWhole

(* Two indexes no more than the ring apart share a slot only if a ring apart *)
LEMMA SameSlot ==
  ASSUME NEW s \in Nat \ {0}, NEW i \in Nat, NEW h \in Nat, i < h, h <= i + s,
         i % s = h % s
  PROVE  h = i + s
<1>1. PICK r \in Nat, a \in Nat, b \in Nat : i = s * a + r /\ h = s * b + r
  <2>1. i = s * (i \div s) + (i % s) /\ i \div s \in Nat /\ i % s \in Nat
    OBVIOUS
  <2>2. h = s * (h \div s) + (h % s) /\ h \div s \in Nat
    OBVIOUS
  <2> QED BY Zenon, <2>1, <2>2
<1>2. s * a \in Int /\ s * b \in Int
  OBVIOUS
<1>3. CASE a >= b
  <2>1. PICK d \in Nat : a = b + d
    BY <1>3, a - b \in Nat
  <2>2. s * a = s * b + s * d /\ s * d \in Nat
    BY <2>1
  <2> QED BY <1>1, <1>2, <2>2
<1>4. CASE a < b
  <2>1. PICK e \in Nat : b = a + (e + 1)
    BY <1>4, b - a - 1 \in Nat
  <2>2. s * b = s * a + s * e + s /\ s * e \in Nat
    BY <2>1
  <2> QED BY <1>1, <1>2, <2>2
<1> QED BY <1>3, <1>4

(* ... and a ring apart they do *)
LEMMA RingApart ==
  ASSUME NEW s \in Nat \ {0}, NEW i \in Nat
  PROVE  (i + s) % s = i % s
<1>1. PICK a \in Nat, r \in 0 .. s - 1 : i = s * a + r /\ r = i % s
  <2>1. i = s * (i \div s) + (i % s) /\ i \div s \in Nat /\ i % s \in 0 .. s - 1
    OBVIOUS
  <2> QED BY Zenon, <2>1
<1>2. PICK q \in Nat, t \in 0 .. s - 1 : i + s = s * q + t /\ t = (i + s) % s
  <2>1. /\ i + s = s * ((i + s) \div s) + ((i + s) % s)
        /\ (i + s) \div s \in Nat /\ (i + s) % s \in 0 .. s - 1
    OBVIOUS
  <2> QED BY Zenon, <2>1
<1>3. s * a \in Int /\ s * q \in Int
  OBVIOUS
<1>4. CASE q > a + 1
  <2>1. PICK e \in Nat : q = a + 1 + (e + 1)
    BY <1>4, q - a - 2 \in Nat
  <2>2. s * q = s * a + s * e + s + s /\ s * e \in Nat
    BY <2>1
  <2> QED BY <1>1, <1>2, <1>3, <2>2
<1>5. CASE q < a + 1
  <2>1. PICK e \in Nat : a = q + e
    BY <1>5, a - q \in Nat
  <2>2. s * a = s * q + s * e /\ s * e \in Nat
    BY <2>1
  <2> QED BY <1>1, <1>2, <1>3, <2>2
<1>6. CASE q = a + 1
  <2>1. s * q = s * a + s
    BY <1>6
  <2>2. t = r
    BY SMTT(30), <1>1, <1>2, <1>3, <2>1
  <2> QED BY <1>1, <1>2, <2>2, Zenon
<1> QED BY <1>4, <1>5, <1>6

(* RingLog.records: how many there are, and where each is read *)
LEMMA RecordsRead ==
  ASSUME BoxTypes, NEW h \in Nat
  PROVE  /\ Records(h) \in Seq(Int) /\ Len(Records(h)) \in Nat
         /\ Len(Records(h)) = IF h < CAPACITY THEN h ELSE CAPACITY
         /\ \A k \in 1 .. Len(Records(h)) :
              Records(h)[k] = slots[(h - Len(Records(h)) + k - 1) % CAPACITY]
<1> DEFINE n == IF h < CAPACITY THEN h ELSE CAPACITY
<1>1. n \in Nat /\ CAPACITY \in Nat \ {0} /\ n <= h
  BY RingAssumption DEF RingAssumption
<1>2. Records(h) = [k \in 1 .. n |-> slots[(h - n + k - 1) % CAPACITY]]
  BY DEF Records
<1> HIDE DEF n
<1>3. ASSUME NEW k \in 1 .. n PROVE slots[(h - n + k - 1) % CAPACITY] \in Int
  <2>1. h - n + k - 1 \in Nat
    BY <1>1
  <2>2. (h - n + k - 1) % CAPACITY \in 0 .. CAPACITY - 1
    BY <1>1, <2>1
  <2> QED BY <2>2 DEF BoxTypes
<1>4. Records(h) \in Seq(Int) /\ Len(Records(h)) = n
  BY <1>1, <1>2, <1>3
<1> QED BY <1>1, <1>2, <1>4 DEF n

(* A restart reads the records in order, the oldest of a full ring excepted *)
LEMMA ReadInOrder ==
  ASSUME BoxTypes, Ring, header \in Nat,
         NEW k \in 1 .. Len(Records(header))
  PROVE  LET n == Len(Records(header))
         IN  \/ Records(header)[k] = header - n + k - 1
             \/ k = 1 /\ n = CAPACITY /\ Records(header)[k] = header /\ (cut \/ node = "put")
<1>0. /\ Len(Records(header)) \in Nat
      /\ Len(Records(header)) = IF header < CAPACITY THEN header ELSE CAPACITY
      /\ Records(header)[k] = slots[(header - Len(Records(header)) + k - 1) % CAPACITY]
  BY Zenon, RecordsRead
<1>1. PICK n \in Nat : /\ n = Len(Records(header))
                       /\ n = IF header < CAPACITY THEN header ELSE CAPACITY
                       /\ Records(header)[k] = slots[(header - n + k - 1) % CAPACITY]
  BY <1>0
<1>6. k \in 1 .. n /\ n <= header /\ n <= CAPACITY
  BY <1>1, RingAssumption DEF RingAssumption
<1>2. PICK i \in Nat : i = header - n + k - 1
  BY <1>6, header - n + k - 1 \in Nat
<1>3. i \in 0 .. header - 1 /\ header <= i + CAPACITY /\ CAPACITY \in Nat
      /\ (header = i + CAPACITY => k = 1 /\ n = CAPACITY)
  BY <1>6, <1>2, RingAssumption DEF RingAssumption
<1>4. header # NEVER
  BY DEF NEVER
<1>5. \/ slots[i % CAPACITY] = i
      \/ header = i + CAPACITY /\ slots[i % CAPACITY] = header /\ (cut \/ node = "put")
  BY <1>3, <1>4 DEF Ring
<1> QED BY <1>1, <1>2, <1>3, <1>5

(* The records of a whole snapshot follow each other as SnapshotsWhole says *)
Following(recs) ==
  \A k \in 1 .. Len(recs) - 1 :
    \/ recs[k + 1] = recs[k] + 1
    \/ k = 1 /\ Len(recs) = CAPACITY /\ recs[1] = recs[Len(recs)] + 1

(* A copy of all the ring's records follows on *)
LEMMA CopyFollows ==
  ASSUME BoxTypes, Ring, Copied, node = "snapshot", Len(tmp.recs) = tmp.n
  PROVE  Following(tmp.recs)
<1>1. PICK h \in Nat : h = header /\ h = write_index
  BY DEF BoxTypes
<1>2. PICK n \in Nat : n = Len(Records(h))
  BY RecordsRead
<1>3. Len(tmp.recs) = n /\ \A k \in 1 .. n : tmp.recs[k] = Records(h)[k]
  BY <1>1, <1>2 DEF Copied
<1>4. ASSUME NEW k \in 1 .. n
      PROVE  \/ tmp.recs[k] = h - n + k - 1
             \/ k = 1 /\ n = CAPACITY /\ tmp.recs[k] = h
  <2>1. header \in Nat /\ k \in 1 .. Len(Records(header))
    BY <1>1, <1>2
  <2>2. \/ Records(header)[k] = header - Len(Records(header)) + k - 1
        \/ k = 1 /\ Len(Records(header)) = CAPACITY /\ Records(header)[k] = header
    BY <2>1, ReadInOrder
  <2> QED BY <1>1, <1>2, <1>3, <2>2
<1>5. ASSUME NEW k \in 1 .. n - 1
      PROVE  \/ tmp.recs[k + 1] = tmp.recs[k] + 1
             \/ k = 1 /\ n = CAPACITY /\ tmp.recs[1] = tmp.recs[n] + 1
  <2>1. k \in 1 .. n /\ k + 1 \in 1 .. n /\ n \in 1 .. n /\ k + 1 # 1 /\ n # 1
    OBVIOUS
  <2>2. tmp.recs[k + 1] = h - n + (k + 1) - 1 /\ tmp.recs[n] = h - n + n - 1
    BY <1>4, <2>1
  <2>3. CASE tmp.recs[k] = h - n + k - 1
    BY <2>2, <2>3
  <2>4. CASE k = 1 /\ n = CAPACITY /\ tmp.recs[k] = h
    BY <2>2, <2>4
  <2> QED BY <1>4, <2>1, <2>3, <2>4
<1> QED BY <1>3, <1>5 DEF Following

(* A new file: no record, no header, no snapshot *)
LEMMA BoxBegins == BoxInit => BoxInv
<1> SUFFICES ASSUME BoxInit PROVE BoxInv
  OBVIOUS
<1>0. /\ slots = [i \in 0 .. CAPACITY - 1 |-> NEVER] /\ header = NEVER /\ node = "down"
      /\ write_index = 0 /\ second = 0 /\ tmp = NoTmp
      /\ files = [i \in 0 .. MAX_SECOND |-> NO_FILE]
      /\ <<>> \in Seq(Int) /\ Len(<<>>) = 0
  BY EmptySeq DEF BoxInit
<1>1. cut \in BOOLEAN
  BY Zenon DEF BoxInit
<1>2. BoxTypes
  BY <1>0, <1>1 DEF BoxTypes, NEVER, NO_FILE, NoTmp
<1>3. Ring /\ Copied
  BY <1>0 DEF Ring, Copied
<1>4. SnapshotsWhole
  BY <1>0 DEF SnapshotsWhole, NO_FILE
<1> QED BY <1>2, <1>3, <1>4 DEF BoxInv

(* A step that puts no record and writes no header leaves the ring as it is *)
LEMMA RingStays ==
  ASSUME Ring, UNCHANGED <<slots, header>>, cut \/ node = "put" => cut' \/ node' = "put",
         node' = "put" => node = "put"
  PROVE  Ring'
BY DEF Ring

(* RingLog.__init__ and the end of the process *)
LEMMA LifeSteps == BoxInv /\ (Reopen \/ Die) => BoxInv'
<1> SUFFICES ASSUME BoxInv, Reopen \/ Die PROVE BoxInv'
  OBVIOUS
<1>1. CASE Reopen
  <2>0. /\ node = "down" /\ node' = "idle" /\ write_index' = header'
        /\ header' = (IF header = NEVER THEN 0 ELSE header)
        /\ UNCHANGED <<slots, tmp, files, second, cut>>
    BY <1>1 DEF Reopen
  <2>1. BoxTypes'
    BY <2>0 DEF BoxInv, BoxTypes, NEVER
  <2>2. Ring'
    BY <2>0 DEF BoxInv, BoxTypes, Ring, NEVER
  <2>3. Copied' /\ SnapshotsWhole'
    BY <2>0 DEF BoxInv, Copied, SnapshotsWhole
  <2> QED BY <2>1, <2>2, <2>3 DEF BoxInv
<1>2. CASE Die
  <2>0. /\ node' = "down" /\ write_index' = 0 /\ tmp' = NoTmp
        /\ UNCHANGED <<slots, header, files, second>>
    BY <1>2 DEF Die
  <2>1. cut' \in BOOLEAN /\ (cut \/ node = "put" => cut')
    BY <1>2, Zenon DEF Die
  <2>2. BoxTypes'
    BY <2>0, <2>1, EmptySeq DEF BoxInv, BoxTypes, NoTmp
  <2>3. Ring'
    BY <2>0, <2>1, RingStays DEF BoxInv
  <2>4. Copied' /\ SnapshotsWhole'
    BY <2>0 DEF BoxInv, Copied, SnapshotsWhole
  <2> QED BY <2>2, <2>3, <2>4 DEF BoxInv
<1> QED BY <1>1, <1>2

(* RingLog.append: the record takes the slot of the oldest, then the header counts it *)
LEMMA AppendSteps == BoxInv /\ ((\E code \in TOPICS : Put(code)) \/ Flush) => BoxInv'
<1> SUFFICES ASSUME BoxInv, (\E code \in TOPICS : Put(code)) \/ Flush PROVE BoxInv'
  OBVIOUS
<1>0. CAPACITY \in Nat \ {0}
  BY RingAssumption DEF RingAssumption
<1>1. CASE \E code \in TOPICS : Put(code)
  <2>0. /\ node = "tick" /\ node' = "put"
        /\ slots' = [slots EXCEPT ![write_index % CAPACITY] = write_index]
        /\ UNCHANGED <<header, write_index, tmp, files, second>>
    BY <1>1 DEF Put
  <2>1. cut' \in BOOLEAN
    BY <1>1, Zenon DEF Put
  <2>2. PICK h \in Nat : h = header /\ h = write_index /\ header' = h
    BY <2>0 DEF BoxInv, BoxTypes
  <2>3. h % CAPACITY \in 0 .. CAPACITY - 1
    BY <1>0
  <2>4. BoxTypes'
    BY <2>0, <2>1, <2>2, <2>3 DEF BoxInv, BoxTypes
  <2>5. /\ slots'[h % CAPACITY] = h
        /\ \A j \in 0 .. CAPACITY - 1 : j # h % CAPACITY => slots'[j] = slots[j]
    BY <2>0, <2>2, <2>3 DEF BoxInv, BoxTypes
  <2>6. ASSUME NEW i \in 0 .. h - 1, h <= i + CAPACITY
        PROVE  \/ slots'[i % CAPACITY] = i
               \/ h = i + CAPACITY /\ slots'[i % CAPACITY] = h
    <3>1. i \in Nat /\ i < h /\ i % CAPACITY \in 0 .. CAPACITY - 1
      BY <1>0
    <3>2. CASE i % CAPACITY = h % CAPACITY
      <4>1. h = i + CAPACITY
        BY Zenon, <1>0, <2>6, <3>1, <3>2, SameSlot
      <4> QED BY <2>5, <3>2, <4>1
    <3>3. CASE i % CAPACITY # h % CAPACITY
      <4>1. slots'[i % CAPACITY] = slots[i % CAPACITY]
        BY <2>5, <3>1, <3>3
      <4>2. h # i + CAPACITY \/ slots[i % CAPACITY] = i
        <5> SUFFICES ASSUME h = i + CAPACITY PROVE FALSE
          OBVIOUS
        <5>1. (i + CAPACITY) % CAPACITY = i % CAPACITY
          BY Zenon, <1>0, <3>1, RingApart
        <5> QED BY <3>3, <5>1
      <4>3. slots[i % CAPACITY] = i
        BY <2>2, <2>6, <4>2 DEF BoxInv, Ring, NEVER
      <4> QED BY <4>1, <4>3
    <3> QED BY <3>2, <3>3
  <2>7. Ring'
    BY <2>0, <2>2, <2>5, <2>6 DEF Ring
  <2>8. Copied' /\ SnapshotsWhole'
    BY <2>0 DEF BoxInv, Copied, SnapshotsWhole
  <2> QED BY <2>4, <2>7, <2>8 DEF BoxInv
<1>2. CASE Flush
  <2>0. /\ node = "put" /\ write_index' = write_index + 1 /\ header' = write_index'
        /\ node' \in {"idle", "tick"} /\ UNCHANGED <<slots, tmp, files, second, cut>>
    BY <1>2 DEF Flush
  <2>1. PICK h \in Nat : h = header /\ h = write_index /\ header' = h + 1
    BY <2>0 DEF BoxInv, BoxTypes
  <2>2. BoxTypes'
    BY <2>0, <2>1 DEF BoxInv, BoxTypes
  <2>3. ASSUME NEW i \in 0 .. h, h + 1 <= i + CAPACITY PROVE slots[i % CAPACITY] = i
    <3>1. CASE i = h
      BY <2>0, <2>1, <3>1 DEF BoxInv, Ring
    <3>2. CASE i < h
      <4>1. i \in 0 .. h - 1 /\ h <= i + CAPACITY /\ h # i + CAPACITY /\ h # NEVER
        BY <1>0, <2>3, <3>2 DEF NEVER
      <4> QED BY <2>1, <4>1 DEF BoxInv, Ring
    <3> QED BY <3>1, <3>2
  <2>4. Ring'
    <3>1. 0 .. header' - 1 = 0 .. h
      BY <2>1
    <3> QED BY <2>0, <2>1, <2>3, <3>1 DEF Ring
  <2>5. Copied' /\ SnapshotsWhole'
    BY <2>0 DEF BoxInv, Copied, SnapshotsWhole
  <2> QED BY <2>2, <2>4, <2>5 DEF BoxInv
<1> QED BY <1>1, <1>2

(* on_safety's snapshot: it is opened, written record by record, and named *)
LEMMA SnapshotSteps ==
  BoxInv /\ ((\E latched \in BOOLEAN : Safety(latched)) \/ WriteSnapshot \/ Replace \/ Fail)
    => BoxInv'
<1> SUFFICES ASSUME BoxInv,
                    (\E latched \in BOOLEAN : Safety(latched)) \/ WriteSnapshot \/ Replace \/ Fail
             PROVE  BoxInv'
  OBVIOUS
<1>0. /\ slots' = slots /\ header' = header /\ write_index' = write_index
      /\ second' = second /\ cut' = cut /\ node' # "put" /\ node # "put" /\ node # "down"
      /\ node' \in {"idle", "snapshot"}
  BY DEF Safety, WriteSnapshot, Replace, Fail
<1>1. Ring'
  BY <1>0, RingStays DEF BoxInv
<1>2. PICK h \in Nat : h = write_index /\ h = header
  BY <1>0 DEF BoxInv, BoxTypes
<1>3. Records(write_index)' = Records(h) /\ Records(write_index) = Records(h)
  BY <1>0, <1>2 DEF Records
<1>9. Records(h) \in Seq(Int)
  BY RecordsRead DEF BoxInv
<1>4. PICK n \in Nat : n = Len(Records(h)) /\ \A k \in 1 .. n : Records(h)[k] \in Int
  BY <1>9, ElementOfSeq, LenProperties
<1>5. CASE \E latched \in BOOLEAN : Safety(latched)
  <2>0. /\ files' = files
        /\ \/ node' = "snapshot" /\ tmp' = [at |-> second, n |-> n, recs |-> <<>>]
           \/ node' # "snapshot" /\ tmp' = tmp
    BY <1>3, <1>4, <1>5 DEF Safety
  <2>4. tmp' \in [at : Nat, n : Nat, recs : Seq(Int)]
    <3>1. second \in Nat /\ tmp \in [at : Nat, n : Nat, recs : Seq(Int)]
      BY DEF BoxInv, BoxTypes
    <3>2. [at |-> second, n |-> n, recs |-> <<>>] \in [at : Nat, n : Nat, recs : Seq(Int)]
      BY <3>1, EmptySeq
    <3> QED BY Zenon, <2>0, <3>1, <3>2
  <2>1. BoxTypes'
    BY <1>0, <2>0, <2>4 DEF BoxInv, BoxTypes
  <2>2. Copied'
    <3>1. ASSUME tmp' = [at |-> second, n |-> n, recs |-> <<>>] PROVE Copied'
      BY <1>3, <1>4, <3>1, EmptySeq DEF Copied
    <3> QED BY <2>0, <3>1 DEF Copied
  <2>3. SnapshotsWhole'
    BY <2>0 DEF BoxInv, SnapshotsWhole
  <2> QED BY <1>1, <2>1, <2>2, <2>3 DEF BoxInv
<1>6. CASE WriteSnapshot
  <2>0. /\ node = "snapshot" /\ node' = "snapshot" /\ files' = files
        /\ Len(tmp.recs) < tmp.n
        /\ tmp' = [tmp EXCEPT !.recs = Append(@, Records(write_index)[Len(@) + 1])]
    BY <1>6 DEF WriteSnapshot
  <2>1. PICK recs \in Seq(Int), m \in Nat :
          recs = tmp.recs /\ m = Len(recs) /\ tmp.n = n /\ m < n
    <3>1. tmp.n = n
      BY <1>3, <1>4, <2>0 DEF BoxInv, Copied
    <3>2. tmp.recs \in Seq(Int) /\ Len(tmp.recs) \in Nat
      BY LenProperties DEF BoxInv, BoxTypes
    <3> QED BY <2>0, <3>1, <3>2
  <2>2. PICK r \in Int : r = Records(h)[m + 1]
    BY <1>4, <2>1
  <2>3. /\ Append(recs, r) \in Seq(Int) /\ Len(Append(recs, r)) = m + 1
        /\ Append(recs, r)[m + 1] = r
        /\ \A k \in 1 .. m : Append(recs, r)[k] = recs[k]
    BY <2>1, AppendProperties
  <2>4. tmp'.recs = Append(recs, r) /\ tmp'.n = n /\ tmp'.at = tmp.at
        /\ tmp' \in [at : Nat, n : Nat, recs : Seq(Int)]
    BY Zenon, <1>3, <2>0, <2>1, <2>2, <2>3 DEF BoxInv, BoxTypes
  <2>5. BoxTypes'
    BY SMTT(30), <1>0, <2>0, <2>4 DEF BoxInv, BoxTypes
  <2>6. \A k \in 1 .. m : recs[k] = Records(h)[k]
    BY <1>3, <2>0, <2>1 DEF BoxInv, Copied
  <2>7. \A k \in 1 .. m + 1 : Append(recs, r)[k] = Records(h)[k]
    BY <2>1, <2>2, <2>3, <2>6
  <2>8. Copied'
    <3>1. Len(tmp'.recs) = m + 1 /\ m + 1 <= n
      BY <2>1, <2>3, <2>4
    <3>2. tmp'.n = Len(Records(write_index)')
      BY <1>3, <1>4, <2>4
    <3>3. \A k \in 1 .. Len(tmp'.recs) : tmp'.recs[k] = Records(write_index)'[k]
      BY SMTT(30), <1>3, <2>4, <2>7, <3>1
    <3> QED BY <2>4, <3>1, <3>2, <3>3 DEF Copied
  <2>9. SnapshotsWhole'
    BY <2>0 DEF BoxInv, SnapshotsWhole
  <2> QED BY <1>1, <2>5, <2>8, <2>9 DEF BoxInv
<1>7. CASE Replace
  <2>0. /\ node = "snapshot" /\ node' = "idle" /\ tmp' = NoTmp /\ Len(tmp.recs) = tmp.n
        /\ files' = [files EXCEPT ![tmp.at] = [n |-> tmp.n, recs |-> tmp.recs]]
    BY <1>7 DEF Replace
  <2>1. NoTmp \in [at : Nat, n : Nat, recs : Seq(Int)]
    BY EmptySeq DEF NoTmp
  <2>2. [n |-> tmp.n, recs |-> tmp.recs] \in [n : Nat, recs : Seq(Int)]
    BY DEF BoxInv, BoxTypes
  <2>3. BoxTypes'
    BY Zenon, <1>0, <2>0, <2>1, <2>2 DEF BoxInv, BoxTypes
  <2>4. Copied'
    BY <2>0 DEF Copied
  <2>5. Following(tmp.recs)
    BY <2>0, CopyFollows DEF BoxInv
  <2>6. ASSUME NEW s \in DOMAIN files'
        PROVE  Len(files'[s].recs) = files'[s].n /\ Following(files'[s].recs)
    <3>1. s \in DOMAIN files
      BY <2>0 DEF BoxInv, BoxTypes
    <3>2. Len(files[s].recs) = files[s].n /\ Following(files[s].recs)
      BY <3>1 DEF BoxInv, SnapshotsWhole, Following
    <3>3. files'[s] = IF s = tmp.at THEN [n |-> tmp.n, recs |-> tmp.recs] ELSE files[s]
      BY <2>0, <3>1 DEF BoxInv, BoxTypes
    <3> QED BY <2>0, <2>5, <3>2, <3>3
  <2>7. SnapshotsWhole'
    BY <2>6 DEF SnapshotsWhole, Following
  <2> QED BY <1>1, <2>3, <2>4, <2>7 DEF BoxInv
<1>8. CASE Fail
  <2>0. node' = "idle" /\ tmp' = NoTmp /\ files' = files
    BY <1>8 DEF Fail
  <2>1. BoxTypes'
    BY <1>0, <2>0, EmptySeq DEF BoxInv, BoxTypes, NoTmp
  <2>2. Copied' /\ SnapshotsWhole'
    BY <2>0 DEF BoxInv, Copied, SnapshotsWhole
  <2> QED BY <1>1, <2>1, <2>2 DEF BoxInv
<1> QED BY <1>5, <1>6, <1>7, <1>8

(* Messages, the timer and the clock touch neither ring nor snapshots *)
LEMMA QuietSteps ==
  BoxInv /\ ((\E code \in TOPICS : Message(code)) \/ Tick \/ Second \/ UNCHANGED box) => BoxInv'
<1> SUFFICES ASSUME BoxInv,
                    (\E code \in TOPICS : Message(code)) \/ Tick \/ Second \/ UNCHANGED box
             PROVE  BoxInv'
  OBVIOUS
<1>0. /\ slots' = slots /\ header' = header /\ write_index' = write_index /\ tmp' = tmp
      /\ files' = files /\ cut' = cut
      /\ node' = node \/ (node = "idle" /\ node' = "tick")
  BY DEF Message, Tick, Second, box
<1>1. second' \in Nat
  BY DEF Message, Tick, Second, box, BoxInv, BoxTypes
<1>2. BoxTypes'
  BY <1>0, <1>1 DEF BoxInv, BoxTypes
<1>3. Ring'
  BY <1>0, RingStays DEF BoxInv
<1>4. Copied'
  <2>1. Records(write_index)' = Records(write_index)
    BY <1>0 DEF Records
  <2> QED BY <1>0, <2>1 DEF BoxInv, Copied
<1>5. SnapshotsWhole'
  BY <1>0 DEF BoxInv, SnapshotsWhole
<1> QED BY <1>2, <1>3, <1>4, <1>5 DEF BoxInv

(* What BoxReads says follows from the invariant *)
LEMMA BoxIsRead == BoxInv => BoxReads
<1> SUFFICES ASSUME BoxInv PROVE BoxReads
  OBVIOUS
<1>1. ASSUME header # NEVER, NEW k \in DOMAIN Records(header)
      PROVE  \/ Records(header)[k] = header - Len(Records(header)) + k - 1
             \/ k = 1 /\ Records(header)[k] = header /\ (cut \/ node = "put")
  <2>1. header \in Nat
    BY <1>1 DEF BoxInv, BoxTypes
  <2>3. Records(header) \in Seq(Int)
    BY <2>1, RecordsRead DEF BoxInv
  <2>2. k \in 1 .. Len(Records(header))
    BY <1>1, <2>3, LenProperties
  <2> QED BY <2>1, <2>2, ReadInOrder DEF BoxInv
<1>2. RingReads
  BY <1>1 DEF RingReads
<1> QED BY <1>2 DEF BoxInv, BoxReads

(* Whenever the recorder dies, a restart reads the latest records in the order they
   were put, but perhaps for the oldest of a full ring, and every snapshot under its
   final name is whole: for a ring of any capacity. *)
THEOREM BoxReadsHolds == BoxSpec => []BoxReads
<1>1. BoxInv /\ [BoxNext]_box => BoxInv'
  BY LifeSteps, AppendSteps, SnapshotSteps, QuietSteps DEF BoxNext
<1> QED BY BoxBegins, <1>1, BoxIsRead, PTL DEF BoxSpec
=============================================================================
