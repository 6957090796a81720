---------------------------- MODULE BridgeProofs ----------------------------
(***************************************************************************)
(* Proofs about the transport thread's queue, for every frame size, number *)
(* of repeats, burst and range of the sequence number.                     *)
(***************************************************************************)
EXTENDS Bridge, FiniteSetTheorems, TLAPS

-----------------------------------------------------------------------------
(* Sequences *)

(* A queue is a function on the numbers up to its length *)
LEMMA SeqLength ==
  ASSUME NEW S, NEW s \in Seq(S)
  PROVE  Len(s) \in Nat /\ s \in [1 .. Len(s) -> S] /\ DOMAIN s = 1 .. Len(s)
OBVIOUS

(* Only the empty queue has length 0 *)
LEMMA NoItems ==
  ASSUME NEW S
  PROVE  <<>> \in Seq(S) /\ Len(<<>>) = 0 /\ \A s \in Seq(S) : s # <<>> => Len(s) \in Nat \ {0}
OBVIOUS

(* Queues with the same items are the same *)
LEMMA SameItems ==
  ASSUME NEW S, NEW s \in Seq(S), NEW t \in Seq(S), Len(s) = Len(t),
         \A i \in 1 .. Len(s) : s[i] = t[i]
  PROVE  s = t
OBVIOUS

(* One queue after the other *)
LEMMA Joined ==
  ASSUME NEW S, NEW s \in Seq(S), NEW t \in Seq(S)
  PROVE  /\ s \o t \in Seq(S) /\ Len(s \o t) = Len(s) + Len(t)
         /\ \A i \in 1 .. Len(s) + Len(t) :
              (s \o t)[i] = IF i <= Len(s) THEN s[i] ELSE t[i - Len(s)]
OBVIOUS

(* An empty queue adds nothing *)
LEMMA JoinedNone == ASSUME NEW S, NEW s \in Seq(S) PROVE s \o <<>> = s /\ <<>> \o s = s
OBVIOUS

(* One more item at the end *)
LEMMA OneMore ==
  ASSUME NEW S, NEW s \in Seq(S), NEW e \in S
  PROVE  /\ Append(s, e) \in Seq(S) /\ Append(s, e) # <<>> /\ Len(Append(s, e)) = Len(s) + 1
         /\ \A i \in 1 .. Len(s) : Append(s, e)[i] = s[i]
         /\ Append(s, e)[Len(s) + 1] = e /\ Append(s, e) = s \o <<e>>
OBVIOUS

(* Three queues after one another, joined in either order *)
LEMMA JoinedAgain ==
  ASSUME NEW S, NEW s \in Seq(S), NEW t \in Seq(S), NEW u \in Seq(S)
  PROVE  (s \o t) \o u = s \o (t \o u)
<1>1. /\ s \o t \in Seq(S) /\ t \o u \in Seq(S)
      /\ (s \o t) \o u \in Seq(S) /\ s \o (t \o u) \in Seq(S)
  BY Joined
<1>2. \A i \in 1 .. Len((s \o t) \o u) : ((s \o t) \o u)[i] = (s \o (t \o u))[i]
  OBVIOUS
<1>3. Len((s \o t) \o u) = Len(s \o (t \o u))
  OBVIOUS
<1> QED BY SMTT(30), <1>1, <1>2, <1>3, SameItems

(* What follows the same queue in the same queue is the same *)
LEMMA CutLeft ==
  ASSUME NEW S, NEW s \in Seq(S), NEW t \in Seq(S), NEW u \in Seq(S), s \o t = s \o u
  PROVE  t = u
<1>1. Len(t) = Len(u) /\ Len(s) \in Nat /\ Len(t) \in Nat
  OBVIOUS
<1>2. ASSUME NEW i \in 1 .. Len(t) PROVE t[i] = u[i]
  <2>1. (s \o t)[Len(s) + i] = t[i]
    BY <1>1
  <2>2. (s \o u)[Len(s) + i] = u[i]
    BY <1>1
  <2> QED BY <2>1, <2>2
<1> QED BY <1>1, <1>2, SameItems

(* The items of a queue from one place to another *)
LEMMA Part ==
  ASSUME NEW S, NEW s \in Seq(S), NEW m \in 1 .. Len(s) + 1, NEW k \in m - 1 .. Len(s)
  PROVE  /\ SubSeq(s, m, k) \in Seq(S) /\ Len(SubSeq(s, m, k)) = k - m + 1
         /\ \A i \in 1 .. k - m + 1 : SubSeq(s, m, k)[i] = s[m + i - 1]
OBVIOUS

(* None of them *)
LEMMA NoPart ==
  ASSUME NEW S, NEW s \in Seq(S), NEW m \in Int, NEW k \in Int, k < m
  PROVE  SubSeq(s, m, k) = <<>>
OBVIOUS

(* All of them *)
LEMMA WholePart == ASSUME NEW S, NEW s \in Seq(S) PROVE SubSeq(s, 1, Len(s)) = s
<1>1. /\ SubSeq(s, 1, Len(s)) \in Seq(S) /\ Len(SubSeq(s, 1, Len(s))) = Len(s)
      /\ \A i \in 1 .. Len(s) : SubSeq(s, 1, Len(s))[i] = s[i]
  OBVIOUS
<1> QED BY <1>1, SameItems

(* A queue is its first items and the others *)
LEMMA PartsJoined ==
  ASSUME NEW S, NEW s \in Seq(S), NEW k \in 0 .. Len(s)
  PROVE  SubSeq(s, 1, k) \o SubSeq(s, k + 1, Len(s)) = s
<1>1. Len(s) \in Nat /\ k \in Nat /\ k <= Len(s)
  BY SeqLength
<1>2. /\ SubSeq(s, 1, k) \in Seq(S) /\ Len(SubSeq(s, 1, k)) = k
      /\ \A i \in 1 .. k : SubSeq(s, 1, k)[i] = s[i]
  BY <1>1
<1>3. /\ SubSeq(s, k + 1, Len(s)) \in Seq(S) /\ Len(SubSeq(s, k + 1, Len(s))) = Len(s) - k
      /\ \A i \in 1 .. Len(s) - k : SubSeq(s, k + 1, Len(s))[i] = s[k + i]
  BY <1>1
<1>4. PICK a \in Seq(S), b \in Seq(S) : a = SubSeq(s, 1, k) /\ b = SubSeq(s, k + 1, Len(s))
  BY <1>2, <1>3, Zenon
<1>5. /\ a \o b \in Seq(S) /\ Len(a \o b) = Len(a) + Len(b)
      /\ \A i \in 1 .. Len(a) + Len(b) :
           (a \o b)[i] = IF i <= Len(a) THEN a[i] ELSE b[i - Len(a)]
  BY Joined, Zenon
<1>6. Len(a) = k /\ Len(b) = Len(s) - k /\ Len(a) + Len(b) = Len(s)
  <2>1. Len(a) = k /\ Len(b) = Len(s) - k
    BY <1>2, <1>3, <1>4, Zenon
  <2> QED BY <1>1, <2>1
<1>7. ASSUME NEW i \in 1 .. Len(s) PROVE (a \o b)[i] = s[i]
  <2>1. CASE i <= k
    <3>1. i \in 1 .. k
      BY <1>1, <2>1
    <3> QED BY <1>2, <1>4, <1>5, <1>6, <2>1, <3>1, Zenon
  <2>2. CASE ~(i <= k)
    <3>1. i - k \in 1 .. Len(s) - k /\ k + (i - k) = i
      BY <1>1, <2>2
    <3>2. (a \o b)[i] = b[i - k]
      BY <1>5, <1>6, <2>2, Zenon
    <3>3. b[i - k] = s[k + (i - k)]
      BY <1>3, <1>4, <3>1, Zenon
    <3> QED BY <3>1, <3>2, <3>3
  <2> QED BY ZenonT(30), <2>1, <2>2
<1>8. a \o b = s
  BY ZenonT(30), <1>5, <1>6, <1>7, SameItems
<1> QED BY <1>4, <1>8, Zenon

(* The first items of two queues that are joined *)
LEMMA PartOfFirst ==
  ASSUME NEW S, NEW s \in Seq(S), NEW t \in Seq(S)
  PROVE  SubSeq(s \o t, 1, Len(s)) = s
<1>1. /\ SubSeq(s \o t, 1, Len(s)) \in Seq(S) /\ Len(SubSeq(s \o t, 1, Len(s))) = Len(s)
      /\ \A i \in 1 .. Len(s) : SubSeq(s \o t, 1, Len(s))[i] = s[i]
  OBVIOUS
<1> QED BY <1>1, SameItems

-----------------------------------------------------------------------------
(* Arithmetic of the sequence number *)

(* uint16_t: a number is a multiple of the range and a rest *)
LEMMA DivMod ==
  ASSUME NEW s \in Nat \ {0}, NEW a \in Nat
  PROVE  \E m \in Nat : a = s * m + (a % s) /\ a % s \in 0 .. s - 1
<1>1. a % s \in 0 .. s - 1 /\ a = s * (a \div s) + (a % s) /\ a \div s \in Nat
  OBVIOUS
<1> QED BY Zenon, <1>1

(* A multiple is no less than the range *)
LEMMA Multiple == ASSUME NEW s \in Nat \ {0}, NEW d \in Nat \ {0} PROVE s * d >= s
<1>1. PICK e \in Nat : d = e + 1
  BY d - 1 \in Nat
<1>2. s * d = s * e + s /\ s * e \in Nat
  BY <1>1
<1> QED BY <1>2

(* ... so that the rest is one only *)
LEMMA OneRest ==
  ASSUME NEW s \in Nat \ {0}, NEW k \in Nat, NEW m \in Nat, k > m,
         NEW r \in 0 .. s - 1, NEW t \in 0 .. s - 1
  PROVE  s * k + r # s * m + t
<1>1. PICK d \in Nat \ {0} : k = m + d
  BY k - m \in Nat \ {0}
<1>2. s * k = s * m + s * d /\ s * d >= s
  BY <1>1, Multiple
<1>3. s * k \in Int /\ s * m \in Int /\ s * d \in Int
  OBVIOUS
<1> QED BY <1>2, <1>3

(* Counting on from a number that has wrapped comes to the same *)
LEMMA ModPlus ==
  ASSUME NEW s \in Nat \ {0}, NEW a \in Nat, NEW b \in Nat
  PROVE  ((a % s) + b) % s = (a + b) % s
<1>1. PICK k \in Nat, u \in 0 .. s - 1 : u = a % s /\ a = s * k + u
  BY Zenon, DivMod
<1>0. u + b \in Nat /\ a + b \in Nat
  OBVIOUS
<1>2. PICK m \in Nat, v \in 0 .. s - 1 : v = (u + b) % s /\ u + b = s * m + v
  <2>1. PICK c \in Nat : c = u + b
    BY <1>0
  <2>2. \E i \in Nat, r \in 0 .. s - 1 : r = c % s /\ c = s * i + r
    BY ZenonT(30), DivMod
  <2> QED BY Zenon, <2>1, <2>2
<1>3. PICK h \in Nat, w \in 0 .. s - 1 : w = (a + b) % s /\ a + b = s * h + w
  <2>1. PICK c \in Nat : c = a + b
    BY <1>0
  <2>2. \E i \in Nat, r \in 0 .. s - 1 : r = c % s /\ c = s * i + r
    BY ZenonT(30), DivMod
  <2> QED BY Zenon, <2>1, <2>2
<1>4. s * (k + m) = s * k + s * m /\ s * k \in Int /\ s * m \in Int /\ s * h \in Int
  OBVIOUS
<1>5. s * (k + m) + v = s * h + w
  <2> HIDE <1>1, <1>2
  <2>1. a = s * k + u /\ u + b = s * m + v /\ a + b = s * h + w
    BY <1>1, <1>2, <1>3
  <2> QED BY <1>4, <2>1
<1>6. v = w
  <2>1. CASE k + m > h
    BY <1>5, <2>1, OneRest, k + m \in Nat
  <2>2. CASE h > k + m
    BY <1>5, <2>2, OneRest, k + m \in Nat
  <2>3. CASE k + m = h
    BY <1>4, <1>5, <2>3
  <2> QED BY <2>1, <2>2, <2>3
<1> QED BY <1>1, <1>2, <1>3, <1>6

-----------------------------------------------------------------------------
(* Counting in a queue *)

Recs == [kind : Kinds, n : Nat]

(* A count is a number, ... *)
LEMMA UptoType ==
  ASSUME NEW q, NEW n \in Int, NEW R
  PROVE  IsFiniteSet({i \in 1 .. n : q[i] \in R}) /\ Upto(q, n, R) \in Nat
<1>1. IsFiniteSet(1 .. n)
  BY FS_Interval
<1>2. IsFiniteSet({i \in 1 .. n : q[i] \in R})
  BY <1>1, FS_Subset
<1> QED BY <1>2, FS_CardinalityType DEF Upto

(* ... none before the first record *)
LEMMA UptoZero == ASSUME NEW q, NEW R PROVE Upto(q, 0, R) = 0
<1>1. {i \in 1 .. 0 : q[i] \in R} = {}
  OBVIOUS
<1> QED BY <1>1, FS_EmptySet DEF Upto

(* ... of a whole queue as well *)
LEMMA CountType == ASSUME NEW q \in Seq(Recs), NEW R PROVE Count(q, R) \in Nat
<1>1. Len(q) \in Int
  OBVIOUS
<1> QED BY Zenon, <1>1, UptoType DEF Count

(* A queue without such a record counts none, one of nothing else all *)
LEMMA CountNone ==
  ASSUME NEW q \in Seq(Recs), NEW R, \A i \in 1 .. Len(q) : q[i] \notin R,
         NEW n \in 0 .. Len(q)
  PROVE  Upto(q, n, R) = 0 /\ Count(q, R) = 0
<1>1. {i \in 1 .. n : q[i] \in R} = {} /\ {i \in 1 .. Len(q) : q[i] \in R} = {}
  OBVIOUS
<1> QED BY Zenon, <1>1, FS_EmptySet DEF Upto, Count

(* The records of an engage are all of its own *)
LEMMA CountAll ==
  ASSUME NEW q \in Seq(Recs), NEW R, \A i \in 1 .. Len(q) : q[i] \in R
  PROVE  Count(q, R) = Len(q)
<1>1. {i \in 1 .. Len(q) : q[i] \in R} = 1 .. Len(q)
  OBVIOUS
<1>2. Len(q) \in Nat
  OBVIOUS
<1>3. Cardinality(1 .. Len(q)) = Len(q)
  BY SMTT(30), <1>2, FS_Interval
<1> QED BY Zenon, <1>1, <1>3 DEF Upto, Count

(* Of two queues in a row, the count is that of the first and on *)
LEMMA UptoConcat ==
  ASSUME NEW q \in Seq(Recs), NEW p \in Seq(Recs), NEW R, NEW n \in 0 .. Len(q) + Len(p)
  PROVE  Upto(q \o p, n, R) =
           IF n <= Len(q) THEN Upto(q, n, R) ELSE Count(q, R) + Upto(p, n - Len(q), R)
<1>0. Len(q) \in Nat /\ Len(p) \in Nat /\ n \in Nat
  OBVIOUS
<1>1. \A i \in 1 .. Len(q) + Len(p) :
        (q \o p)[i] = IF i <= Len(q) THEN q[i] ELSE p[i - Len(q)]
  BY Joined
<1>2. CASE n <= Len(q)
  <2>1. {i \in 1 .. n : (q \o p)[i] \in R} = {i \in 1 .. n : q[i] \in R}
    BY <1>0, <1>1, <1>2
  <2> QED BY Zenon, <1>2, <2>1 DEF Upto
<1>3. CASE n > Len(q)
  <2> DEFINE A == {i \in 1 .. Len(q) : q[i] \in R}
             B == {i \in 1 .. n - Len(q) : p[i] \in R}
             C == {i \in Len(q) + 1 .. n : p[i - Len(q)] \in R}
             f == [i \in B |-> i + Len(q)]
  <2>1. {i \in 1 .. n : (q \o p)[i] \in R} = A \cup C
    BY <1>0, <1>1, <1>3
  <2>2. A \cap C = {}
    BY <1>0
  <2>3. IsFiniteSet(A) /\ IsFiniteSet(B)
    <3>1. Len(q) \in Int /\ n - Len(q) \in Int
      BY <1>0
    <3> QED BY Zenon, <3>1, UptoType
  <2>4. f \in Bijection(B, C)
    <3>1. f \in [B -> C]
      BY <1>0
    <3>2. \A a, b \in B : f[a] = f[b] => a = b
      BY <1>0
    <3>3. \A c \in C : \E b \in B : f[b] = c
      <4> SUFFICES ASSUME NEW c \in C PROVE \E b \in B : f[b] = c
        OBVIOUS
      <4>1. c - Len(q) \in B /\ f[c - Len(q)] = c
        BY <1>0
      <4> QED BY <4>1
    <3> QED BY <3>1, <3>2, <3>3 DEF Bijection, Injection, Surjection, IsInjective
  <2>5. IsFiniteSet(C) /\ Cardinality(C) = Cardinality(B)
    BY <2>3, <2>4, FS_Bijection DEF ExistsBijection
  <2>6. Cardinality(A \cup C) = Cardinality(A) + Cardinality(C) - Cardinality({})
    <3> HIDE DEF A, B, C, f
    <3> QED BY <2>2, <2>3, <2>5, FS_Union
  <2>7. Cardinality(A) \in Nat /\ Cardinality(C) \in Nat
    BY <2>3, <2>5, FS_CardinalityType
  <2>8. Cardinality(A \cup C) = Cardinality(A) + Cardinality(B)
    <3> HIDE DEF A, B, C, f
    <3> QED BY <2>5, <2>6, <2>7, FS_EmptySet
  <2>9. /\ Upto(q \o p, n, R) = Cardinality(A \cup C) /\ Count(q, R) = Cardinality(A)
        /\ Upto(p, n - Len(q), R) = Cardinality(B)
    BY Zenon, <2>1 DEF Upto, Count
  <2> HIDE DEF A, B, C, f
  <2> QED BY <1>0, <1>3, <2>8, <2>9
<1> QED BY <1>0, <1>2, <1>3

(* ... and of both, the sum *)
LEMMA CountConcat ==
  ASSUME NEW q \in Seq(Recs), NEW p \in Seq(Recs), NEW R
  PROVE  Count(q \o p, R) = Count(q, R) + Count(p, R)
<1>0. Len(q) \in Nat /\ Len(p) \in Nat
  OBVIOUS
<1>1. Len(q \o p) = Len(q) + Len(p)
  BY Joined
<1>2. CASE Len(p) = 0
  <2>1. Upto(q \o p, Len(q), R) = Upto(q, Len(q), R)
    BY <1>0, UptoConcat
  <2>2. Upto(q, Len(q), R) \in Nat /\ Upto(p, 0, R) = 0
    BY CountType, UptoZero DEF Count
  <2> QED BY <1>0, <1>1, <1>2, <2>1, <2>2 DEF Count
<1>3. CASE Len(p) > 0
  <2>1. Upto(q \o p, Len(q) + Len(p), R) = Count(q, R) + Upto(p, Len(p), R)
    BY <1>0, <1>3, UptoConcat
  <2> QED BY <1>1, <2>1 DEF Count
<1> QED BY <1>0, <1>2, <1>3

(* What drain takes and what it leaves are the queue *)
LEMMA DrainRest ==
  ASSUME NEW q \in Seq(Recs)
  PROVE  /\ drain(q) \in Seq(Recs) /\ Rest(q) \in Seq(Recs) /\ q = drain(q) \o Rest(q)
         /\ Len(drain(q)) = Smaller(Len(q), SPI_MAX_RECORDS)
         /\ Len(q) <= SPI_MAX_RECORDS => drain(q) = q /\ Rest(q) = <<>>
         /\ Len(Rest(q)) = Len(q) - Len(drain(q))
<1>0. SPI_MAX_RECORDS \in Nat \ {0} /\ Len(q) \in Nat
  BY BridgeAssumption DEF BridgeAssumption
<1>1. CASE Len(q) <= SPI_MAX_RECORDS
  <2>1. drain(q) = SubSeq(q, 1, Len(q)) /\ Smaller(Len(q), SPI_MAX_RECORDS) = Len(q)
    BY <1>0, <1>1 DEF drain, Smaller
  <2>2. drain(q) = q
    BY <2>1, WholePart
  <2>3. Rest(q) = <<>>
    BY <1>0, <1>1, NoPart DEF Rest
  <2>4. q = q \o <<>> /\ <<>> \in Seq(Recs) /\ Len(<<>>) = 0
    BY JoinedNone, NoItems
  <2> QED BY <1>0, <2>1, <2>2, <2>3, <2>4
<1>2. CASE Len(q) > SPI_MAX_RECORDS
  <2>1. drain(q) = SubSeq(q, 1, SPI_MAX_RECORDS)
    BY <1>0, <1>2 DEF drain, Smaller
  <2>2. /\ drain(q) \in Seq(Recs) /\ Len(drain(q)) = SPI_MAX_RECORDS
    <3>1. 1 \in 1 .. Len(q) + 1 /\ SPI_MAX_RECORDS \in 1 - 1 .. Len(q)
      BY <1>0, <1>2
    <3>2. SubSeq(q, 1, SPI_MAX_RECORDS) \in Seq(Recs)
          /\ Len(SubSeq(q, 1, SPI_MAX_RECORDS)) = SPI_MAX_RECORDS - 1 + 1
      BY <3>1, Part, Zenon
    <3> QED BY <1>0, <2>1, <3>2
  <2>3. Rest(q) \in Seq(Recs) /\ Len(Rest(q)) = Len(q) - SPI_MAX_RECORDS
    <3>1. SPI_MAX_RECORDS + 1 \in 1 .. Len(q) + 1 /\ Len(q) \in (SPI_MAX_RECORDS + 1) - 1 .. Len(q)
      BY <1>0, <1>2
    <3>2. Rest(q) \in Seq(Recs) /\ Len(Rest(q)) = Len(q) - (SPI_MAX_RECORDS + 1) + 1
      BY <3>1, Part, Zenon DEF Rest
    <3> QED BY <1>0, <3>2
  <2>4. SPI_MAX_RECORDS \in 0 .. Len(q)
    BY <1>0, <1>2
  <2>5. drain(q) \o Rest(q) = q
    BY Zenon, <2>1, <2>4, PartsJoined DEF Rest
  <2> QED BY <1>0, <1>2, <2>2, <2>3, <2>5 DEF Smaller
<1> QED BY <1>0, <1>1, <1>2

(* Copies of a record *)
LEMMA CopiesType ==
  ASSUME NEW c \in Recs, NEW n \in Nat
  PROVE  /\ Copies(c, n) \in Seq(Recs) /\ Len(Copies(c, n)) = n
         /\ \A i \in 1 .. n : Copies(c, n)[i] = c
BY DEF Copies

-----------------------------------------------------------------------------
(* Order in a queue *)

(* The numbers of the beats go on from one queue to the next *)
LEMMA NumberedConcat ==
  ASSUME NEW q \in Seq(Recs), NEW p \in Seq(Recs), NEW b \in Nat
  PROVE  Numbered(q \o p, b) <=> Numbered(q, b) /\ Numbered(p, b + Count(q, Beat))
<1>0. Len(q) \in Nat /\ Len(p) \in Nat /\ Len(q \o p) = Len(q) + Len(p)
  BY Joined
<1>1. \A i \in 1 .. Len(q) + Len(p) :
        (q \o p)[i] = IF i <= Len(q) THEN q[i] ELSE p[i - Len(q)]
  BY Joined
<1>2. ASSUME NEW i \in 1 .. Len(q)
      PROVE  (q \o p)[i] = q[i] /\ Upto(q \o p, i - 1, Beat) = Upto(q, i - 1, Beat)
  <2>1. i - 1 \in 0 .. Len(q) + Len(p) /\ i - 1 <= Len(q)
    BY <1>0
  <2> QED BY <1>0, <1>1, <2>1, UptoConcat
<1>3. ASSUME NEW i \in 1 .. Len(p)
      PROVE  /\ (q \o p)[Len(q) + i] = p[i]
             /\ Upto(q \o p, Len(q) + i - 1, Beat) = Count(q, Beat) + Upto(p, i - 1, Beat)
  <2>1. (q \o p)[Len(q) + i] = p[i]
    BY <1>0, <1>1
  <2>2. CASE i = 1
    <3>1. Upto(q \o p, Len(q), Beat) = Upto(q, Len(q), Beat)
      BY <1>0, UptoConcat
    <3>2. Upto(q, Len(q), Beat) \in Nat /\ Upto(p, 0, Beat) = 0
      BY CountType, UptoZero DEF Count
    <3> QED BY <1>0, <2>1, <2>2, <3>1, <3>2 DEF Count
  <2>3. CASE i > 1
    <3>1. Len(q) + i - 1 \in 0 .. Len(q) + Len(p) /\ Len(q) + i - 1 > Len(q)
          /\ Len(q) + i - 1 - Len(q) = i - 1
      BY <1>0, <2>3
    <3> QED BY <1>0, <2>1, <3>1, UptoConcat
  <2> QED BY <2>2, <2>3
<1>4. Count(q, Beat) \in Nat /\ \A i \in 1 .. Len(p) : Upto(p, i - 1, Beat) \in Nat
  <2>1. ASSUME NEW i \in 1 .. Len(p) PROVE Upto(p, i - 1, Beat) \in Nat
    <3>1. i - 1 \in Int
      OBVIOUS
    <3> QED BY Zenon, <3>1, UptoType
  <2> QED BY <2>1, CountType
<1>5. ASSUME Numbered(q \o p, b)
      PROVE  Numbered(q, b) /\ Numbered(p, b + Count(q, Beat))
  <2>1. ASSUME NEW i \in 1 .. Len(q), q[i] \in Beat
        PROVE  q[i].n = (b + Upto(q, i - 1, Beat)) % SEQ
    BY SMTT(30), <1>0, <1>2, <1>5, <2>1 DEF Numbered
  <2>2. ASSUME NEW i \in 1 .. Len(p), p[i] \in Beat
        PROVE  p[i].n = (b + Count(q, Beat) + Upto(p, i - 1, Beat)) % SEQ
    <3>1. Len(q) + i \in 1 .. Len(q \o p)
      BY <1>0
    <3>2. p[i].n = (b + Upto(q \o p, Len(q) + i - 1, Beat)) % SEQ
      <4>1. \A k \in 1 .. Len(q \o p) : (q \o p)[k] \in Beat =>
              (q \o p)[k].n = (b + Upto(q \o p, k - 1, Beat)) % SEQ
        BY <1>5 DEF Numbered
      <4>2. PICK k \in 1 .. Len(q \o p) : k = Len(q) + i
        BY <3>1
      <4>3. (q \o p)[k] = p[i] /\ k - 1 = Len(q) + i - 1
        BY <1>0, <1>3, <4>2
      <4> QED BY <2>2, <4>1, <4>3
    <3>3. b + (Count(q, Beat) + Upto(p, i - 1, Beat)) = b + Count(q, Beat) + Upto(p, i - 1, Beat)
      BY <1>4
    <3> QED BY <1>3, <3>2, <3>3
  <2> QED BY <2>1, <2>2 DEF Numbered
<1>6. ASSUME Numbered(q, b), Numbered(p, b + Count(q, Beat))
      PROVE  Numbered(q \o p, b)
  <2> SUFFICES ASSUME NEW i \in 1 .. Len(q \o p), (q \o p)[i] \in Beat
               PROVE  (q \o p)[i].n = (b + Upto(q \o p, i - 1, Beat)) % SEQ
    BY DEF Numbered
  <2>1. CASE i <= Len(q)
    BY <1>0, <1>2, <1>6, <2>1 DEF Numbered
  <2>2. CASE i > Len(q)
    <3>1. PICK k \in 1 .. Len(p) : i = Len(q) + k
      <4>1. i - Len(q) \in 1 .. Len(p) /\ i = Len(q) + (i - Len(q))
        BY <1>0, <2>2
      <4> QED BY <4>1
    <3>2. p[k].n = (b + Count(q, Beat) + Upto(p, k - 1, Beat)) % SEQ
      BY Zenon, <1>3, <1>6, <3>1 DEF Numbered
    <3>3. b + (Count(q, Beat) + Upto(p, k - 1, Beat)) = b + Count(q, Beat) + Upto(p, k - 1, Beat)
      BY <1>4
    <3> QED BY <1>3, <3>1, <3>2, <3>3
  <2> QED BY <1>0, <2>1, <2>2
<1> QED BY <1>5, <1>6

(* Only the rest of the base counts *)
LEMMA NumberedMod ==
  ASSUME NEW q \in Seq(Recs), NEW b \in Nat, SEQ \in Nat \ {0}
  PROVE  Numbered(q, b % SEQ) <=> Numbered(q, b)
<1>1. ASSUME NEW i \in 1 .. Len(q)
      PROVE  ((b % SEQ) + Upto(q, i - 1, Beat)) % SEQ = (b + Upto(q, i - 1, Beat)) % SEQ
  <2>1. Upto(q, i - 1, Beat) \in Nat
    <3>1. i - 1 \in Int
      OBVIOUS
    <3> QED BY Zenon, <3>1, UptoType
  <2> QED BY Zenon, <2>1, ModPlus
<1> QED BY Zenon, <1>1 DEF Numbered

(* A queue without beats is numbered from anywhere *)
LEMMA NumberedNone ==
  ASSUME NEW q \in Seq(Recs), NEW b \in Nat, \A i \in 1 .. Len(q) : q[i] \notin Beat
  PROVE  Numbered(q, b)
BY DEF Numbered

(* Two queues in order, the words of the first before those of the second *)
LEMMA FifoConcat ==
  ASSUME NEW q \in Seq(Recs), NEW p \in Seq(Recs)
  PROVE  Fifo(q \o p) <=>
           /\ Fifo(q) /\ Fifo(p)
           /\ \A i \in 1 .. Len(q), k \in 1 .. Len(p) :
                 q[i] \in Word /\ p[k] \in Word => q[i].n <= p[k].n
<1>0. Len(q) \in Nat /\ Len(p) \in Nat /\ Len(q \o p) = Len(q) + Len(p)
  BY Joined
<1>1. \A i \in 1 .. Len(q) : i \in 1 .. Len(q \o p) /\ (q \o p)[i] = q[i]
  BY <1>0, Joined
<1>2. \A i \in 1 .. Len(p) : Len(q) + i \in 1 .. Len(q \o p) /\ (q \o p)[Len(q) + i] = p[i]
  BY <1>0, Joined
<1>3. \A i \in 1 .. Len(q \o p) : i \in 1 .. Len(q) \/ \E k \in 1 .. Len(p) : i = Len(q) + k
  <2> SUFFICES ASSUME NEW i \in 1 .. Len(q \o p), i > Len(q)
               PROVE  \E k \in 1 .. Len(p) : i = Len(q) + k
    BY SMTT(30), <1>0
  <2>1. i - Len(q) \in 1 .. Len(p) /\ i = Len(q) + (i - Len(q))
    BY <1>0
  <2> QED BY <2>1
<1>4. ASSUME Fifo(q \o p)
      PROVE  /\ Fifo(q) /\ Fifo(p)
             /\ \A i \in 1 .. Len(q), k \in 1 .. Len(p) :
                   q[i] \in Word /\ p[k] \in Word => q[i].n <= p[k].n
  <2>1. Fifo(q)
    BY <1>1, <1>4 DEF Fifo
  <2>2. Fifo(p)
    <3> SUFFICES ASSUME NEW i \in 1 .. Len(p), NEW k \in 1 .. Len(p), i < k,
                        p[i] \in Word, p[k] \in Word
                 PROVE  p[i].n <= p[k].n
      BY DEF Fifo
    <3>1. Len(q) + i < Len(q) + k
      BY <1>0
    <3> QED BY Zenon, <1>2, <1>4, <3>1 DEF Fifo
  <2>3. ASSUME NEW i \in 1 .. Len(q), NEW k \in 1 .. Len(p), q[i] \in Word, p[k] \in Word
        PROVE  q[i].n <= p[k].n
    <3>1. i < Len(q) + k
      BY <1>0
    <3> QED BY SMTT(30), <1>1, <1>2, <1>4, <2>3, <3>1 DEF Fifo
  <2> QED BY <2>1, <2>2, <2>3
<1>5. ASSUME Fifo(q), Fifo(p),
             \A i \in 1 .. Len(q), k \in 1 .. Len(p) :
               q[i] \in Word /\ p[k] \in Word => q[i].n <= p[k].n
      PROVE  Fifo(q \o p)
  <2> SUFFICES ASSUME NEW i \in 1 .. Len(q \o p), NEW k \in 1 .. Len(q \o p), i < k,
                      (q \o p)[i] \in Word, (q \o p)[k] \in Word
               PROVE  (q \o p)[i].n <= (q \o p)[k].n
    BY DEF Fifo
  <2>1. CASE k \in 1 .. Len(q)
    <3>1. i \in 1 .. Len(q)
      BY <1>0, <2>1
    <3> QED BY <1>1, <1>5, <2>1, <3>1 DEF Fifo
  <2>2. ASSUME NEW m \in 1 .. Len(p), k = Len(q) + m PROVE (q \o p)[i].n <= (q \o p)[k].n
    <3>1. CASE i \in 1 .. Len(q)
      BY <1>1, <1>2, <1>5, <2>2, <3>1
    <3>2. ASSUME NEW h \in 1 .. Len(p), i = Len(q) + h PROVE (q \o p)[i].n <= (q \o p)[k].n
      <4>1. h < m
        BY <1>0, <2>2, <3>2
      <4> QED BY <1>2, <1>5, <2>2, <3>2, <4>1 DEF Fifo
    <3> QED BY SMTT(30), <1>3, <3>1, <3>2
  <2> QED BY Zenon, <1>3, <2>1, <2>2
<1> QED BY <1>4, <1>5

-----------------------------------------------------------------------------
(* The inductive invariant *)

Types ==
  /\ outbound \in Seq(Recs) /\ batch \in Seq(Recs)
  /\ latched \in BOOLEAN /\ external \in BOOLEAN /\ ros_ok \in BOOLEAN
  /\ displaced \in BOOLEAN
  /\ call \in {"none", "engage", "clear"} /\ pc \in {"gather", "gate", "frame"}
  /\ ops \in 0 .. MAX_OPS /\ (call = "engage" => ops > 0)
  /\ since_good \in 0 .. HEALTHY /\ since_emit \in 0 .. PERIOD
  /\ seq \in 0 .. SEQ - 1 /\ next_beat \in 0 .. SEQ - 1
  /\ handed \in [1 .. MAX_OPS -> Nat]
  /\ pc = "gather" => batch = <<>>

(* No word is newer than the last call *)
Older(q) == \A i \in 1 .. Len(q) : q[i] \in Word => q[i].n <= ops
Words == Older(outbound) /\ Older(batch)

(* Of an engage, every record or none is accounted for, none before it queues them *)
Accounted ==
  \A n \in 1 .. MAX_OPS :
    LET e == {Record("estop", n)}
        total == Count(outbound, e) + Count(batch, e) + handed[n]
    IN  /\ total \in {0, ESTOP_REPEAT}
        /\ n > ops \/ (n = ops /\ call = "engage") => total = 0

(* In a cycle that gathered no more than a frame, only a beat overflows, and one
   that had room left no beat behind *)
Fits ==
  ~displaced =>
    /\ pc = "gate" =>
         /\ Len(batch) <= SPI_MAX_RECORDS
         /\ Len(batch) < SPI_MAX_RECORDS => \A i \in 1 .. Len(outbound) : outbound[i] \notin Beat
    /\ pc = "frame" => \A i \in 1 .. Len(Overflow) : Overflow[i] \in Beat

Inv == Types /\ Words /\ Accounted /\ Fits /\ BeatsInOrder /\ SafetyInOrder

(* The constants, one by one *)
LEMMA Constants ==
  /\ SPI_MAX_RECORDS \in Nat \ {0} /\ ESTOP_REPEAT \in Nat \ {0}
  /\ HEALTHY \in Nat \ {0} /\ PERIOD \in Nat \ {0} /\ SEQ \in Nat \ {0}
  /\ Bursts \subseteq Nat /\ MAX_OPS \in Nat
BY BridgeAssumption DEF BridgeAssumption

(* The kinds of records *)
LEMMA RecordKinds ==
  /\ Other \in Recs /\ Other \notin Beat /\ Other \notin Word
  /\ \A n, m \in Nat :
       /\ Record("estop", n) \in Recs /\ Record("estop", n) \in Word
       /\ Record("estop", n) \notin Beat /\ Record("estop", n).n = n
       /\ Record("clear", n) \in Recs /\ Record("clear", n) \in Word
       /\ Record("clear", n) \notin Beat /\ Record("clear", n).n = n
       /\ Record("beat", n) \in Recs /\ Record("beat", n) \notin Word
       /\ Record("beat", n) \in Beat /\ Record("beat", n).n = n
       /\ Other # Record("estop", n) /\ Record("clear", m) # Record("estop", n)
       /\ Record("beat", m) # Record("estop", n)
       /\ (Record("estop", n) = Record("estop", m) => n = m)
BY DEF Other, Record, Recs, Kinds, Beat, Word

(* Nothing queued, nothing handed over, a fresh HeartbeatEmitter *)
LEMMA InvInit == Init => Inv
<1> SUFFICES ASSUME Init PROVE Inv
  OBVIOUS
<1> USE Constants
<1>0. /\ outbound = <<>> /\ batch = <<>> /\ pc = "gather" /\ call = "none" /\ ops = 0
      /\ since_good = HEALTHY /\ since_emit = PERIOD /\ seq = 0 /\ next_beat = 0
      /\ handed = [n \in 1 .. MAX_OPS |-> 0] /\ Len(<<>>) = 0 /\ <<>> \in Seq(Recs)
  BY NoItems DEF Init
<1>1. Types
  <2>1. latched \in BOOLEAN /\ external \in BOOLEAN /\ ros_ok \in BOOLEAN /\ displaced \in BOOLEAN
    BY Zenon DEF Init
  <2> QED BY <1>0, <2>1 DEF Types
<1>2. Words /\ Fits
  BY <1>0 DEF Words, Older, Fits
<1>3. ASSUME NEW R PROVE Count(<<>>, R) = 0
  BY <1>0, UptoZero DEF Count
<1>4. Accounted
  BY <1>0, <1>3 DEF Accounted
<1>5. BeatsInOrder
  BY <1>0, <1>3 DEF BeatsInOrder, Numbered, InTransit
<1>6. SafetyInOrder
  BY <1>0 DEF SafetyInOrder, QueueIsFifo, InTransit, Fifo
<1> QED BY <1>1, <1>2, <1>4, <1>5, <1>6 DEF Inv

-----------------------------------------------------------------------------
(* What callbacks queue *)

(* A callback's records: no beats, and words of the latest call *)
Queued(s) ==
  /\ outbound' = outbound \o s
  /\ UNCHANGED <<pc, batch, seq, next_beat, displaced, handed>>
  /\ \A i \in 1 .. Len(s) : s[i] \notin Beat /\ (s[i] \in Word => s[i].n = ops')
  /\ ops' \in {ops, ops + 1}

(* An engage queues its records in its second step *)
QueuedWhole(s) ==
  /\ \A n \in 1 .. MAX_OPS : Count(s, {Record("estop", n)}) =
       IF n = ops /\ call = "engage" THEN ESTOP_REPEAT ELSE 0
  /\ call' = "engage" => ops' = ops + 1
  /\ call = "engage" => call' # "engage" /\ ops' = ops

(* Records that are no beats and no older than any word go to the back of the
   queue: what is under way stays in order, since only a beat is behind them *)
LEMMA QueuedInOrder ==
  ASSUME Inv, NEW s \in Seq(Recs), Queued(s)
  PROVE  /\ outbound' \in Seq(Recs) /\ Words' /\ Fits' /\ BeatsInOrder' /\ SafetyInOrder'
<1>10. /\ outbound' = outbound \o s /\ UNCHANGED <<pc, batch, seq, next_beat, displaced>>
      /\ \A i \in 1 .. Len(s) : s[i] \notin Beat /\ (s[i] \in Word => s[i].n = ops')
      /\ ops' \in Nat /\ ops <= ops'
  BY DEF Inv, Types, Queued
<1>11. ops \in Nat /\ ops' \in Nat /\ ops <= ops'
  <2>1. ops \in 0 .. MAX_OPS
    BY DEF Inv, Types
  <2>2. ops' \in {ops, ops + 1}
    BY DEF Queued
  <2> QED BY <2>1, <2>2
<1>12. ASSUME NEW v \in Nat, v <= ops PROVE v <= ops'
  BY <1>11, <1>12
<1> USE <1>10
<1> USE Constants
<1>0. outbound \in Seq(Recs) /\ batch \in Seq(Recs) /\ ops \in Nat /\ next_beat \in Nat
  BY DEF Inv, Types
<1>1. /\ outbound' \in Seq(Recs) /\ Len(outbound') = Len(outbound) + Len(s)
      /\ Len(outbound) \in Nat /\ Len(s) \in Nat
      /\ \A i \in 1 .. Len(outbound) + Len(s) :
            outbound'[i] = IF i <= Len(outbound) THEN outbound[i] ELSE s[i - Len(outbound)]
  BY <1>0, Joined
<1>2. \A i \in 1 .. Len(outbound') :
        \/ i \in 1 .. Len(outbound) /\ outbound'[i] = outbound[i]
        \/ i - Len(outbound) \in 1 .. Len(s) /\ outbound'[i] = s[i - Len(outbound)]
  BY <1>1
<1>3. Words'
  <2>1. ASSUME NEW i \in 1 .. Len(outbound'), outbound'[i] \in Word
        PROVE  outbound'[i].n <= ops'
    <3>1. CASE i \in 1 .. Len(outbound) /\ outbound'[i] = outbound[i]
      <4>1. PICK v \in Nat : v = outbound[i].n /\ v <= ops
        BY <2>1, <3>1 DEF Inv, Words, Older, Word
      <4>2. v <= ops'
        BY <1>12, <4>1
      <4> QED BY <3>1, <4>1, <4>2
    <3>2. CASE i - Len(outbound) \in 1 .. Len(s) /\ outbound'[i] = s[i - Len(outbound)]
      BY <2>1, <3>2
    <3> QED BY <1>2, <3>1, <3>2
  <2>2. ASSUME NEW i \in 1 .. Len(batch), batch[i] \in Word PROVE batch[i].n <= ops'
    <3>1. PICK v \in Nat : v = batch[i].n /\ v <= ops
      BY <2>2 DEF Inv, Words, Older, Word
    <3>2. v <= ops'
      BY <1>12, <3>1
    <3> QED BY <3>1, <3>2
  <2> QED BY <2>1, <2>2 DEF Words, Older
<1>4. Fits'
  <2>1. (\A i \in 1 .. Len(outbound) : outbound[i] \notin Beat)
          => \A i \in 1 .. Len(outbound') : outbound'[i] \notin Beat
    BY <1>2
  <2> QED BY Zenon, <2>1 DEF Inv, Fits, Overflow, Rest
<1>5. Frame \in Seq(Recs) /\ Overflow \in Seq(Recs)
  BY Zenon, <1>0, DrainRest DEF Frame, Overflow
<1>6. UNCHANGED <<Frame, Overflow>>
  BY DEF Frame, Overflow, drain, Rest
<1>7. ASSUME ~displaced, pc # "gather"
      PROVE  \A i \in 1 .. Len(Overflow) : Overflow[i] \in Beat
  <2>1. CASE pc = "gate"
    <3>1. Overflow = <<>>
      BY <1>0, <1>7, <2>1, DrainRest DEF Inv, Fits, Overflow
    <3> QED BY <3>1, NoItems
  <2>2. CASE pc = "frame"
    BY <1>7, <2>2 DEF Inv, Fits
  <2> QED BY <1>7, <2>1, <2>2 DEF Inv, Types
<1>8. BeatsInOrder'
  <2> SUFFICES ASSUME ~displaced
               PROVE  /\ Numbered(InTransit', next_beat)
                      /\ seq = (next_beat + Count(InTransit', Beat)) % SEQ
    BY DEF BeatsInOrder, Numbered
  <2>0. Numbered(InTransit, next_beat) /\ seq = (next_beat + Count(InTransit, Beat)) % SEQ
    BY DEF Inv, BeatsInOrder
  <2>1. \A b \in Nat : Numbered(s, b)
    BY NumberedNone
  <2>2. Count(s, Beat) = 0
    BY SMTT(30), 0 \in 0 .. Len(s), <1>1, CountNone
  <2>3. CASE pc = "gather"
    <3>1. InTransit = outbound /\ InTransit' = outbound \o s
      BY <2>3 DEF InTransit
    <3>2. Count(outbound, Beat) \in Nat
      BY <1>0, CountType
    <3> QED BY <1>0, <2>0, <2>1, <2>2, <3>1, <3>2, NumberedConcat, CountConcat
  <2>4. CASE pc # "gather"
    <3>1. /\ InTransit = Frame \o (outbound \o Overflow)
          /\ InTransit' = Frame \o ((outbound \o s) \o Overflow)
      BY Zenon, <1>6, <2>4 DEF InTransit
    <3>2. outbound \o Overflow \in Seq(Recs) /\ outbound \o s \in Seq(Recs)
          /\ (outbound \o s) \o Overflow \in Seq(Recs)
      BY <1>0, <1>5, Joined
    <3>3. /\ Count(Frame, Beat) \in Nat /\ Count(outbound, Beat) \in Nat
          /\ Count(Overflow, Beat) \in Nat
      BY <1>0, <1>5, CountType
    <3>4. Count(outbound \o s, Beat) = Count(outbound, Beat)
      BY SMTT(30), <1>0, <2>2, <3>3, CountConcat
    <3>5. Count(InTransit', Beat) = Count(InTransit, Beat)
      <4>0. PICK t \in Seq(Recs), u \in Seq(Recs) : t = outbound \o s /\ u = outbound \o Overflow
        BY Zenon, <3>2
      <4>5. PICK v \in Seq(Recs) : v = t \o Overflow
        BY Zenon, <1>5, Joined
      <4>1. Count(u, Beat) = Count(outbound, Beat) + Count(Overflow, Beat)
        BY <1>0, <1>5, <4>0, CountConcat
      <4>2. Count(v, Beat) = Count(t, Beat) + Count(Overflow, Beat)
        BY <1>5, <4>5, CountConcat
      <4>3. Count(Frame \o u, Beat) = Count(Frame, Beat) + Count(u, Beat)
        BY <1>5, CountConcat
      <4>4. Count(Frame \o v, Beat) = Count(Frame, Beat) + Count(v, Beat)
        BY <1>5, CountConcat
      <4> QED BY SMTT(30), <3>1, <3>4, <4>0, <4>5, <4>1, <4>2, <4>3, <4>4
    <3>6. PICK b \in Nat : b = next_beat + Count(Frame, Beat)
      BY <1>0, <3>3
    <3>7. Numbered(Frame, next_beat) /\ Numbered(outbound \o Overflow, b)
      BY ZenonT(30), <1>0, <1>5, <2>0, <3>1, <3>2, <3>6, NumberedConcat
    <3>8. Numbered(outbound, b) /\ Numbered(Overflow, b + Count(outbound, Beat))
      BY <1>0, <1>5, <3>7, NumberedConcat
    <3>9. Numbered(outbound \o s, b)
      BY <1>0, <2>1, <3>3, <3>8, NumberedConcat
    <3>10. Numbered((outbound \o s) \o Overflow, b)
      BY Zenon, <1>5, <3>2, <3>4, <3>8, <3>9, NumberedConcat
    <3>11. Numbered(InTransit', next_beat)
      BY ZenonT(30), <1>0, <1>5, <3>1, <3>2, <3>6, <3>7, <3>10, NumberedConcat
    <3> QED BY <2>0, <3>5, <3>11
  <2> QED BY <2>3, <2>4
<1>9. SafetyInOrder'
  <2> SUFFICES ASSUME ~displaced PROVE Fifo(InTransit')
    BY DEF SafetyInOrder, QueueIsFifo, Fifo
  <2>0. Fifo(InTransit)
    BY DEF Inv, SafetyInOrder, QueueIsFifo
  <2>1. Fifo(s)
    BY SMTT(30), <1>0 DEF Fifo
  <2>2. ASSUME NEW t \in Seq(Recs), Older(t)
        PROVE  \A i \in 1 .. Len(t), k \in 1 .. Len(s) :
                 t[i] \in Word /\ s[k] \in Word => t[i].n <= s[k].n
    BY SMTT(30), <1>0, <2>2 DEF Older, Word
  <2>3. ASSUME Fifo(outbound) PROVE Fifo(outbound \o s)
    BY Zenon, <1>0, <2>1, <2>2, <2>3, FifoConcat DEF Inv, Words
  <2>4. CASE pc = "gather"
    BY <2>0, <2>3, <2>4 DEF InTransit
  <2>5. CASE pc # "gather"
    <3>1. /\ InTransit = Frame \o (outbound \o Overflow)
          /\ InTransit' = Frame \o ((outbound \o s) \o Overflow)
      BY Zenon, <1>6, <2>5 DEF InTransit
    <3>2. outbound \o Overflow \in Seq(Recs) /\ outbound \o s \in Seq(Recs)
          /\ (outbound \o s) \o Overflow \in Seq(Recs)
      BY <1>0, <1>5, Joined
    <3>3. \A i \in 1 .. Len(Overflow) : Overflow[i] \notin Word
      BY <1>7, <2>5 DEF Beat, Word
    <3>4. /\ Fifo(Frame) /\ Fifo(outbound \o Overflow)
          /\ \A i \in 1 .. Len(Frame), k \in 1 .. Len(outbound \o Overflow) :
               Frame[i] \in Word /\ (outbound \o Overflow)[k] \in Word
                 => Frame[i].n <= (outbound \o Overflow)[k].n
      BY ZenonT(30), <1>5, <2>0, <3>1, <3>2, FifoConcat
    <3>5. Fifo(outbound) /\ Fifo(Overflow)
      BY <1>0, <1>5, <3>4, FifoConcat
    <3>6. Fifo((outbound \o s) \o Overflow)
      BY Zenon, <1>5, <2>3, <3>2, <3>3, <3>5, FifoConcat
    <3>7. Older(Frame)
      <4>1. Len(Frame) <= Len(batch) /\ \A i \in 1 .. Len(Frame) : Frame[i] = batch[i]
        <5>1. batch = Frame \o Overflow
          BY Zenon, <1>0, DrainRest DEF Frame, Overflow
        <5>2. Len(Frame) \in Nat /\ Len(Overflow) \in Nat /\ Len(batch) = Len(Frame) + Len(Overflow)
          BY <1>5, <5>1, Joined
        <5> QED BY <1>5, <5>1, <5>2, Joined
      <4> QED BY <1>0, <4>1 DEF Inv, Words, Older
    <3>8. ASSUME NEW i \in 1 .. Len(Frame), NEW k \in 1 .. Len((outbound \o s) \o Overflow),
                 Frame[i] \in Word, ((outbound \o s) \o Overflow)[k] \in Word
          PROVE  Frame[i].n <= ((outbound \o s) \o Overflow)[k].n
      <4>1. Len(Overflow) \in Nat /\ Len(outbound \o s) = Len(outbound) + Len(s)
        BY <1>0, <1>1, <1>5
      <4>2. k <= Len(outbound \o s) /\ ((outbound \o s) \o Overflow)[k] = (outbound \o s)[k]
        <5>1. ~(k > Len(outbound \o s))
          <6> SUFFICES ASSUME k > Len(outbound \o s) PROVE FALSE
            OBVIOUS
          <6>1. k - Len(outbound \o s) \in 1 .. Len(Overflow)
                /\ ((outbound \o s) \o Overflow)[k] = Overflow[k - Len(outbound \o s)]
            BY SMTT(30), <1>1, <1>5, <3>2, <4>1, Joined
          <6> QED BY <3>3, <3>8, <6>1
        <5> QED BY <1>1, <1>5, <3>2, <4>1, <5>1, Joined
      <4>3. CASE k <= Len(outbound)
        <5>1. (outbound \o s)[k] = outbound[k] /\ (outbound \o Overflow)[k] = outbound[k]
              /\ k \in 1 .. Len(outbound \o Overflow)
          BY SMTT(30), <1>0, <1>1, <1>5, <4>1, <4>3, Joined
        <5> QED BY <3>4, <3>8, <4>2, <5>1
      <4>4. CASE k > Len(outbound)
        <5>1. k - Len(outbound) \in 1 .. Len(s) /\ (outbound \o s)[k] = s[k - Len(outbound)]
          BY <1>0, <1>1, <4>1, <4>2, <4>4, Joined
        <5> QED BY SMTT(30), <1>5, <2>2, <3>7, <3>8, <4>2, <5>1
      <4> QED BY <1>1, <4>3, <4>4
    <3> QED BY ZenonT(30), <1>5, <3>1, <3>2, <3>4, <3>6, <3>8, FifoConcat
  <2> QED BY <2>4, <2>5
<1> QED BY <1>1, <1>3, <1>4, <1>8, <1>9

(* What a callback queues is counted with the queue *)
LEMMA QueuedCounts ==
  ASSUME Inv, NEW s \in Seq(Recs), Queued(s), QueuedWhole(s)
  PROVE  Accounted'
<1>10. /\ outbound' = outbound \o s /\ UNCHANGED <<batch, handed>>
       /\ ops' \in Nat /\ ops <= ops'
       /\ \A n \in 1 .. MAX_OPS : Count(s, {Record("estop", n)}) =
            IF n = ops /\ call = "engage" THEN ESTOP_REPEAT ELSE 0
       /\ call' = "engage" => ops' = ops + 1
       /\ call = "engage" => call' # "engage" /\ ops' = ops
  BY SMTT(30) DEF Inv, Types, Queued, QueuedWhole
<1> USE <1>10
<1> USE Constants
<1>1. ASSUME NEW n \in 1 .. MAX_OPS
      PROVE  LET e == {Record("estop", n)}
                 total == Count(outbound, e) + Count(batch, e) + handed[n]
             IN  /\ total' \in {0, ESTOP_REPEAT}
                 /\ n > ops' \/ (n = ops' /\ call' = "engage") => total' = 0
  <2> DEFINE e == {Record("estop", n)}
  <2>1. outbound \in Seq(Recs) /\ batch \in Seq(Recs) /\ ops \in Nat /\ handed[n] \in Nat
    BY DEF Inv, Types
  <2>2. /\ Count(outbound, e) \in Nat /\ Count(batch, e) \in Nat
        /\ Count(outbound', e) = Count(outbound, e) + Count(s, e)
    BY <2>1, CountType, CountConcat
  <2>3. /\ Count(outbound, e) + Count(batch, e) + handed[n] \in {0, ESTOP_REPEAT}
        /\ n > ops \/ (n = ops /\ call = "engage")
             => Count(outbound, e) + Count(batch, e) + handed[n] = 0
    BY DEF Inv, Accounted
  <2>4. Count(s, e) = IF n = ops /\ call = "engage" THEN ESTOP_REPEAT ELSE 0
    OBVIOUS
  <2> HIDE DEF e
  <2>5. /\ Count(outbound', e) + Count(batch, e) + handed[n] \in {0, ESTOP_REPEAT}
        /\ n > ops' \/ (n = ops' /\ call' = "engage")
             => Count(outbound', e) + Count(batch, e) + handed[n] = 0
    <3>1. CASE n = ops /\ call = "engage"
      BY SMTT(30), <2>1, <2>2, <2>3, <2>4, <3>1
    <3>2. CASE ~(n = ops /\ call = "engage")
      <4>1. Count(outbound', e) = Count(outbound, e)
        BY <2>2, <2>4, <3>2
      <4>2. n > ops' \/ (n = ops' /\ call' = "engage") => n > ops
        BY <2>1
      <4> QED BY <2>3, <4>1, <4>2
    <3> QED BY <3>1, <3>2
  <2>6. batch' = batch /\ handed' = handed
    OBVIOUS
  <2> USE DEF e
  <2> QED BY Zenon, <2>5, <2>6 DEF Count, Upto
<1> QED BY <1>1 DEF Accounted

(* A step that moves records from queue to batch leaves the account as it is *)
LEMMA AccountedSame ==
  ASSUME Accounted, UNCHANGED <<handed, ops, call>>,
         \A n \in 1 .. MAX_OPS :
           Count(outbound', {Record("estop", n)}) + Count(batch', {Record("estop", n)})
             = Count(outbound, {Record("estop", n)}) + Count(batch, {Record("estop", n)})
  PROVE  Accounted'
BY Zenon DEF Accounted, Count, Upto

(* A queue of records that are not of an engage counts none of it *)
LEMMA NoEstops ==
  ASSUME NEW s \in Seq(Recs), NEW n \in Nat,
         \A i \in 1 .. Len(s) : s[i] # Record("estop", n)
  PROVE  Count(s, {Record("estop", n)}) = 0
<1>1. \A i \in 1 .. Len(s) : s[i] \notin {Record("estop", n)}
  OBVIOUS
<1>2. 0 \in 0 .. Len(s)
  OBVIOUS
<1> QED BY <1>1, <1>2, CountNone

(* OutboundQueue::push of one record *)
LEMMA OneQueued ==
  ASSUME NEW q \in Seq(Recs), NEW c \in Recs
  PROVE  \E s \in Seq(Recs) : Len(s) = 1 /\ s[1] = c /\ Append(q, c) = q \o s
<1>1. <<c>> \in Seq(Recs) /\ Len(<<c>>) = 1 /\ <<c>>[1] = c
  OBVIOUS
<1>2. Append(q, c) = q \o <<c>>
  BY OneMore
<1> QED BY Zenon, <1>1, <1>2

-----------------------------------------------------------------------------
(* One step per callback *)

(* EstopService::handle, the latch of an engage *)
LEMMA EngageLatchStep == Inv /\ EngageLatch => Inv'
<1> SUFFICES ASSUME Inv, EngageLatch PROVE Inv'
  OBVIOUS
<1> USE Constants
<1>0. /\ call = "none" /\ ops < MAX_OPS /\ ops' = ops + 1 /\ call' = "engage"
      /\ UNCHANGED <<outbound, external, pc, batch, since_good, since_emit, seq, ros_ok,
                     next_beat, handed, displaced>>
  BY DEF EngageLatch, thread, seers
<1>1. latched' \in BOOLEAN
  BY Zenon DEF EngageLatch
<1>2. outbound \in Seq(Recs) /\ ops \in Nat
  BY DEF Inv, Types
<1>3. <<>> \in Seq(Recs) /\ Len(<<>>) = 0 /\ outbound' = outbound \o <<>>
  BY <1>0, <1>2, NoItems, JoinedNone
<1>4. \A n \in 1 .. MAX_OPS : Count(<<>>, {Record("estop", n)}) = 0
  BY <1>3, UptoZero DEF Count
<1>8. Queued(<<>>)
  BY <1>0, <1>2, <1>3 DEF Queued
<1>9. QueuedWhole(<<>>)
  BY <1>0, <1>2, <1>4 DEF QueuedWhole
<1>5. Accounted'
  BY Zenon, <1>3, <1>8, <1>9, QueuedCounts
<1>6. Words' /\ Fits' /\ BeatsInOrder' /\ SafetyInOrder'
  BY Zenon, <1>3, <1>8, QueuedInOrder
<1>7. Types'
  BY <1>0, <1>1, <1>2 DEF Inv, Types
<1> QED BY <1>5, <1>6, <1>7 DEF Inv

(* EstopService::handle, the records of an engage *)
LEMMA EngageEmitStep == Inv /\ EngageEmit => Inv'
<1> SUFFICES ASSUME Inv, EngageEmit PROVE Inv'
  OBVIOUS
<1> USE Constants
<1>0. /\ call = "engage" /\ call' = "none"
      /\ outbound' = outbound \o Copies(Record("estop", ops), ESTOP_REPEAT)
      /\ UNCHANGED <<external, pc, batch, since_good, since_emit, seq, latched, ops, ros_ok,
                     next_beat, handed, displaced>>
  BY DEF EngageEmit, thread, seers
<1>1. outbound \in Seq(Recs) /\ ops \in Nat /\ ESTOP_REPEAT \in Nat
  BY DEF Inv, Types
<1>2. PICK s \in Seq(Recs) :
        /\ s = Copies(Record("estop", ops), ESTOP_REPEAT) /\ Len(s) = ESTOP_REPEAT
        /\ \A i \in 1 .. Len(s) : s[i] = Record("estop", ops)
  <2>1. PICK r \in Recs : r = Record("estop", ops)
    BY <1>1, RecordKinds
  <2>2. /\ Copies(r, ESTOP_REPEAT) \in Seq(Recs) /\ Len(Copies(r, ESTOP_REPEAT)) = ESTOP_REPEAT
        /\ \A i \in 1 .. ESTOP_REPEAT : Copies(r, ESTOP_REPEAT)[i] = r
    BY <1>1, CopiesType
  <2> QED BY <2>1, <2>2
<1>3. ASSUME NEW n \in 1 .. MAX_OPS
      PROVE  Count(s, {Record("estop", n)}) =
               IF n = ops /\ call = "engage" THEN ESTOP_REPEAT ELSE 0
  <2>1. CASE n = ops
    BY SMTT(30), <1>0, <1>2, <2>1, CountAll
  <2>2. CASE n # ops
    <3>1. Record("estop", ops) # Record("estop", n)
      BY SMTT(30), <1>1, <2>2, RecordKinds
    <3> QED BY <1>2, <2>2, <3>1, NoEstops
  <2> QED BY <2>1, <2>2
<1>5. \A i \in 1 .. Len(s) : s[i] \notin Beat /\ (s[i] \in Word => s[i].n = ops')
  BY SMTT(30), <1>0, <1>1, <1>2, RecordKinds
<1>8. Queued(s)
  BY <1>0, <1>2, <1>5 DEF Queued
<1>9. QueuedWhole(s)
  BY <1>0, <1>3 DEF QueuedWhole
<1>4. Accounted'
  BY <1>8, <1>9, QueuedCounts
<1>6. outbound' \in Seq(Recs) /\ Words' /\ Fits' /\ BeatsInOrder' /\ SafetyInOrder'
  BY <1>8, QueuedInOrder
<1>7. Types'
  BY SMTT(30), <1>0, <1>6 DEF Inv, Types
<1> QED BY <1>4, <1>6, <1>7 DEF Inv

(* EstopService::handle, the record of a clear *)
LEMMA ClearEmitStep == Inv /\ ClearEmit => Inv'
<1> SUFFICES ASSUME Inv, ClearEmit PROVE Inv'
  OBVIOUS
<1> USE Constants
<1>0. /\ call = "none" /\ call' = "clear" /\ ops < MAX_OPS /\ ops' = ops + 1
      /\ outbound' = Append(outbound, Record("clear", ops + 1))
      /\ UNCHANGED <<external, pc, batch, since_good, since_emit, seq, latched, ros_ok,
                     next_beat, handed, displaced>>
  BY DEF ClearEmit, thread, seers
<1>1. outbound \in Seq(Recs) /\ ops \in Nat
  BY DEF Inv, Types
<1>2. Record("clear", ops + 1) \in Recs
  BY <1>1, RecordKinds
<1>3. PICK s \in Seq(Recs) :
        Len(s) = 1 /\ s[1] = Record("clear", ops + 1) /\ outbound' = outbound \o s
  BY Zenon, <1>0, <1>1, <1>2, OneQueued
<1>4. ASSUME NEW n \in 1 .. MAX_OPS PROVE Count(s, {Record("estop", n)}) = 0
  <2>1. ops + 1 \in Nat /\ n \in Nat
    BY <1>1
  <2>2. Record("clear", ops + 1) # Record("estop", n)
    BY <2>1, RecordKinds
  <2> QED BY <1>3, <2>1, <2>2, NoEstops
<1>5. Queued(s)
  <2>1. ops + 1 \in Nat
    BY <1>1
  <2>2. Record("clear", ops + 1) \notin Beat /\ Record("clear", ops + 1).n = ops + 1
    BY <2>1, RecordKinds
  <2> QED BY SMTT(30), <1>0, <1>3, <2>2 DEF Queued
<1>6. QueuedWhole(s)
  BY <1>0, <1>4 DEF QueuedWhole
<1>7. Accounted'
  BY <1>5, <1>6, QueuedCounts
<1>8. outbound' \in Seq(Recs) /\ Words' /\ Fits' /\ BeatsInOrder' /\ SafetyInOrder'
  BY <1>5, QueuedInOrder
<1>9. Types'
  BY <1>0, <1>1, <1>8 DEF Inv, Types
<1> QED BY <1>7, <1>8, <1>9 DEF Inv

(* The joint and flap subscriptions *)
LEMMA CommandStep == Inv /\ Command => Inv'
<1> SUFFICES ASSUME Inv, Command PROVE Inv'
  OBVIOUS
<1> USE Constants
<1>0. /\ outbound' = Append(outbound, Other)
      /\ UNCHANGED <<external, pc, batch, since_good, since_emit, seq, latched, call, ops,
                     ros_ok, next_beat, handed, displaced>>
  BY DEF Command, thread, seers, service
<1>1. outbound \in Seq(Recs) /\ ops \in Nat
  BY DEF Inv, Types
<1>2. PICK s \in Seq(Recs) : Len(s) = 1 /\ s[1] = Other /\ outbound' = outbound \o s
  <2>1. Other \in Recs
    BY RecordKinds
  <2> QED BY Zenon, <1>0, <1>1, <2>1, OneQueued
<1>3. Queued(s)
  <2>1. \A i \in 1 .. Len(s) : s[i] = Other
    BY <1>2
  <2>2. \A i \in 1 .. Len(s) : s[i] \notin Beat /\ s[i] \notin Word
    BY ZenonT(30), <2>1, RecordKinds
  <2>3. ops' \in {ops, ops + 1}
    BY <1>0
  <2> QED BY Zenon, <1>0, <1>2, <2>2, <2>3 DEF Queued
<1>4. outbound' \in Seq(Recs) /\ Words' /\ Fits' /\ BeatsInOrder' /\ SafetyInOrder'
  BY <1>3, QueuedInOrder
<1>5. ASSUME NEW n \in 1 .. MAX_OPS
      PROVE  Count(outbound', {Record("estop", n)}) = Count(outbound, {Record("estop", n)})
  <2>1. Count(s, {Record("estop", n)}) = 0
    BY <1>2, RecordKinds, NoEstops
  <2> QED BY SMTT(30), <1>1, <1>2, <2>1, CountConcat, CountType
<1>6. Accounted'
  BY Zenon, <1>0, <1>5 DEF Inv, Accounted
<1>7. Types'
  BY <1>0, <1>4 DEF Inv, Types
<1> QED BY <1>4, <1>6, <1>7 DEF Inv

(* Steps that touch no queue *)
LEMMA OtherStep == Inv /\ (ClearUnlatch \/ Shutdown \/ UNCHANGED vars) => Inv'
<1> SUFFICES ASSUME Inv, ClearUnlatch \/ Shutdown \/ UNCHANGED vars PROVE Inv'
  OBVIOUS
<1>0. /\ UNCHANGED <<outbound, external, pc, batch, since_good, since_emit, seq, ops,
                     next_beat, handed, displaced>>
      /\ call' = call \/ (call = "clear" /\ call' = "none")
  BY DEF ClearUnlatch, Shutdown, vars, thread, seers, service
<1>1. latched' \in BOOLEAN /\ ros_ok' \in BOOLEAN
  BY Zenon DEF ClearUnlatch, Shutdown, vars, thread, seers, service, Inv, Types
<1>2. Types'
  BY <1>0, <1>1 DEF Inv, Types
<1>3. Words' /\ Fits'
  BY Zenon, <1>0 DEF Inv, Words, Older, Fits, Overflow, Rest
<1>4. Accounted'
  BY <1>0 DEF Inv, Accounted, Count, Upto
<1>5. UNCHANGED InTransit
  BY <1>0 DEF InTransit, Frame, Overflow, drain, Rest
<1>6. BeatsInOrder'
  BY <1>0, <1>5 DEF Inv, BeatsInOrder, Numbered, Count, Upto
<1>7. SafetyInOrder'
  BY <1>0, <1>5 DEF Inv, SafetyInOrder, QueueIsFifo, Fifo
<1> QED BY <1>2, <1>3, <1>4, <1>6, <1>7 DEF Inv

-----------------------------------------------------------------------------
(* One step per step of the transport thread *)

(* Step 1 of the cycle: what is drained and what is left are what was queued *)
LEMMA GatherStep == ASSUME Inv, NEW burst \in Bursts, Gather(burst) PROVE Inv'
<1> USE Constants
<1>0. /\ pc = "gather" /\ pc' = "gate"
      /\ batch' = Copies(Other, burst) \o drain(outbound) /\ outbound' = Rest(outbound)
      /\ UNCHANGED <<external, since_good, since_emit, seq, latched, call, ops, ros_ok,
                     next_beat, handed>>
  BY DEF Gather, service
<1>1. displaced' = (displaced \/ Len(batch') > SPI_MAX_RECORDS)
  BY DEF Gather
<1>2. displaced' \in BOOLEAN /\ (~displaced' => ~displaced /\ ~(Len(batch') > SPI_MAX_RECORDS))
  BY <1>1, Zenon
<1>3. /\ outbound \in Seq(Recs) /\ batch = <<>> /\ ops \in Nat /\ burst \in Nat
      /\ next_beat \in Nat /\ handed \in [1 .. MAX_OPS -> Nat]
  BY <1>0 DEF Inv, Types
<1>4. PICK d \in Seq(Recs), t \in Seq(Recs), c \in Seq(Recs) :
        /\ d = drain(outbound) /\ t = Rest(outbound) /\ c = Copies(Other, burst)
        /\ outbound = d \o t /\ Len(d) = Smaller(Len(outbound), SPI_MAX_RECORDS)
        /\ Len(outbound) <= SPI_MAX_RECORDS => t = <<>>
        /\ Len(c) = burst /\ \A i \in 1 .. Len(c) : c[i] = Other
  <2>1. Other \in Recs
    BY RecordKinds
  <2>2. PICK d \in Seq(Recs), t \in Seq(Recs) :
          /\ d = drain(outbound) /\ t = Rest(outbound)
          /\ outbound = d \o t /\ Len(d) = Smaller(Len(outbound), SPI_MAX_RECORDS)
          /\ Len(outbound) <= SPI_MAX_RECORDS => t = <<>>
    BY Zenon, <1>3, DrainRest
  <2>3. PICK c \in Seq(Recs) :
          c = Copies(Other, burst) /\ Len(c) = burst /\ \A i \in 1 .. Len(c) : c[i] = Other
    BY <1>3, <2>1, CopiesType
  <2> QED BY ZenonT(30), <2>2, <2>3
<1>15. outbound = d \o t
  BY Zenon, <1>4
<1>5. batch' = c \o d /\ outbound' = t
  BY <1>0, <1>4
<1>6. c \o d \in Seq(Recs) /\ Len(c \o d) = Len(c) + Len(d) /\ Len(c) \in Nat /\ Len(d) \in Nat
  BY Joined
<1>7. Types'
  BY SMTT(30), <1>0, <1>2, <1>5, <1>6 DEF Inv, Types
<1>8. Words'
  <2>1. Len(outbound) = Len(d) + Len(t) /\ Len(t) \in Nat
    BY <1>15, <1>6, Joined
  <2>2. \A i \in 1 .. Len(d) : i \in 1 .. Len(outbound) /\ outbound[i] = d[i]
    BY <1>15, <1>6, <2>1, Joined
  <2>3. \A i \in 1 .. Len(t) :
          Len(d) + i \in 1 .. Len(outbound) /\ outbound[Len(d) + i] = t[i]
    BY <1>15, <1>6, <2>1, Joined
  <2>4. Older(d) /\ Older(t)
    BY Zenon, <2>2, <2>3 DEF Inv, Words, Older
  <2>5. \A i \in 1 .. Len(c \o d) :
          (c \o d)[i] = Other \/ \E k \in 1 .. Len(d) : (c \o d)[i] = d[k]
    <3> SUFFICES ASSUME NEW i \in 1 .. Len(c \o d)
                 PROVE  (c \o d)[i] = Other \/ \E k \in 1 .. Len(d) : (c \o d)[i] = d[k]
      OBVIOUS
    <3>1. CASE i <= Len(c)
      BY <1>4, <1>6, <3>1, Joined
    <3>2. CASE i > Len(c)
      <4>1. i - Len(c) \in 1 .. Len(d) /\ (c \o d)[i] = d[i - Len(c)]
        BY SMTT(30), <1>6, <3>2, Joined
      <4> QED BY <4>1
    <3> QED BY <1>6, <3>1, <3>2
  <2>6. Older(c \o d)
    BY SMTT(30), <2>4, <2>5, RecordKinds DEF Older
  <2> QED BY SMTT(30), <1>0, <1>5, <2>4, <2>6 DEF Words, Older
<1>9. ASSUME NEW n \in 1 .. MAX_OPS
      PROVE  Count(outbound', {Record("estop", n)}) + Count(batch', {Record("estop", n)})
               = Count(outbound, {Record("estop", n)}) + Count(batch, {Record("estop", n)})
  <2> DEFINE e == {Record("estop", n)}
  <2>1. Count(c, e) = 0
    <3>1. n \in Nat /\ Other # Record("estop", n)
      BY RecordKinds
    <3> QED BY <1>4, <3>1, NoEstops
  <2>2. Count(batch, e) = 0
    BY <1>3, UptoZero, NoItems DEF Count
  <2> HIDE DEF e
  <2>3. Count(c \o d, e) = Count(c, e) + Count(d, e) /\ Count(outbound, e) = Count(d, e) + Count(t, e)
    BY <1>15, CountConcat
  <2>4. Count(d, e) \in Nat /\ Count(t, e) \in Nat
    BY CountType
  <2>5. Count(outbound', e) + Count(batch', e) = Count(outbound, e) + Count(batch, e)
    BY SMTT(30), <1>5, <2>1, <2>2, <2>3, <2>4
  <2> QED BY <2>5 DEF e
<1>10. Accounted'
  BY <1>0, <1>9, AccountedSame DEF Inv
<1>11. Fits'
  <2>1. ASSUME Len(c \o d) < SPI_MAX_RECORDS PROVE t = <<>>
    BY <1>3, <1>4, <1>6, <2>1 DEF Smaller
  <2>2. ~displaced' => Len(c \o d) <= SPI_MAX_RECORDS
    BY <1>2, <1>5, <1>6
  <2>3. \A i \in 1 .. Len(<<>>) : <<>>[i] \notin Beat
    BY NoItems
  <2> QED BY <1>0, <1>5, <2>1, <2>2, <2>3 DEF Fits
<1>12. ASSUME ~displaced' PROVE InTransit' = c \o outbound
  <2>1. Len(c \o d) <= SPI_MAX_RECORDS
    BY <1>2, <1>5, <1>6, <1>12
  <2>2. drain(c \o d) = c \o d /\ Rest(c \o d) = <<>>
    BY Zenon, <1>6, <2>1, DrainRest
  <2>3. InTransit' = (c \o d) \o (t \o <<>>)
    BY ZenonT(30), <1>0, <1>5, <2>2 DEF InTransit, Frame, Overflow, drain, Rest
  <2>4. t \o <<>> = t /\ (c \o d) \o t = c \o (d \o t)
    BY SMTT(30), JoinedNone, JoinedAgain
  <2> QED BY SMTT(30), <1>4, <2>3, <2>4
<1>13. BeatsInOrder'
  <2> SUFFICES ASSUME ~displaced'
               PROVE  /\ Numbered(c \o outbound, next_beat)
                      /\ seq = (next_beat + Count(c \o outbound, Beat)) % SEQ
    BY Zenon, <1>0, <1>12 DEF BeatsInOrder, Numbered
  <2>1. Numbered(outbound, next_beat) /\ seq = (next_beat + Count(outbound, Beat)) % SEQ
    BY SMTT(30), <1>0, <1>2 DEF Inv, BeatsInOrder, InTransit
  <2>2. \A i \in 1 .. Len(c) : c[i] \notin Beat
    BY <1>4, RecordKinds
  <2>3. Numbered(c, next_beat) /\ Count(c, Beat) = 0
    <3>1. 0 \in 0 .. Len(c)
      BY <1>3
    <3> QED BY ZenonT(30), <1>3, <1>6, <2>2, <3>1, NumberedNone, CountNone
  <2>4. next_beat + Count(c, Beat) = next_beat
    BY <1>3, <2>3
  <2>5. Numbered(c \o outbound, next_beat)
    BY <1>3, <2>1, <2>3, <2>4, NumberedConcat
  <2>6. Count(outbound, Beat) \in Nat /\ Count(c \o outbound, Beat) = Count(c, Beat) + Count(outbound, Beat)
    BY <1>3, CountType, CountConcat
  <2> QED BY <2>1, <2>3, <2>5, <2>6
<1>14. SafetyInOrder'
  <2> SUFFICES ASSUME ~displaced' PROVE Fifo(c \o outbound)
    BY Zenon, <1>12 DEF SafetyInOrder, QueueIsFifo, Fifo
  <2>1. Fifo(outbound)
    BY <1>0, <1>2 DEF Inv, SafetyInOrder, QueueIsFifo, InTransit
  <2>2. \A i \in 1 .. Len(c) : c[i] \notin Word
    BY SMTT(30), <1>4, RecordKinds
  <2>3. Fifo(c)
    BY <2>2 DEF Fifo
  <2> QED BY SMTT(30), <1>3, <2>1, <2>2, <2>3, FifoConcat
<1> QED BY <1>7, <1>8, <1>10, <1>11, <1>13, <1>14 DEF Inv

(* A beat put behind what is under way, or behind a part of it that all beats are in *)
BeatPut(q, p, w, t) ==
  /\ Len(w) = 1 /\ w[1] \in Beat
  /\ \/ t = (q \o p) \o w
     \/ (\A i \in 1 .. Len(p) : p[i] \notin Beat) /\ t = (q \o w) \o p

(* Beats numbered from b on, and the number after them *)
BeatNext(q, b, c) == Numbered(q, b) /\ c = (b + Count(q, Beat)) % SEQ

(* HeartbeatEmitter::seq_ stays one past the last beat *)
LEMMA BeatNumbered ==
  ASSUME NEW q \in Seq(Recs), NEW p \in Seq(Recs), NEW w \in Seq(Recs), NEW t,
         NEW b \in Nat, NEW c \in Nat, BeatPut(q, p, w, t), w[1].n = c, BeatNext(q \o p, b, c)
  PROVE  BeatNext(t, b, (c + 1) % SEQ)
<1>0. Numbered(q \o p, b) /\ c = (b + Count(q \o p, Beat)) % SEQ
  BY DEF BeatNext
<1>1. Count(w, Beat) = 1
  <2>1. \A i \in 1 .. Len(w) : w[i] \in Beat
    BY DEF BeatPut
  <2> QED BY Zenon, <2>1, CountAll DEF BeatPut
<1>2. ASSUME NEW r \in Seq(Recs), Numbered(r, b), c = (b + Count(r, Beat)) % SEQ
      PROVE  Numbered(r \o w, b) /\ Count(r \o w, Beat) = Count(r, Beat) + 1
  <2>1. PICK a \in Nat : a = Count(r, Beat)
    BY CountType
  <2>2. Upto(w, 0, Beat) = 0
    BY UptoZero
  <2>3. (b + a) + 0 = b + a
    BY SMTT(30)
  <2>4. Numbered(w, b + a)
    <3>1. \A i \in 1 .. Len(w) : i = 1 /\ i - 1 = 0
      BY DEF BeatPut
    <3> QED BY SMTT(30), <1>2, <2>1, <2>2, <2>3, <3>1 DEF Numbered
  <2>5. Numbered(r \o w, b)
    BY ZenonT(30), <1>2, <2>1, <2>4, NumberedConcat
  <2>6. Count(r \o w, Beat) = Count(r, Beat) + Count(w, Beat)
    BY CountConcat
  <2> QED BY Zenon, <1>1, <2>5, <2>6
<1>3. q \o p \in Seq(Recs) /\ q \o w \in Seq(Recs)
  BY Joined
<1>4. PICK k \in Nat : k = Count(q \o p, Beat)
  BY Zenon, <1>3, CountType
<1>5. (c + 1) % SEQ = (b + (k + 1)) % SEQ
  <2>1. b + k \in Nat /\ SEQ \in Nat \ {0} /\ (b + k) + 1 = b + (k + 1)
    BY Constants
  <2>2. (((b + k) % SEQ) + 1) % SEQ = ((b + k) + 1) % SEQ
    BY ZenonT(30), <2>1, ModPlus
  <2> QED BY <1>0, <1>4, <2>1, <2>2
<1>6. CASE t = (q \o p) \o w
  BY Zenon, <1>0, <1>2, <1>3, <1>4, <1>5, <1>6 DEF BeatNext
<1>7. CASE (\A i \in 1 .. Len(p) : p[i] \notin Beat) /\ t = (q \o w) \o p
  <2>0. 0 \in 0 .. Len(p)
    BY SeqLength
  <2>1. Count(p, Beat) = 0 /\ \A a \in Nat : Numbered(p, a)
    <3>1. Count(p, Beat) = 0
      BY ZenonT(30), <1>7, <2>0, CountNone
    <3> QED BY Zenon, <1>7, <3>1, NumberedNone
  <2>2. PICK a \in Nat : a = Count(q, Beat)
    BY CountType
  <2>3. a = k /\ Numbered(q, b)
    <3>1. Count(q \o p, Beat) = Count(q, Beat) + Count(p, Beat)
      BY CountConcat
    <3>2. k = a + 0
      BY Zenon, <1>4, <2>1, <2>2, <3>1
    <3>3. Numbered(q, b)
      BY Zenon, <1>0, NumberedConcat
    <3> QED BY <3>2, <3>3
  <2>4. PICK r \in Seq(Recs) : r = q \o w
    BY Zenon, <1>3
  <2>5. Numbered(r, b) /\ Count(r, Beat) = k + 1
    BY Zenon, <1>0, <1>2, <1>4, <2>2, <2>3, <2>4
  <2>6. Numbered(r \o p, b) /\ Count(r \o p, Beat) = k + 1
    <3>1. b + (k + 1) \in Nat /\ (k + 1) + 0 = k + 1
      OBVIOUS
    <3>2. Numbered(p, b + Count(r, Beat))
      BY Zenon, <2>1, <2>5, <3>1
    <3>3. Numbered(r \o p, b)
      BY ZenonT(30), <2>5, <3>2, NumberedConcat
    <3>4. Count(r \o p, Beat) = Count(r, Beat) + Count(p, Beat)
      BY CountConcat
    <3> QED BY Zenon, <2>1, <2>5, <3>1, <3>3, <3>4
  <2> QED BY <1>5, <1>7, <2>4, <2>6 DEF BeatNext
<1> QED BY SMTT(30), <1>6, <1>7 DEF BeatPut

(* ... and it is between no two words *)
LEMMA BeatNoWord ==
  ASSUME NEW q \in Seq(Recs), NEW p \in Seq(Recs), NEW w \in Seq(Recs), NEW t,
         BeatPut(q, p, w, t), Fifo(q \o p)
  PROVE  Fifo(t)
<1>1. \A i \in 1 .. Len(w) : w[i] \notin Word
  BY DEF BeatPut, Beat, Word
<1>2. Fifo(w)
  BY <1>1 DEF Fifo
<1>3. q \o p \in Seq(Recs) /\ q \o w \in Seq(Recs)
  BY Joined
<1>4. CASE t = (q \o p) \o w
  BY Zenon, <1>1, <1>2, <1>3, <1>4, FifoConcat
<1>5. CASE t = (q \o w) \o p
  <2>1. /\ Fifo(q) /\ Fifo(p)
        /\ \A i \in 1 .. Len(q), k \in 1 .. Len(p) :
              q[i] \in Word /\ p[k] \in Word => q[i].n <= p[k].n
    BY SMTT(30), FifoConcat
  <2>2. Fifo(q \o w)
    BY <1>1, <1>2, <2>1, FifoConcat
  <2>3. \A i \in 1 .. Len(q \o w) :
          (i \in 1 .. Len(q) /\ (q \o w)[i] = q[i]) \/ (q \o w)[i] = w[1]
    BY SMTT(30), Joined DEF BeatPut
  <2>4. \A i \in 1 .. Len(q \o w), k \in 1 .. Len(p) :
          (q \o w)[i] \in Word /\ p[k] \in Word => (q \o w)[i].n <= p[k].n
    BY <1>1, <2>1, <2>3 DEF BeatPut
  <2>5. PICK r \in Seq(Recs) : r = q \o w
    BY Zenon, <1>3
  <2> QED BY ZenonT(30), <1>5, <2>1, <2>2, <2>4, <2>5, FifoConcat
<1> QED BY SMTT(30), <1>4, <1>5 DEF BeatPut

(* HeartbeatEmitter::tick: a new beat is the last of all under way, in the frame if
   there is room and behind the queue if not *)
LEMMA GateStep == Inv /\ Gate => Inv'
<1> SUFFICES ASSUME Inv, Gate PROVE Inv'
  OBVIOUS
<1> USE Constants
<1>0. /\ pc = "gate" /\ pc' = "frame" /\ tick(latched \/ external)
      /\ UNCHANGED <<outbound, external, since_good, latched, call, ops, ros_ok, next_beat,
                     handed, displaced>>
  BY DEF Gate, service, seers
<1>1. /\ outbound \in Seq(Recs) /\ batch \in Seq(Recs) /\ ops \in Nat /\ seq \in Nat
      /\ next_beat \in Nat /\ seq \in 0 .. SEQ - 1 /\ Len(batch) \in Nat
  BY DEF Inv, Types
<1>2. ASSUME ~displaced
      PROVE  /\ Len(batch) <= SPI_MAX_RECORDS
             /\ Len(batch) < SPI_MAX_RECORDS => \A i \in 1 .. Len(outbound) : outbound[i] \notin Beat
             /\ Frame = batch /\ Overflow = <<>> /\ InTransit = batch \o outbound
  <2>1. /\ Len(batch) <= SPI_MAX_RECORDS
        /\ Len(batch) < SPI_MAX_RECORDS => \A i \in 1 .. Len(outbound) : outbound[i] \notin Beat
    BY <1>0, <1>2 DEF Inv, Fits
  <2>2. Frame = batch /\ Overflow = <<>>
    BY <1>1, <2>1, DrainRest DEF Frame, Overflow
  <2>3. outbound \o <<>> = outbound
    BY <1>1, JoinedNone
  <2> QED BY <1>0, <2>1, <2>2, <2>3 DEF InTransit
<1>3. CASE UNCHANGED <<batch, seq, since_emit>>
  <2>1. Types'
    BY <1>0, <1>3 DEF Inv, Types
  <2>2. Words'
    BY SMTT(30), <1>0, <1>3 DEF Inv, Words, Older
  <2>3. Accounted'
    BY <1>0, <1>3 DEF Inv, Accounted, Count, Upto
  <2>4. Fits'
    <3>1. ~displaced => \A i \in 1 .. Len(Overflow) : Overflow[i] \in Beat
      BY <1>2, NoItems
    <3> QED BY Zenon, <1>0, <1>3, <3>1 DEF Fits, Overflow, Rest
  <2>5. UNCHANGED InTransit
    BY <1>0, <1>3 DEF InTransit, Frame, Overflow, drain, Rest
  <2>6. BeatsInOrder'
    BY <1>0, <1>3, <2>5 DEF Inv, BeatsInOrder, Numbered, Count, Upto
  <2>7. SafetyInOrder'
    BY <1>0, <2>5 DEF Inv, SafetyInOrder, QueueIsFifo, Fifo
  <2> QED BY SMTT(30), <2>1, <2>2, <2>3, <2>4, <2>6, <2>7 DEF Inv
<1>4. CASE /\ batch' = Append(batch, Record("beat", seq))
           /\ seq' = (seq + 1) % SEQ /\ since_emit' = 0
  <2>0. /\ Record("beat", seq) \in Recs /\ Record("beat", seq) \in Beat
        /\ Record("beat", seq) \notin Word /\ Record("beat", seq).n = seq
    BY <1>1, RecordKinds
  <2>1. PICK w \in Seq(Recs) :
          Len(w) = 1 /\ w[1] = Record("beat", seq) /\ batch' = batch \o w
    BY Zenon, <1>1, <1>4, <2>0, OneQueued
  <2>2. batch \o w \in Seq(Recs) /\ Len(batch \o w) = Len(batch) + 1
    <3>1. batch \o w \in Seq(Recs) /\ Len(batch \o w) = Len(batch) + Len(w)
      BY SMTT(30), <1>1, Joined
    <3> QED BY SMTT(30), <2>1, <3>1
  <2>3. Types'
    <3>1. seq' \in 0 .. SEQ - 1
      BY SMTT(30), <1>1, <1>4
    <3> QED BY <1>0, <1>4, <2>1, <2>2, <3>1 DEF Inv, Types
  <2>4. Words'
    <3>1. \A i \in 1 .. Len(batch \o w) :
            (i \in 1 .. Len(batch) /\ (batch \o w)[i] = batch[i]) \/ (batch \o w)[i] = w[1]
      BY SMTT(30), <1>1, <2>1, <2>2, Joined
    <3>2. Older(batch \o w)
      BY <2>0, <2>1, <3>1 DEF Inv, Words, Older
    <3> QED BY <1>0, <2>1, <3>2 DEF Inv, Words, Older
  <2>5. ASSUME NEW n \in 1 .. MAX_OPS
        PROVE  Count(outbound', {Record("estop", n)}) + Count(batch', {Record("estop", n)})
                 = Count(outbound, {Record("estop", n)}) + Count(batch, {Record("estop", n)})
    <3>1. Record("beat", seq) # Record("estop", n) /\ n \in Nat
      BY <1>1, RecordKinds
    <3>2. Count(w, {Record("estop", n)}) = 0
      <4>1. \A i \in 1 .. Len(w) : w[i] # Record("estop", n)
        BY <2>1, <3>1
      <4> QED BY <3>1, <4>1, NoEstops
    <3>3. Count(batch, {Record("estop", n)}) \in Nat
      BY <1>1, CountType
    <3>4. Count(batch \o w, {Record("estop", n)})
            = Count(batch, {Record("estop", n)}) + Count(w, {Record("estop", n)})
      BY <1>1, CountConcat
    <3>5. Count(batch', {Record("estop", n)}) = Count(batch, {Record("estop", n)})
      BY SMTT(30), <2>1, <3>2, <3>3, <3>4
    <3> QED BY <1>0, <3>5
  <2>6. Accounted'
    BY <1>0, <2>5, AccountedSame DEF Inv
  <2>7. ASSUME ~displaced
        PROVE  \/ /\ Len(batch) < SPI_MAX_RECORDS
                  /\ drain(batch \o w) = batch \o w /\ Rest(batch \o w) = <<>>
               \/ drain(batch \o w) = batch /\ Rest(batch \o w) = w
    <3>1. CASE Len(batch) < SPI_MAX_RECORDS
      <4>1. Len(batch \o w) <= SPI_MAX_RECORDS
        BY <1>1, <2>2, <3>1
      <4> QED BY Zenon, <2>2, <3>1, <4>1, DrainRest
    <3>2. CASE Len(batch) = SPI_MAX_RECORDS
      <4>1. drain(batch \o w) = SubSeq(batch \o w, 1, Len(batch))
        BY <1>1, <2>2, <3>2 DEF drain, Smaller
      <4>2. SubSeq(batch \o w, 1, Len(batch)) = batch
        BY Zenon, <1>1, PartOfFirst
      <4>3. drain(batch \o w) = batch
        BY Zenon, <4>1, <4>2
      <4>4. batch \o w = batch \o Rest(batch \o w) /\ Rest(batch \o w) \in Seq(Recs)
        BY Zenon, <2>2, <4>3, DrainRest
      <4>5. Rest(batch \o w) = w
        BY Zenon, <1>1, <4>4, CutLeft
      <4> QED BY <4>3, <4>5
    <3> QED BY <1>1, <1>2, <2>7, <3>1, <3>2
  <2>8. Frame' = drain(batch \o w) /\ Overflow' = Rest(batch \o w)
    BY <2>1 DEF Frame, Overflow, drain, Rest
  <2>9. Fits'
    <3>1. ASSUME ~displaced PROVE \A i \in 1 .. Len(Rest(batch \o w)) : Rest(batch \o w)[i] \in Beat
      BY <2>0, <2>1, <2>7, <3>1, NoItems
    <3>2. Overflow' = Rest(batch \o w)
      BY <2>8
    <3> QED BY <1>0, <3>1, <3>2 DEF Fits
  <2>10. ASSUME ~displaced
         PROVE  \/ /\ Len(batch) < SPI_MAX_RECORDS
                   /\ InTransit' = (batch \o w) \o outbound
                \/ InTransit' = (batch \o outbound) \o w
    <3>1. InTransit' = drain(batch \o w) \o (outbound \o Rest(batch \o w))
      BY <1>0, <2>8 DEF InTransit
    <3>2. outbound \o <<>> = outbound /\ (batch \o outbound) \o w = batch \o (outbound \o w)
      BY SMTT(30), <1>1, JoinedNone, JoinedAgain
    <3> QED BY Zenon, <2>7, <2>10, <3>1, <3>2
  <2>13. ASSUME ~displaced PROVE BeatPut(batch, outbound, w, InTransit')
    BY Zenon, <1>2, <2>0, <2>1, <2>10, <2>13 DEF BeatPut
  <2>11. BeatsInOrder'
    <3> SUFFICES ASSUME ~displaced
                 PROVE  /\ Numbered(InTransit', next_beat)
                        /\ seq' = (next_beat + Count(InTransit', Beat)) % SEQ
      BY <1>0 DEF BeatsInOrder, Numbered
    <3>1. BeatNext(batch \o outbound, next_beat, seq)
      BY Zenon, <1>2 DEF Inv, BeatsInOrder, BeatNext
    <3>2. w[1].n = seq
      BY <2>0, <2>1
    <3>3. PICK t : t = InTransit' /\ BeatPut(batch, outbound, w, t)
      BY SMTT(30), <2>13
    <3>4. BeatNext(t, next_beat, (seq + 1) % SEQ)
      BY <1>1, <3>1, <3>2, <3>3, BeatNumbered
    <3> QED BY SMTT(30), <1>4, <3>3, <3>4 DEF BeatNext
  <2>12. SafetyInOrder'
    <3> SUFFICES ASSUME ~displaced PROVE Fifo(InTransit')
      BY ZenonT(30), <1>0 DEF SafetyInOrder, QueueIsFifo, Fifo
    <3>1. Fifo(batch \o outbound)
      BY Zenon, <1>2 DEF Inv, SafetyInOrder, QueueIsFifo
    <3> QED BY SMTT(30), <1>1, <2>1, <2>13, <3>1, BeatNoWord
  <2> QED BY SMTT(30), <2>3, <2>4, <2>6, <2>9, <2>11, <2>12 DEF Inv
<1> QED BY <1>0, <1>3, <1>4 DEF tick

(* Steps 2 and 3: the frame is what was first under way, what is left over goes to
   the back of the queue *)
LEMMA ExchangeStep == ASSUME Inv, NEW result \in Inbound, Exchange(result) PROVE Inv'
<1> USE Constants
<1>0. /\ pc = "frame" /\ pc' = "gather" /\ batch' = <<>> /\ outbound' = outbound \o Overflow
      /\ next_beat' = (next_beat + Count(Frame, Beat)) % SEQ
      /\ handed' = [n \in 1 .. MAX_OPS |-> handed[n] + Count(Frame, {Record("estop", n)})]
      /\ UNCHANGED <<seq, latched, call, ops, ros_ok, displaced>>
  BY DEF Exchange, Requeue, service
<1>1. /\ outbound \in Seq(Recs) /\ batch \in Seq(Recs) /\ ops \in Nat /\ next_beat \in Nat
      /\ handed \in [1 .. MAX_OPS -> Nat]
  BY DEF Inv, Types
<1>2. PICK f \in Seq(Recs), v \in Seq(Recs) : f = Frame /\ v = Overflow /\ batch = f \o v
  BY ZenonT(30), <1>1, DrainRest DEF Frame, Overflow
<1>3. outbound' = outbound \o v /\ outbound \o v \in Seq(Recs) /\ batch = f \o v
  BY <1>0, <1>1, <1>2, Joined
<1>4. PICK k \in Nat : k = Count(f, Beat)
  BY SMTT(30), CountType
<1>5. Types'
  <2>1. external' \in BOOLEAN
    BY Zenon DEF Exchange, Inv, Types
  <2>2. since_good' \in 0 .. HEALTHY /\ since_emit' \in 0 .. PERIOD
    <3>1. since_good \in 0 .. HEALTHY /\ since_emit \in 0 .. PERIOD
      BY DEF Inv, Types
    <3>2. /\ since_good' \in {Smaller(since_good + 1, HEALTHY), 1}
          /\ since_emit' = Smaller(since_emit + 1, PERIOD)
      BY DEF Exchange
    <3> QED BY <3>1, <3>2 DEF Smaller
  <2>3. next_beat' \in 0 .. SEQ - 1
    <3>1. next_beat + k \in Nat
      BY <1>1
    <3>2. (next_beat + k) % SEQ \in 0 .. SEQ - 1
      BY <3>1
    <3> QED BY <1>0, <1>2, <1>4, <3>2
  <2>4. handed' \in [1 .. MAX_OPS -> Nat]
    <3>1. \A n \in 1 .. MAX_OPS : Count(f, {Record("estop", n)}) \in Nat
      BY CountType
    <3>2. \A n \in 1 .. MAX_OPS : handed[n] + Count(f, {Record("estop", n)}) \in Nat
      <4>1. ASSUME NEW a \in Nat, NEW b \in Nat PROVE a + b \in Nat
        OBVIOUS
      <4>2. \A n \in 1 .. MAX_OPS : handed[n] \in Nat
        BY <1>1
      <4> QED BY <3>1, <4>1, <4>2, Zenon
    <3>3. handed' = [n \in 1 .. MAX_OPS |-> handed[n] + Count(f, {Record("estop", n)})]
      BY <1>0, <1>2
    <3> QED BY <3>2, <3>3
  <2>5. batch' \in Seq(Recs) /\ outbound' \in Seq(Recs)
    BY SMTT(30), <1>0, <1>3, NoItems
  <2>6. /\ latched' \in BOOLEAN /\ ros_ok' \in BOOLEAN /\ displaced' \in BOOLEAN
        /\ call' \in {"none", "engage", "clear"}
    BY <1>0 DEF Inv, Types
  <2>7. ops' \in 0 .. MAX_OPS /\ (call' = "engage" => ops' > 0) /\ seq' \in 0 .. SEQ - 1
    BY SMTT(30), <1>0 DEF Inv, Types
  <2> QED BY SMTT(30), <1>0, <2>1, <2>2, <2>3, <2>4, <2>5, <2>6, <2>7 DEF Types
<1>6. Words'
  <2>1. Len(f) \in Nat /\ Len(v) \in Nat /\ Len(batch) = Len(f) + Len(v)
    BY <1>3, Joined
  <2>2. \A i \in 1 .. Len(v) : Len(f) + i \in 1 .. Len(batch) /\ batch[Len(f) + i] = v[i]
    BY SMTT(30), <1>3, <2>1, Joined
  <2>3. Older(v) /\ Older(outbound)
    BY SMTT(30), <2>2 DEF Inv, Words, Older
  <2>4. Len(outbound) \in Nat /\ Len(outbound \o v) = Len(outbound) + Len(v)
    BY SMTT(30), <1>1, Joined
  <2>5. \A i \in 1 .. Len(outbound \o v) :
          \/ i \in 1 .. Len(outbound) /\ (outbound \o v)[i] = outbound[i]
          \/ i - Len(outbound) \in 1 .. Len(v) /\ (outbound \o v)[i] = v[i - Len(outbound)]
    BY <1>1, <2>1, <2>4, Joined
  <2>6. Older(outbound \o v)
    BY <2>3, <2>5 DEF Older
  <2>7. Older(<<>>)
    BY NoItems DEF Older
  <2> QED BY SMTT(30), <1>0, <1>3, <2>6, <2>7 DEF Words, Older
<1>7. ASSUME NEW n \in 1 .. MAX_OPS
      PROVE  Count(outbound', {Record("estop", n)}) + Count(batch', {Record("estop", n)}) + handed'[n]
               = Count(outbound, {Record("estop", n)}) + Count(batch, {Record("estop", n)}) + handed[n]
  <2> DEFINE e == {Record("estop", n)}
  <2>1. handed'[n] = handed[n] + Count(f, e) /\ handed[n] \in Nat
    BY <1>0, <1>1, <1>2
  <2> HIDE DEF e
  <2>2. Count(f \o v, e) = Count(f, e) + Count(v, e)
    BY CountConcat
  <2>3. Count(outbound \o v, e) = Count(outbound, e) + Count(v, e)
    BY <1>1, CountConcat
  <2>4. Count(f, e) \in Nat /\ Count(v, e) \in Nat /\ Count(outbound, e) \in Nat
    BY <1>1, CountType
  <2>5. Count(<<>>, e) = 0
    BY UptoZero, NoItems DEF Count
  <2>6. Count(batch', e) = 0
    BY <1>0, <2>5
  <2>7. Count(outbound', e) + Count(batch', e) + handed'[n]
          = Count(outbound, e) + Count(batch, e) + handed[n]
    BY <1>3, <2>1, <2>2, <2>3, <2>4, <2>6
  <2> QED BY SMTT(30), <2>7 DEF e
<1>8. Accounted'
  BY ZenonT(30), <1>0, <1>7 DEF Inv, Accounted, Count, Upto
<1>9. Fits'
  BY <1>0 DEF Fits
<1>10. InTransit = f \o (outbound \o v) /\ InTransit' = outbound \o v
  BY <1>0, <1>2 DEF InTransit
<1>11. BeatsInOrder'
  <2> SUFFICES ASSUME ~displaced
               PROVE  /\ Numbered(outbound \o v, next_beat')
                      /\ seq = (next_beat' + Count(outbound \o v, Beat)) % SEQ
    BY SMTT(30), <1>0, <1>10 DEF BeatsInOrder, Numbered
  <2>1. PICK u \in Seq(Recs) : u = outbound \o v
    BY Zenon, <1>3
  <2>2. Numbered(f \o u, next_beat) /\ seq = (next_beat + Count(f \o u, Beat)) % SEQ
    BY <1>10, <2>1 DEF Inv, BeatsInOrder
  <2>3. PICK m \in Nat : m = Count(u, Beat)
    BY CountType
  <2>4. PICK b \in Nat : b = next_beat + k
    BY <1>1
  <2>5. next_beat' = b % SEQ
    BY <1>0, <1>2, <1>4, <2>4
  <2>6. Numbered(u, b % SEQ)
    <3>1. Numbered(u, next_beat + Count(f, Beat))
      BY Zenon, <1>1, <2>2, NumberedConcat
    <3>2. Numbered(u, b)
      BY ZenonT(30), <1>4, <2>4, <3>1
    <3> QED BY Zenon, <3>2, Constants, NumberedMod
  <2>7. seq = (b + m) % SEQ
    <3>1. Count(f \o u, Beat) = k + m
      BY <1>4, <2>3, CountConcat
    <3>2. next_beat + (k + m) = b + m
      BY <1>1, <2>4
    <3> QED BY <2>2, <3>1, <3>2
  <2>8. seq = ((b % SEQ) + m) % SEQ
    BY Zenon, <2>7, ModPlus
  <2> QED BY SMTT(30), <2>1, <2>3, <2>5, <2>6, <2>8
<1>12. SafetyInOrder'
  <2> SUFFICES ASSUME ~displaced PROVE Fifo(outbound \o v)
    BY Zenon, <1>0, <1>10 DEF SafetyInOrder, QueueIsFifo, Fifo
  <2>1. Fifo(f \o (outbound \o v))
    BY <1>10 DEF Inv, SafetyInOrder, QueueIsFifo
  <2> QED BY Zenon, <1>3, <2>1, FifoConcat
<1> QED BY <1>5, <1>6, <1>8, <1>9, <1>11, <1>12 DEF Inv

-----------------------------------------------------------------------------
(* What is promised of the transport thread *)

(* Every callback and every step of the transport thread, in any interleaving,
   keeps the invariant: the thread itself never needs the queue to stand still *)
THEOREM Invariance == Spec => []Inv
<1>1. Init => Inv
  BY InvInit
<1>2. Inv /\ [Next]_vars => Inv'
  <2> SUFFICES ASSUME Inv, [Next]_vars PROVE Inv'
    OBVIOUS
  <2>1. CASE \E n \in Bursts : Gather(n)
    BY <2>1, GatherStep
  <2>2. CASE Gate
    BY <2>2, GateStep
  <2>3. CASE \E r \in Inbound : Exchange(r)
    BY <2>3, ExchangeStep
  <2>4. CASE EngageLatch
    BY <2>4, EngageLatchStep
  <2>5. CASE EngageEmit
    BY <2>5, EngageEmitStep
  <2>6. CASE ClearEmit
    BY <2>6, ClearEmitStep
  <2>7. CASE ClearUnlatch \/ Shutdown \/ UNCHANGED vars
    BY <2>7, OtherStep
  <2>8. CASE Command
    BY <2>8, CommandStep
  <2> QED BY <2>1, <2>2, <2>3, <2>4, <2>5, <2>6, <2>7, <2>8 DEF Next, Transport, Callbacks
<1> QED BY <1>1, <1>2, PTL DEF Spec

(* Overflow and requeueing neither drop nor duplicate an ESTOP record of an engage,
   for any size of the frame and any burst of XRCE and audio *)
THEOREM EstopsAccountedHolds == Spec => []EstopsAccounted
<1>1. Inv => EstopsAccounted
  BY DEF Inv, Accounted, EstopsAccounted
<1> QED BY <1>1, Invariance, PTL

(* The frame holds no more than its records, beats go out in the order of their
   numbers and the operator's last word last, unless a cycle gathered more than a
   frame holds *)
THEOREM RecordsKeptHolds == Spec => []RecordsKept
<1>1. Inv => TypeOK
  <2> SUFFICES ASSUME Inv PROVE TypeOK
    OBVIOUS
  <2> USE Constants
  <2>1. outbound \in Seq(Recs) /\ batch \in Seq(Recs) /\ handed \in [1 .. MAX_OPS -> Nat]
    BY DEF Inv, Types
  <2>2. ASSUME NEW q \in Seq(Recs), NEW i \in DOMAIN q PROVE q[i].kind \in Kinds
    <3>1. q[i] \in Recs
      BY <2>2
    <3> QED BY <3>1 DEF Recs
  <2>3. Len(Frame) <= SPI_MAX_RECORDS
    BY <2>1, DrainRest DEF Frame, Smaller
  <2>4. ASSUME NEW n \in 1 .. MAX_OPS PROVE handed[n] \in 0 .. ESTOP_REPEAT
    <3> DEFINE e == {Record("estop", n)}
    <3>1. Count(outbound, e) + Count(batch, e) + handed[n] \in {0, ESTOP_REPEAT}
      BY DEF Inv, Accounted
    <3> HIDE DEF e
    <3>2. Count(outbound, e) \in Nat /\ Count(batch, e) \in Nat /\ handed[n] \in Nat
      BY <2>1, CountType
    <3> QED BY <3>1, <3>2
  <2>5. handed \in [1 .. MAX_OPS -> 0 .. ESTOP_REPEAT]
    BY <2>1, <2>4
  <2> QED BY <2>1, <2>2, <2>3, <2>5 DEF Inv, Types, TypeOK
<1>2. Inv => RecordsKept
  BY <1>1 DEF Inv, RecordsKept
<1> QED BY <1>2, Invariance, PTL
=============================================================================
