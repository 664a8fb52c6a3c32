-------------------------- MODULE UdpSockets_proofs --------------------------
(***************************************************************************)
(* IInv of UdpSockets is an invariant for a ring, a socket table and an    *)
(* address cache of every size, and with it the safety properties that the *)
(* run of MCUdpSockets checks; the ring implements DatagramQueue; and      *)
(* FetchSound of PkgInstall is an invariant of the package manager, and    *)
(* with it what an installation leaves.                                    *)
(***************************************************************************)
EXTENDS PkgInstall, FiniteSetTheorems, TLAPS

\* A nonempty set of natural numbers has a least element: the intervals from 0 to
\* its elements are finite sets, and inclusion is well founded on those.
LEMMA LowestExists ==
  ASSUME NEW S \in SUBSET Nat, S # {}
  PROVE  \E x \in S : \A y \in S : x <= y
<1> DEFINE F == {0 .. x : x \in S}
<1>1. ASSUME NEW x \in S  PROVE IsFiniteSet(0 .. x)
  BY FS_Interval, 0 \in Int, x \in Int, Zenon
<1>2. F \subseteq FiniteSubsetsOf(Nat) /\ F # {}
  BY <1>1 DEF FiniteSubsetsOf
<1>3. PICK D \in F : \A E \in F : ~ (<<E, D>> \in StrictSubsetOrdering(Nat))
  <2> HIDE DEF F
  <2> QED BY <1>2, FS_StrictSubsetOrderingWellFounded, WFMin, Zenon
<1>4. PICK x \in S : D = 0 .. x
  BY <1>3
<1>5. ASSUME NEW y \in S, y < x  PROVE FALSE
  <2>1. 0 .. y \in F /\ <<0 .. y, D>> \in StrictSubsetOrdering(Nat)
    BY <1>4, <1>5 DEF StrictSubsetOrdering
  <2> QED BY <1>3, <2>1
<1> QED BY <1>5

\* The same for Min of the community modules.
LEMMA MinIsLowest ==
  ASSUME NEW S \in SUBSET Nat, S # {}
  PROVE  Min(S) \in S /\ \A y \in S : Min(S) <= y
<1>1. \E x \in S : \A y \in S : x <= y
  BY LowestExists
<1> QED
  BY <1>1 DEF Min

\* Induction over the numbers up to n, for a set.
LEMMA UpTo ==
  ASSUME NEW n \in Nat, NEW T, 0 \in T, \A k \in 1 .. n : k - 1 \in T => k \in T
  PROVE  0 .. n \subseteq T
<1> DEFINE S == (0 .. n) \ T
<1>1. SUFFICES ASSUME S # {}  PROVE FALSE
  OBVIOUS
<1>2. PICK x \in S : \A y \in S : x <= y
  <2>1. S \in SUBSET Nat
    OBVIOUS
  <2> HIDE DEF S
  <2> QED BY <1>1, <2>1, LowestExists
<1>3. x \in 1 .. n /\ x - 1 \in T
  BY <1>2
<1> QED BY <1>3

\* What a remainder is below twice the modulus.
LEMMA ModSmall ==
  ASSUME NEW m \in Nat \ {0}, NEW x \in Nat, x < 2 * m
  PROVE  x % m = IF x < m THEN x ELSE x - m
OBVIOUS

\* The remainder of a difference of two remainders.
LEMMA ModDiff ==
  ASSUME NEW m \in Nat \ {0}, NEW a \in 0 .. m - 1, NEW b \in 0 .. m - 1
  PROVE  (a - b) % m = IF a >= b THEN a - b ELSE a - b + m
OBVIOUS

\* A remainder is below the modulus.
LEMMA ModRange ==
  ASSUME NEW m \in Nat \ {0}, NEW x \in Int
  PROVE  x % m \in 0 .. m - 1
OBVIOUS

USE UdpRingAssumption, ArpAssumption, UdpSocketsAssumption

-----------------------------------------------------------------------------
(* Going round the ring.                                                   *)

\* One slot or several on from an index.
LEMMA Round ==
  ASSUME NEW a \in Index, NEW k \in 0 .. RingSize
  PROVE  /\ (a + k) % RingSize = IF a + k < RingSize THEN a + k ELSE a + k - RingSize
         /\ (a + k) % RingSize \in Index
<1> DEFINE m == RingSize
<1> DEFINE x == a + k
<1>1. m \in Nat \ {0} /\ x \in Nat /\ x < 2 * m
  BY DEF Index
<1> HIDE DEF m, x
<1>2. x % m = IF x < m THEN x ELSE x - m
  BY <1>1, ModSmall
<1> QED
  BY <1>1, <1>2 DEF m, x, Index

LEMMA AheadIs ==
  ASSUME NEW a \in Index, NEW b \in Index
  PROVE  /\ Ahead(a, b) = IF b >= a THEN b - a ELSE b - a + RingSize
         /\ Ahead(a, b) \in Index
<1> DEFINE m == RingSize
<1>1. m \in Nat \ {0} /\ a \in 0 .. m - 1 /\ b \in 0 .. m - 1
  BY DEF Index
<1> HIDE DEF m
<1>2. (b - a) % m = IF b >= a THEN b - a ELSE b - a + m
  BY <1>1, ModDiff
<1> QED
  BY <1>1, <1>2 DEF m, Ahead, Index

\* The slot k on from a is k ahead of it, and what was farther ahead is k less.
LEMMA RoundAhead ==
  ASSUME NEW a \in Index, NEW k \in Index
  PROVE  /\ Ahead(a, (a + k) % RingSize) = k
         /\ \A b \in Index : k <= Ahead(a, b) => Ahead((a + k) % RingSize, b) = Ahead(a, b) - k
         /\ k # 0 => Ahead((a + k) % RingSize, a) = RingSize - k
<1>1. k \in 0 .. RingSize
  BY DEF Index
<1> DEFINE c == (a + k) % RingSize
<1>2. c \in Index /\ c = IF a + k < RingSize THEN a + k ELSE a + k - RingSize
  BY <1>1, Round
<1> HIDE DEF c
<1>3. \A b \in Index : Ahead(a, b) = IF b >= a THEN b - a ELSE b - a + RingSize
  BY AheadIs
<1>4. \A b \in Index : Ahead(c, b) = IF b >= c THEN b - c ELSE b - c + RingSize
  BY <1>2, AheadIs
<1>5. Ahead(a, c) = k
  BY <1>2, <1>3 DEF Index
<1>6. \A b \in Index : k <= Ahead(a, b) => Ahead(c, b) = Ahead(a, b) - k
  BY <1>2, <1>3, <1>4, SMTT(30) DEF Index
<1>7. k # 0 => Ahead(c, a) = RingSize - k
  BY <1>2, <1>4 DEF Index
<1> QED
  BY <1>5, <1>6, <1>7 DEF c

LEMMA AheadRound ==
  ASSUME NEW a \in Index, NEW b \in Index
  PROVE  (a + Ahead(a, b)) % RingSize = b
<1>1. Ahead(a, b) \in 0 .. RingSize /\ Ahead(a, b) = IF b >= a THEN b - a ELSE b - a + RingSize
  BY AheadIs DEF Index
<1>2. (a + Ahead(a, b)) % RingSize = IF a + Ahead(a, b) < RingSize THEN a + Ahead(a, b)
                                                                  ELSE a + Ahead(a, b) - RingSize
  BY <1>1, Round
<1> QED
  BY <1>1, <1>2 DEF Index

\* A ring has finitely many slots.
LEMMA InUseFinite ==
  ASSUME NEW q
  PROVE  IsFiniteSet(InUse(q)) /\ Cardinality(InUse(q)) \in Nat
         /\ (Cardinality(InUse(q)) = 0 <=> InUse(q) = {})
<1>1. 0 \in Int /\ RingSize - 1 \in Int
  OBVIOUS
<1>2. IsFiniteSet(Index)
  BY <1>1, FS_Interval, Zenon DEF Index
<1>3. IsFiniteSet(InUse(q))
  <2>1. InUse(q) \in SUBSET Index
    BY DEF InUse
  <2> QED
    BY <1>2, <2>1, FS_Subset, Zenon
<1> QED
  BY <1>3, FS_EmptySet, FS_CardinalityType

LEMMA RingTyped ==
  ASSUME NEW q \in Rings
  PROVE  /\ q.slot \in [Index -> {NoDatagram} \cup Datagrams]
         /\ q.head \in Index /\ q.tail \in Index /\ q.count \in 0 .. RingSize
         /\ \A i \in Index : /\ Valid(q, i) => q.slot[i] \in Datagrams
                             /\ ~Valid(q, i) => q.slot[i] = NoDatagram
         /\ InUse(q) \subseteq Index
BY DEF Rings, Valid, NoDatagram, Datagrams, InUse

\* A ring that was not lapped counts what waits, and that lies where it should.
Counts(q)  == q.count = Cardinality(InUse(q)) /\ BetweenHeadAndTail(q)
AtLeast(q) == q.count >= Cardinality(InUse(q))

\* udp_queue_push: the counter stays above what waits, and exact until the tail
\* meets a head that waits.
LEMMA PushRing ==
  ASSUME NEW q \in Rings, NEW d \in Datagrams, AtLeast(q)
  PROVE  /\ Push(q, d) \in Rings /\ AtLeast(Push(q, d))
         /\ ~Lapping(q) /\ Counts(q) => Counts(Push(q, d))
<1>1. CASE q.count = RingSize
  BY <1>1 DEF Push
<1>2. CASE q.count # RingSize
  <2> DEFINE r == Push(q, d)
  <2>1. /\ r.slot = [q.slot EXCEPT ![q.tail] = d] /\ r.head = q.head
        /\ r.tail = After(q.tail) /\ r.count = q.count + 1
        /\ r = [slot |-> r.slot, head |-> r.head, tail |-> r.tail, count |-> r.count]
    BY <1>2 DEF Push
  <2> HIDE DEF r
  <2>2. After(q.tail) \in Index
    BY RingTyped, Round DEF After
  <2>3. r.slot \in [Index -> {NoDatagram} \cup Datagrams] /\ r.count \in 0 .. RingSize
    BY <1>2, <2>1, RingTyped
  <2>4. r \in Rings
    BY <2>1, <2>2, <2>3, RingTyped DEF Rings
  <2>5. InUse(r) = InUse(q) \cup {q.tail}
    BY <2>1, RingTyped DEF InUse, Valid, Datagrams
  <2>6. Cardinality(InUse(r)) = IF q.tail \in InUse(q) THEN Cardinality(InUse(q))
                                                       ELSE Cardinality(InUse(q)) + 1
    BY <2>5, InUseFinite, FS_AddElement
  <2>7. AtLeast(r)
    BY <2>1, <2>6, InUseFinite, RingTyped DEF AtLeast
  <2>8. ASSUME ~Lapping(q), Counts(q)
        PROVE  Counts(r)
    <3>1. q.tail \notin InUse(q)
      <4>1. CASE q.count = 0
        BY <2>8, <4>1, InUseFinite DEF Counts
      <4>2. CASE q.tail # q.head
        <5>1. Ahead(q.head, q.tail) \in Index
          BY AheadIs, RingTyped, Zenon
        <5>2. ~(Ahead(q.head, q.tail) < Ahead(q.head, q.tail))
          BY <5>1 DEF Index
        <5> QED
          BY <2>8, <4>2, <5>2 DEF Counts, BetweenHeadAndTail
      <4> QED
        BY <1>2, <2>8, <4>1, <4>2, RingTyped DEF Lapping
    <3>2. r.count = Cardinality(InUse(r))
      BY <2>1, <2>6, <2>8, <3>1 DEF Counts
    <3>3. ASSUME r.tail # r.head, NEW i \in InUse(r)
          PROVE  Ahead(r.head, i) < Ahead(r.head, r.tail)
      <4>1. Ahead(q.head, After(q.tail)) = Ahead(q.head, q.tail) + 1
        <5>1. After(q.tail) = IF q.tail + 1 < RingSize THEN q.tail + 1 ELSE q.tail + 1 - RingSize
          BY RingTyped, Round DEF After
        <5>2. /\ Ahead(q.head, q.tail) = IF q.tail >= q.head THEN q.tail - q.head
                                                            ELSE q.tail - q.head + RingSize
              /\ Ahead(q.head, After(q.tail)) =
                   IF After(q.tail) >= q.head THEN After(q.tail) - q.head
                                              ELSE After(q.tail) - q.head + RingSize
          BY <2>2, AheadIs, RingTyped
        <5>3. After(q.tail) # q.head /\ q.tail \in 0 .. RingSize - 1 /\ q.head \in 0 .. RingSize - 1
          BY <2>1, <3>3, RingTyped DEF Index
        <5> QED
          BY <5>1, <5>2, <5>3
      <4>2. i \in InUse(q) => Ahead(q.head, i) < Ahead(q.head, q.tail)
        <5>1. CASE q.count = 0
          BY <2>8, <5>1, InUseFinite DEF Counts
        <5>2. CASE q.tail # q.head
          BY <2>8, <5>2 DEF Counts, BetweenHeadAndTail
        <5> QED
          BY <1>2, <2>8, <5>1, <5>2, RingTyped DEF Lapping
      <4>3. Ahead(q.head, q.tail) \in Nat /\ (i \in InUse(q) => Ahead(q.head, i) \in Nat)
        <5>1. q.head \in Index /\ q.tail \in Index /\ (i \in InUse(q) => i \in Index)
          BY RingTyped
        <5>2. Ahead(q.head, q.tail) \in Index /\ (i \in InUse(q) => Ahead(q.head, i) \in Index)
          BY <5>1, AheadIs
        <5> QED
          BY <5>2 DEF Index
      <4> QED
        BY <2>1, <2>5, <3>3, <4>1, <4>2, <4>3
    <3> QED
      BY <3>2, <3>3 DEF Counts, BetweenHeadAndTail
  <2> QED
    BY <2>4, <2>7, <2>8 DEF r
<1> QED
  BY <1>1, <1>2

\* A slot that is emptied is one less that waits.
LEMMA EmptyOne ==
  ASSUME NEW q, NEW r, NEW i \in InUse(q), q.slot \in [Index -> {NoDatagram} \cup Datagrams],
         r.slot = [q.slot EXCEPT ![i] = NoDatagram]
  PROVE  /\ InUse(r) = InUse(q) \ {i}
         /\ Cardinality(InUse(r)) = Cardinality(InUse(q)) - 1
         /\ r.slot \in [Index -> {NoDatagram} \cup Datagrams]
<1>1. InUse(r) = InUse(q) \ {i}
  BY DEF InUse, Valid, NoDatagram
<1>2. Cardinality(InUse(q) \ {i}) = Cardinality(InUse(q)) - 1
  BY InUseFinite, FS_RemoveElement
<1>3. r.slot \in [Index -> {NoDatagram} \cup Datagrams]
  BY DEF InUse
<1> QED
  BY <1>1, <1>2, <1>3

\* Moving the head on to a slot that is not behind anything that waits keeps it
\* in front of everything, and off the tail unless nothing is left.
LEMMA HeadMoves ==
  ASSUME NEW q \in Rings, NEW r \in Rings, NEW k \in Index,
         r.slot = q.slot, r.tail = q.tail, r.head = (q.head + k) % RingSize,
         BetweenHeadAndTail(q), \A i \in InUse(q) : k <= Ahead(q.head, i)
  PROVE  BetweenHeadAndTail(r)
<1> SUFFICES ASSUME r.tail # r.head, NEW i \in InUse(q)
             PROVE  Ahead(r.head, i) < Ahead(r.head, q.tail)
  BY DEF BetweenHeadAndTail, InUse, Valid
<1>1. i \in Index /\ q.head \in Index /\ q.tail \in Index /\ r.head \in Index
  BY RingTyped
<1>2. k \in Int /\ k <= Ahead(q.head, i)
  BY DEF Index
<1>3. Ahead(r.head, i) = Ahead(q.head, i) - k
  <2>1. PICK h \in Index : h = q.head
    BY <1>1
  <2>2. \A b \in Index : k <= Ahead(h, b) => Ahead((h + k) % RingSize, b) = Ahead(h, b) - k
    BY RoundAhead, Zenon
  <2> QED
    BY <1>1, <1>2, <2>1, <2>2, Zenon
<1>4. Ahead(q.head, i) \in 0 .. RingSize - 1 /\ Ahead(q.head, q.tail) \in 0 .. RingSize - 1
  BY <1>1, AheadIs DEF Index
<1>5. CASE q.tail = q.head
  <2>1. k # 0
    <3>1. 0 \in 0 .. RingSize /\ q.head + 0 < RingSize
      BY <1>1 DEF Index
    <3>2. (q.head + 0) % RingSize = q.head + 0
      BY <1>1, <3>1, Round
    <3>3. q.head + 0 = q.head
      BY <1>1 DEF Index
    <3> QED
      BY <1>5, <3>2, <3>3
  <2>2. Ahead(r.head, q.tail) = RingSize - k
    BY <1>1, <1>5, <2>1, RoundAhead
  <2> QED
    BY <1>2, <1>3, <1>4, <2>2
<1>6. CASE q.tail # q.head
  <2>1. Ahead(q.head, i) < Ahead(q.head, q.tail)
    BY <1>6 DEF BetweenHeadAndTail
  <2>2. k <= Ahead(q.head, q.tail)
    BY <1>2, <1>4, <2>1
  <2>3. Ahead(r.head, q.tail) = Ahead(q.head, q.tail) - k
    BY <1>1, <2>2, RoundAhead
  <2> QED
    BY <1>2, <1>3, <1>4, <2>1, <2>3
<1> QED
  BY <1>5, <1>6

\* The head catches up with the first slot that waits, if one does.
LEMMA CatchUpRing ==
  ASSUME NEW q \in Rings
  PROVE  /\ CatchUp(q) \in Rings /\ CatchUp(q).count = q.count
         /\ InUse(CatchUp(q)) = InUse(q)
         /\ Counts(q) => Counts(CatchUp(q))
<1> DEFINE r == CatchUp(q)
<1> DEFINE ahead == {k \in Index : Valid(q, (q.head + k) % RingSize)}
<1>1. CASE q.count = 0
  <2>1. r = [q EXCEPT !.head = q.tail]
    BY <1>1 DEF CatchUp
  <2> HIDE DEF r
  <2>2. r \in Rings /\ r.count = q.count /\ r.slot = q.slot /\ r.head = r.tail
    BY <2>1, RingTyped DEF Rings
  <2>3. InUse(r) = InUse(q)
    BY <2>2 DEF InUse, Valid
  <2> QED
    BY <2>2, <2>3 DEF r, Counts, BetweenHeadAndTail
<1>2. CASE q.count # 0 /\ ahead = {}
  BY <1>2 DEF CatchUp
<1>3. CASE q.count # 0 /\ ahead # {}
  <2> DEFINE m == Min(ahead)
  <2>1. r = [q EXCEPT !.head = (q.head + m) % RingSize]
    BY <1>3 DEF CatchUp
  <2>2. m \in ahead /\ \A k \in ahead : m <= k
    <3>1. ahead \in SUBSET Nat
      BY DEF Index
    <3> QED
      BY <1>3, <3>1, MinIsLowest
  <2>3. m \in Index
    BY <2>2
  <2>4. \A i \in InUse(q) : m <= Ahead(q.head, i)
    <3>1. SUFFICES ASSUME NEW i \in InUse(q) PROVE Ahead(q.head, i) \in ahead
      BY <2>2
    <3>2. i \in Index /\ q.head \in Index /\ Valid(q, i)
      BY RingTyped DEF InUse
    <3> QED
      BY <3>2, AheadIs, AheadRound
  <2> HIDE DEF r, m, ahead
  <2>5. (q.head + m) % RingSize \in Index
    <3>1. m \in 0 .. RingSize /\ q.head \in Index
      BY <2>3, RingTyped DEF Index
    <3> QED
      BY <3>1, Round, Zenon
  <2>6. /\ r \in Rings /\ r.count = q.count /\ r.slot = q.slot /\ r.tail = q.tail
        /\ r.head = (q.head + m) % RingSize
    BY <2>1, <2>5 DEF Rings
  <2>7. InUse(r) = InUse(q)
    BY <2>6 DEF InUse, Valid
  <2>8. BetweenHeadAndTail(q) => BetweenHeadAndTail(r)
    BY <2>3, <2>4, <2>6, HeadMoves
  <2> QED
    BY <2>6, <2>7, <2>8 DEF r, Counts
<1> QED
  BY <1>1, <1>2, <1>3

\* A ring with one slot emptied and its counter lower by one.
LEMMA Emptied ==
  ASSUME NEW q \in Rings, NEW i \in InUse(q), q.count >= 1
  PROVE  LET s == [q EXCEPT !.slot[i] = NoDatagram, !.count = q.count - 1]
         IN  /\ s \in Rings
             /\ s.slot = [q.slot EXCEPT ![i] = NoDatagram] /\ s.head = q.head
             /\ s.tail = q.tail /\ s.count = q.count - 1
<1>1. [q.slot EXCEPT ![i] = NoDatagram] \in [Index -> {NoDatagram} \cup Datagrams]
  BY RingTyped
<1>2. q.count - 1 \in 0 .. RingSize
  BY RingTyped
<1> QED
  BY <1>1, <1>2 DEF Rings

\* udp_recv_next_for_port: one datagram less, and the loop ends as long as the
\* counter is exact.
LEMMA TakeForRing ==
  ASSUME NEW q \in Rings, NEW port \in Nat \ {0}, Matching(q, port) # {}, AtLeast(q)
  PROVE  /\ TakeFor(q, port).ring \in Rings /\ AtLeast(TakeFor(q, port).ring)
         /\ TakeFor(q, port).loops \in BOOLEAN
         /\ Counts(q) => Counts(TakeFor(q, port).ring) /\ ~TakeFor(q, port).loops
<1> DEFINE i == OldestFor(q, port)
<1> DEFINE s == [q EXCEPT !.slot[i] = NoDatagram, !.count = q.count - 1]
<1>1. i \in InUse(q) /\ q.count # 0
  <2>1. Matching(q, port) \in SUBSET Nat /\ Matching(q, port) \subseteq Index /\ q.count # 0
    BY DEF Matching, Index
  <2>2. Min(Matching(q, port)) \in Matching(q, port)
    BY <2>1, MinIsLowest
  <2>3. q.slot[i].dst = port
    BY <2>1, <2>2 DEF OldestFor, Matching
  <2>4. Min(Matching(q, port)) \in 0 .. RingSize
    BY <2>1, <2>2 DEF Index
  <2>5. i \in Index
    BY <2>4, RingTyped, Round DEF OldestFor
  <2> QED
    BY <2>1, <2>3, <2>5 DEF InUse, Valid
<1>2. TakeFor(q, port).ring = CatchUp(s) /\ TakeFor(q, port).loops = Loops(s)
  BY DEF TakeFor
<1> HIDE DEF i
<1>3. s.slot = [q.slot EXCEPT ![i] = NoDatagram] /\ s.head = q.head /\ s.tail = q.tail
      /\ s.count = q.count - 1 /\ s \in Rings
  <2>1. q.count >= 1
    BY <1>1, RingTyped
  <2> QED
    BY <1>1, <2>1, Emptied, Zenon
<1> HIDE DEF s
<1>4. /\ InUse(s) = InUse(q) \ {i} /\ Cardinality(InUse(s)) = Cardinality(InUse(q)) - 1
      /\ s.slot \in [Index -> {NoDatagram} \cup Datagrams]
  BY <1>1, <1>3, EmptyOne, RingTyped
<1>7. AtLeast(s)
  BY <1>3, <1>4, InUseFinite, RingTyped DEF AtLeast
<1>8. Counts(q) => Counts(s)
  BY <1>3, <1>4 DEF Counts, BetweenHeadAndTail
<1>9. Counts(s) => ~Loops(s)
  BY InUseFinite DEF Counts, Loops
<1> QED
  BY <1>2, <1>3, <1>7, <1>8, <1>9, CatchUpRing DEF AtLeast, Loops

\* udp_recv_next without a listener: the datagram at the head, and one slot on.
LEMMA TakeHeadRing ==
  ASSUME NEW q \in Rings, q.count > 0, Valid(q, q.head), AtLeast(q)
  PROVE  /\ TakeHead(q).ring \in Rings /\ AtLeast(TakeHead(q).ring)
         /\ Counts(q) => Counts(TakeHead(q).ring)
<1> DEFINE s == [q EXCEPT !.slot[q.head] = NoDatagram, !.count = q.count - 1]
<1> DEFINE r == TakeHead(q).ring
<1>1. q.head \in InUse(q)
  BY RingTyped DEF InUse
<1>2. s.slot = [q.slot EXCEPT ![q.head] = NoDatagram] /\ s.head = q.head /\ s.tail = q.tail
      /\ s.count = q.count - 1 /\ s \in Rings
  <2>1. q.count >= 1
    BY <1>1, RingTyped
  <2> QED
    BY <1>1, <2>1, Emptied, Zenon
<1>3. r.slot = s.slot /\ r.head = (q.head + 1) % RingSize /\ r.tail = q.tail
      /\ r.count = s.count
  BY DEF Rings, TakeHead, After
<1>5. r = [s EXCEPT !.head = (q.head + 1) % RingSize]
  BY DEF Rings, TakeHead, After
<1> HIDE DEF s, r
<1>4. /\ InUse(s) = InUse(q) \ {q.head} /\ Cardinality(InUse(s)) = Cardinality(InUse(q)) - 1
      /\ s.slot \in [Index -> {NoDatagram} \cup Datagrams]
  BY <1>1, <1>2, EmptyOne, RingTyped
<1>7. (q.head + 1) % RingSize \in Index
  <2>1. 1 \in 0 .. RingSize /\ q.head \in Index
    BY RingTyped
  <2> QED
    BY <2>1, Round, Zenon
<1>8. r \in Rings
  BY <1>2, <1>5, <1>7 DEF Rings
<1>9. InUse(r) = InUse(s)
  BY <1>3 DEF InUse, Valid
<1>10. AtLeast(r)
  BY <1>2, <1>3, <1>4, <1>9, InUseFinite, RingTyped DEF AtLeast
<1>11. ASSUME Counts(q) PROVE Counts(r)
  <2>1. r.count = Cardinality(InUse(r)) /\ BetweenHeadAndTail(s)
    BY <1>2, <1>3, <1>4, <1>9, <1>11 DEF Counts, BetweenHeadAndTail
  <2>2. CASE 1 \in Index
    <3>1. ASSUME NEW i \in InUse(s) PROVE 1 <= Ahead(s.head, i)
      <4>1. i \in Index /\ i # q.head /\ q.head \in Index
        BY <1>4, RingTyped
      <4>2. Ahead(q.head, i) = IF i >= q.head THEN i - q.head ELSE i - q.head + RingSize
        BY <4>1, AheadIs
      <4> QED
        BY <1>2, <4>1, <4>2 DEF Index
    <3>2. BetweenHeadAndTail(r)
      BY <1>2, <1>3, <1>8, <2>1, <2>2, <3>1, HeadMoves
    <3> QED
      BY <2>1, <3>2 DEF Counts
  <2>3. CASE 1 \notin Index
    <3>1. InUse(r) = {}
      BY <1>1, <1>4, <1>9, <2>3 DEF InUse, Index
    <3> QED
      BY <2>1, <3>1 DEF Counts, BetweenHeadAndTail
  <2> QED
    BY <2>2, <2>3
<1> QED
  BY <1>8, <1>10, <1>11 DEF r

\* udp_discard_for_port: the ring as it was, or as it started.
LEMMA DiscardRing ==
  ASSUME NEW q \in Rings, NEW port, AtLeast(q)
  PROVE  /\ Discard(q, port) \in Rings /\ AtLeast(Discard(q, port))
         /\ Counts(q) => Counts(Discard(q, port))
<1>1. RingInit \in Rings
  BY DEF RingInit, Rings, Index
<1>2. InUse(RingInit) = {} /\ RingInit.count = 0 /\ RingInit.head = RingInit.tail
  BY DEF RingInit, InUse, Valid, NoDatagram
<1>3. AtLeast(RingInit) /\ Counts(RingInit)
  BY <1>2, FS_EmptySet DEF AtLeast, Counts, BetweenHeadAndTail
<1> QED
  BY <1>1, <1>3 DEF Discard

-----------------------------------------------------------------------------
(* What a scan of the slots meets.                                         *)

\* Slots in the order of a scan, as far as the ring is typed.
Scans == [1 .. RingSize -> {NoDatagram} \cup Datagrams]

\* The recursive function of Met exists, and what it finds are datagrams, at most
\* one for each slot.
LEMMA MetIs ==
  ASSUME NEW e \in Scans
  PROVE  /\ Met(e)[0] = <<>>
         /\ \A k \in 1 .. RingSize :
              Met(e)[k] = IF e[k].dst # 0 THEN Append(Met(e)[k - 1], e[k]) ELSE Met(e)[k - 1]
<1> DEFINE IsMet(g, m) ==
             g = [k \in 0 .. m |-> IF k = 0 THEN <<>>
                                   ELSE IF e[k].dst # 0 THEN Append(g[k - 1], e[k]) ELSE g[k - 1]]
<1> DEFINE T == {m \in 0 .. RingSize : \E g : IsMet(g, m)}
<1>1. 0 \in T
  <2> DEFINE g == [k \in 0 .. 0 |-> <<>>]
  <2>1. IsMet(g, 0)
    OBVIOUS
  <2> HIDE DEF g, IsMet
  <2> QED BY <2>1
<1>2. ASSUME NEW m \in 1 .. RingSize, m - 1 \in T  PROVE m \in T
  <2>1. PICK g : IsMet(g, m - 1)
    BY <1>2
  <2> DEFINE h == [k \in 0 .. m |-> IF k = 0 THEN <<>>
                                    ELSE IF e[k].dst # 0 THEN Append(g[k - 1], e[k]) ELSE g[k - 1]]
  <2>2. ASSUME NEW k \in 0 .. m - 1  PROVE h[k] = g[k]
    <3>1. k \in 0 .. m
      OBVIOUS
    <3>2. h[k] = IF k = 0 THEN <<>>
                 ELSE IF e[k].dst # 0 THEN Append(g[k - 1], e[k]) ELSE g[k - 1]
      BY <3>1, Zenon
    <3>3. g[k] = IF k = 0 THEN <<>>
                 ELSE IF e[k].dst # 0 THEN Append(g[k - 1], e[k]) ELSE g[k - 1]
      <4> HIDE DEF h
      <4> QED BY <2>1, Zenon
    <3> HIDE DEF h
    <3> QED BY <3>2, <3>3
  <2>3. IsMet(h, m)
    <3>1. \A k \in 0 .. m :
            h[k] = IF k = 0 THEN <<>>
                   ELSE IF e[k].dst # 0 THEN Append(h[k - 1], e[k]) ELSE h[k - 1]
      <4>1. \A k \in 0 .. m :
              h[k] = IF k = 0 THEN <<>>
                     ELSE IF e[k].dst # 0 THEN Append(g[k - 1], e[k]) ELSE g[k - 1]
        OBVIOUS
      <4> HIDE DEF h
      <4> QED BY <2>2, <4>1
    <3>2. h = [k \in 0 .. m |-> h[k]]
      OBVIOUS
    <3> HIDE DEF h
    <3> QED BY <3>1, <3>2
  <2> HIDE DEF h, IsMet
  <2> QED BY <2>3
<1>3. RingSize \in T
  <2> HIDE DEF T
  <2>1. 0 .. RingSize \subseteq T
    BY <1>1, <1>2, UpTo
  <2> QED BY <2>1
<1>4. IsMet(Met(e), RingSize)
  BY <1>3 DEF Met
<1>5. PICK M : M = Met(e)
  OBVIOUS
<1>6. M = [k \in 0 .. RingSize |-> IF k = 0 THEN <<>>
              ELSE IF e[k].dst # 0 THEN Append(M[k - 1], e[k]) ELSE M[k - 1]]
  BY <1>4, <1>5
<1>7. \A k \in 0 .. RingSize :
        M[k] = IF k = 0 THEN <<>>
               ELSE IF e[k].dst # 0 THEN Append(M[k - 1], e[k]) ELSE M[k - 1]
  BY <1>6, Zenon
<1> QED BY <1>5, <1>7

\* A datagram has a port, an empty slot has none.
LEMMA ScanTyped ==
  ASSUME NEW e \in Scans, NEW k \in 1 .. RingSize
  PROVE  /\ e[k].dst # 0 => e[k] \in Datagrams
         /\ e[k].dst = 0 => e[k] = NoDatagram
<1>1. e[k] \in {NoDatagram} \cup Datagrams
  BY DEF Scans
<1>2. \A d \in Datagrams : d.dst \in StrayPorts /\ d.dst # 0
  BY DEF Datagrams
<1> QED BY <1>1, <1>2 DEF NoDatagram

\* A scan of k slots meets at most k datagrams.
LEMMA MetTyped ==
  ASSUME NEW e \in Scans
  PROVE  \A k \in 0 .. RingSize : Met(e)[k] \in Seq(Datagrams) /\ Len(Met(e)[k]) <= k
<1> DEFINE T == {k \in 0 .. RingSize : Met(e)[k] \in Seq(Datagrams) /\ Len(Met(e)[k]) <= k}
<1>1. 0 \in T
  <2>1. Met(e)[0] = <<>>
    BY MetIs
  <2>2. <<>> \in Seq(Datagrams) /\ Len(<<>>) <= 0
    OBVIOUS
  <2>3. Met(e)[0] \in Seq(Datagrams) /\ Len(Met(e)[0]) <= 0
    BY <2>1, <2>2, Zenon
  <2>4. 0 \in 0 .. RingSize
    OBVIOUS
  <2> QED BY <2>3, <2>4, Zenon
<1>2. ASSUME NEW k \in 1 .. RingSize, k - 1 \in T  PROVE k \in T
  <2>1. PICK s \in Seq(Datagrams) : s = Met(e)[k - 1] /\ Len(s) <= k - 1
    BY <1>2
  <2>2. Met(e)[k] = IF e[k].dst # 0 THEN Append(s, e[k]) ELSE s
    BY <2>1, MetIs
  <2>3. CASE e[k].dst # 0
    <3>1. e[k] \in Datagrams
      BY <2>3, ScanTyped
    <3>2. Append(s, e[k]) \in Seq(Datagrams) /\ Len(Append(s, e[k])) = Len(s) + 1 /\ Len(s) \in Nat
      BY <3>1
    <3>3. Met(e)[k] = Append(s, e[k])
      BY <2>2, <2>3
    <3>4. Len(Append(s, e[k])) <= k
      BY <2>1, <3>2
    <3>5. Met(e)[k] \in Seq(Datagrams) /\ Len(Met(e)[k]) <= k
      BY <3>2, <3>3, <3>4, Zenon
    <3>6. k \in 0 .. RingSize
      OBVIOUS
    <3> QED BY <3>5, <3>6, Zenon
  <2>4. CASE e[k].dst = 0
    <3>1. Len(s) \in Nat
      OBVIOUS
    <3> QED BY <2>1, <2>2, <2>4, <3>1
  <2> QED BY <2>3, <2>4
<1>3. 0 .. RingSize \subseteq T
  <2> HIDE DEF T
  <2> QED BY <1>1, <1>2, UpTo
<1> QED BY <1>3

\* Slots that are empty add nothing to what was met before them.
LEMMA MetEmpty ==
  ASSUME NEW e \in Scans, NEW m \in 0 .. RingSize, NEW n \in m .. RingSize,
         \A k \in m + 1 .. n : e[k].dst = 0
  PROVE  Met(e)[n] = Met(e)[m]
<1> DEFINE T == {k \in 0 .. n : k >= m => Met(e)[k] = Met(e)[m]}
<1>1. 0 \in T
  OBVIOUS
<1>2. ASSUME NEW k \in 1 .. n, k - 1 \in T  PROVE k \in T
  <2>1. CASE k <= m
    BY <2>1
  <2>2. CASE k > m
    <3>1. e[k].dst = 0 /\ k - 1 >= m /\ k \in 1 .. RingSize
      BY <2>2
    <3>2. Met(e)[k] = Met(e)[k - 1]
      BY <3>1, MetIs
    <3> QED BY <1>2, <3>1, <3>2
  <2> QED BY <2>1, <2>2
<1>3. 0 .. n \subseteq T
  <2>1. n \in Nat
    OBVIOUS
  <2> HIDE DEF T
  <2> QED BY <1>1, <1>2, <2>1, UpTo
<1> QED BY <1>3

\* What one scan meets from slot a on is what another meets from slot b on, when
\* the slots are the same and what came before them was.
LEMMA MetSame ==
  ASSUME NEW e \in Scans, NEW f \in Scans, NEW a \in Nat, NEW b \in Nat, NEW n \in Nat,
         a + n <= RingSize, b + n <= RingSize, Met(f)[b] = Met(e)[a],
         \A k \in 1 .. n : f[b + k] = e[a + k]
  PROVE  Met(f)[b + n] = Met(e)[a + n]
<1> DEFINE T == {k \in 0 .. n : Met(f)[b + k] = Met(e)[a + k]}
<1>1. 0 \in T
  BY a + 0 = a, b + 0 = b
<1>2. ASSUME NEW k \in 1 .. n, k - 1 \in T  PROVE k \in T
  <2>1. a + k \in 1 .. RingSize /\ b + k \in 1 .. RingSize
    OBVIOUS
  <2>2. (a + k) - 1 = a + (k - 1) /\ (b + k) - 1 = b + (k - 1)
    OBVIOUS
  <2>3. Met(e)[a + k] = IF e[a + k].dst # 0 THEN Append(Met(e)[a + (k - 1)], e[a + k])
                                            ELSE Met(e)[a + (k - 1)]
    BY <2>1, <2>2, MetIs
  <2>4. Met(f)[b + k] = IF f[b + k].dst # 0 THEN Append(Met(f)[b + (k - 1)], f[b + k])
                                            ELSE Met(f)[b + (k - 1)]
    BY <2>1, <2>2, MetIs
  <2>5. Met(f)[b + (k - 1)] = Met(e)[a + (k - 1)] /\ f[b + k] = e[a + k]
    BY <1>2
  <2> QED BY <2>3, <2>4, <2>5
<1>3. 0 .. n \subseteq T
  <2> HIDE DEF T
  <2> QED BY <1>1, <1>2, UpTo
<1>4. n \in T
  BY <1>3
<1> QED BY <1>4

\* Slots that are all empty hold nothing.
LEMMA MetNothing ==
  ASSUME NEW e \in Scans, \A k \in 1 .. RingSize : e[k].dst = 0
  PROVE  Met(e)[RingSize] = <<>>
<1>1. Met(e)[RingSize] = Met(e)[0]
  <2>1. 0 \in 0 .. RingSize /\ \A k \in 0 + 1 .. RingSize : e[k].dst = 0
    OBVIOUS
  <2> QED BY <2>1, MetEmpty
<1> QED BY <1>1, MetIs

\* A datagram put behind everything that waits is appended.
LEMMA MetAppended ==
  ASSUME NEW e \in Scans, NEW t \in 1 .. RingSize, NEW d \in Datagrams,
         \A k \in t .. RingSize : e[k].dst = 0
  PROVE  /\ Met([e EXCEPT ![t] = d])[RingSize] = Append(Met(e)[RingSize], d)
         /\ Len(Met(e)[RingSize]) < RingSize
<1> DEFINE f == [e EXCEPT ![t] = d]
<1>1. f \in Scans /\ f[t] = d /\ \A k \in 1 .. RingSize : k # t => f[k] = e[k]
  BY DEF Scans
<1> HIDE DEF f
<1>2. t - 1 \in 0 .. RingSize /\ t - 1 \in Nat /\ t \in 0 .. RingSize
  OBVIOUS
<1>3. Met(f)[0] = Met(e)[0]
  BY <1>1, MetIs
<1>4. Met(f)[t - 1] = Met(e)[t - 1]
  <2> DEFINE n == t - 1
  <2>1. n \in Nat /\ 0 + n <= RingSize /\ 0 + n = n /\ \A k \in 1 .. n : f[0 + k] = e[0 + k]
    BY <1>1, <1>2
  <2> HIDE DEF n
  <2>2. PICK a \in Nat : a = 0
    OBVIOUS
  <2>3. /\ a + n <= RingSize /\ Met(f)[a] = Met(e)[a]
        /\ \A k \in 1 .. n : f[a + k] = e[a + k]
    BY <1>3, <2>1, <2>2
  <2>4. Met(f)[a + n] = Met(e)[a + n]
    BY ONLY <1>1, <2>1, <2>2, <2>3, e \in Scans, MetSame
  <2>5. a + n = n
    BY <2>1, <2>2
  <2> QED BY <2>4, <2>5 DEF n
<1>5. Met(f)[t] = Append(Met(f)[t - 1], d)
  <2>1. d.dst # 0
    BY DEF Datagrams
  <2> QED BY <1>1, <2>1, MetIs
<1>6. Met(f)[RingSize] = Met(f)[t]
  <2>1. \A k \in t + 1 .. RingSize : f[k].dst = 0
    BY <1>1
  <2> QED BY <1>1, <1>2, <2>1, MetEmpty
<1>7. Met(e)[RingSize] = Met(e)[t - 1]
  <2>1. \A k \in (t - 1) + 1 .. RingSize : e[k].dst = 0
    OBVIOUS
  <2> QED BY <1>2, <2>1, MetEmpty
<1>8. Len(Met(e)[t - 1]) <= t - 1 /\ Len(Met(e)[t - 1]) \in Nat
  <2>1. PICK s \in Seq(Datagrams) : s = Met(e)[t - 1] /\ Len(s) <= t - 1
    BY <1>2, MetTyped
  <2> QED BY <2>1
<1>9. Len(Met(e)[t - 1]) < RingSize
  <2>1. PICK n \in Nat : n = Len(Met(e)[t - 1])
    BY <1>8
  <2> QED BY <1>8, <2>1
<1> QED BY <1>4, <1>5, <1>6, <1>7, <1>9 DEF f

\* A sequence with one element less.
Without(s, i) == SubSeq(s, 1, i - 1) \o SubSeq(s, i + 1, Len(s))

LEMMA WithoutOf ==
  ASSUME NEW S, NEW s \in Seq(S), NEW x \in S
  PROVE  /\ \A i \in 1 .. Len(s) : Without(Append(s, x), i) = Append(Without(s, i), x)
         /\ Without(Append(s, x), Len(s) + 1) = s
<1> DEFINE a == Append(s, x)
<1>1. a \in Seq(S) /\ Len(a) = Len(s) + 1 /\ Len(s) \in Nat
      /\ \A k \in 1 .. Len(a) : a[k] = IF k = Len(s) + 1 THEN x ELSE s[k]
  OBVIOUS
<1> HIDE DEF a
<1>2. ASSUME NEW i \in 1 .. Len(s)  PROVE Without(a, i) = Append(Without(s, i), x)
  <2>1. SubSeq(a, 1, i - 1) = SubSeq(s, 1, i - 1)
    BY <1>1
  <2>2. SubSeq(a, i + 1, Len(a)) = Append(SubSeq(s, i + 1, Len(s)), x)
    <3> DEFINE u == SubSeq(a, i + 1, Len(a))
    <3> DEFINE v == SubSeq(s, i + 1, Len(s))
    <3> DEFINE n == Len(s) - i
    <3>1. n \in Nat /\ i \in Nat
      BY <1>1
    <3>2. u \in Seq(S) /\ Len(u) = n + 1 /\ \A k \in 1 .. n + 1 : u[k] = a[i + k]
      BY <1>1, SMTT(30)
    <3>3. v \in Seq(S) /\ Len(v) = n /\ \A k \in 1 .. n : v[k] = s[i + k]
      BY <1>1
    <3>4. \A k \in 1 .. n + 1 : a[i + k] = IF k = n + 1 THEN x ELSE s[i + k]
      BY <1>1
    <3> HIDE DEF u, v, n
    <3>5. Append(v, x) \in Seq(S) /\ Len(Append(v, x)) = n + 1
          /\ \A k \in 1 .. n + 1 : Append(v, x)[k] = IF k = n + 1 THEN x ELSE v[k]
      BY <3>1, <3>3
    <3>6. ASSUME NEW k \in 1 .. n + 1  PROVE u[k] = Append(v, x)[k]
      <4>1. k # n + 1 => k \in 1 .. n
        BY <3>1
      <4> QED BY <3>2, <3>3, <3>4, <3>5, <4>1
    <3>7. u = Append(v, x)
      BY <3>1, <3>2, <3>5, <3>6
    <3> QED BY <3>7 DEF u, v
  <2>3. SubSeq(s, 1, i - 1) \in Seq(S) /\ SubSeq(s, i + 1, Len(s)) \in Seq(S)
    BY <1>1
  <2>4. ASSUME NEW u \in Seq(S), NEW v \in Seq(S)  PROVE u \o Append(v, x) = Append(u \o v, x)
    OBVIOUS
  <2> QED BY <2>1, <2>2, <2>3, <2>4 DEF Without
<1>3. Without(a, Len(s) + 1) = s
  <2>1. SubSeq(a, 1, (Len(s) + 1) - 1) = s
    BY <1>1
  <2>2. SubSeq(a, (Len(s) + 1) + 1, Len(a)) = <<>>
    BY <1>1
  <2>3. s \o <<>> = s
    OBVIOUS
  <2> QED BY <2>1, <2>2, <2>3 DEF Without
<1> QED BY <1>2, <1>3 DEF a

\* The first slot with a port that is emptied takes the oldest datagram of the port
\* out of what the scan meets, and nothing else.
LEMMA MetTaken ==
  ASSUME NEW e \in Scans, NEW t \in 1 .. RingSize, e[t].dst # 0,
         \A k \in 1 .. t - 1 : e[k].dst # e[t].dst
  PROVE  \E j \in 1 .. Len(Met(e)[RingSize]) :
            /\ \A i \in 1 .. j - 1 : Met(e)[RingSize][i].dst # Met(e)[RingSize][j].dst
            /\ Met([e EXCEPT ![t] = NoDatagram])[RingSize] = Without(Met(e)[RingSize], j)
<1> DEFINE f == [e EXCEPT ![t] = NoDatagram]
<1>1. f \in Scans /\ f[t].dst = 0 /\ \A k \in 1 .. RingSize : k # t => f[k] = e[k]
  BY DEF Scans, NoDatagram
<1> HIDE DEF f
<1>2. t - 1 \in 0 .. RingSize /\ t - 1 \in Nat /\ t \in 0 .. RingSize
  OBVIOUS
<1>3. \A k \in 0 .. t - 1 : /\ Met(f)[k] = Met(e)[k]
                            /\ \A i \in 1 .. Len(Met(e)[k]) : Met(e)[k][i].dst # e[t].dst
  <2> DEFINE T == {k \in 0 .. t - 1 :
                     /\ Met(f)[k] = Met(e)[k]
                     /\ \A i \in 1 .. Len(Met(e)[k]) : Met(e)[k][i].dst # e[t].dst}
  <2>1. 0 \in T
    <3>1. Met(e)[0] = <<>> /\ Met(f)[0] = <<>>
      BY <1>1, MetIs
    <3>2. PICK s \in Seq(Datagrams) : s = Met(e)[0] /\ Len(s) = 0
      <4>1. <<>> \in Seq(Datagrams) /\ Len(<<>>) = 0
        OBVIOUS
      <4> QED BY <3>1, <4>1, Zenon
    <3>3. 0 \in 0 .. t - 1
      OBVIOUS
    <3> QED BY <3>1, <3>2, <3>3
  <2>2. ASSUME NEW k \in 1 .. t - 1, k - 1 \in T  PROVE k \in T
    <3>1. k \in 1 .. RingSize /\ k # t /\ k - 1 \in 0 .. RingSize /\ k \in 0 .. t - 1
      OBVIOUS
    <3>2. PICK s \in Seq(Datagrams) : s = Met(e)[k - 1]
      BY <3>1, MetTyped
    <3>3. Met(f)[k - 1] = s /\ \A i \in 1 .. Len(s) : s[i].dst # e[t].dst
      BY <2>2, <3>2
    <3>4. Met(e)[k] = IF e[k].dst # 0 THEN Append(s, e[k]) ELSE s
      BY <3>1, <3>2, MetIs
    <3>5. Met(f)[k] = IF e[k].dst # 0 THEN Append(s, e[k]) ELSE s
      BY <1>1, <3>1, <3>3, MetIs
    <3>6. ASSUME e[k].dst # 0
          PROVE  \A i \in 1 .. Len(Append(s, e[k])) : Append(s, e[k])[i].dst # e[t].dst
      <4>1. e[k].dst # e[t].dst
        BY <3>1
      <4>2. \A i \in 1 .. Len(Append(s, e[k])) :
               Append(s, e[k])[i] = e[k] \/ (i \in 1 .. Len(s) /\ Append(s, e[k])[i] = s[i])
        OBVIOUS
      <4> QED BY <3>3, <4>1, <4>2
    <3> QED BY <3>1, <3>3, <3>4, <3>5, <3>6
  <2>3. 0 .. t - 1 \subseteq T
    <3> HIDE DEF T
    <3> QED BY <1>2, <2>1, <2>2, UpTo
  <2> QED BY <2>3
<1>4. PICK s \in Seq(Datagrams) : s = Met(e)[t - 1]
  BY <1>2, MetTyped
<1>5. Met(f)[t - 1] = s /\ \A i \in 1 .. Len(s) : s[i].dst # e[t].dst
  <2>1. t - 1 \in 0 .. t - 1
    OBVIOUS
  <2> QED BY <1>3, <1>4, <2>1
<1>6. Met(f)[t] = s /\ Met(e)[t] = Append(s, e[t]) /\ e[t] \in Datagrams
  <2>1. Met(e)[t] = IF e[t].dst # 0 THEN Append(Met(e)[t - 1], e[t]) ELSE Met(e)[t - 1]
    BY MetIs
  <2>2. Met(f)[t] = IF f[t].dst # 0 THEN Append(Met(f)[t - 1], f[t]) ELSE Met(f)[t - 1]
    BY <1>1, MetIs
  <2> QED BY <1>1, <1>4, <1>5, <2>1, <2>2, ScanTyped
<1> DEFINE j == Len(s) + 1
<1> DEFINE P(w, v) == /\ j <= Len(w) /\ w[j] = e[t] /\ v = Without(w, j)
                      /\ \A i \in 1 .. j - 1 : w[i].dst # e[t].dst
<1>7. P(Append(s, e[t]), s)
  <2>1. Without(Append(s, e[t]), Len(s) + 1) = s
    BY <1>6, WithoutOf
  <2>2. Len(Append(s, e[t])) = j /\ Append(s, e[t])[j] = e[t]
        /\ \A i \in 1 .. j - 1 : Append(s, e[t])[i] = s[i] /\ i \in 1 .. Len(s)
    BY <1>6
  <2>3. j \in Int
    OBVIOUS
  <2> HIDE DEF j
  <2> QED BY <1>5, <2>1, <2>2, <2>3 DEF j
<1>8. ASSUME NEW w \in Seq(Datagrams), NEW v, P(w, v), NEW x \in Datagrams
      PROVE  P(Append(w, x), Append(v, x))
  <2>1. j \in 1 .. Len(w)
    BY <1>8
  <2>2. Without(Append(w, x), j) = Append(Without(w, j), x)
    BY <2>1, WithoutOf
  <2>3. Len(Append(w, x)) = Len(w) + 1 /\ \A i \in 1 .. Len(w) : Append(w, x)[i] = w[i]
    OBVIOUS
  <2>4. Len(w) \in Nat /\ j \in Nat /\ \A i \in 1 .. j - 1 : i \in 1 .. Len(w)
    BY <2>1
  <2> HIDE DEF j
  <2> QED BY <1>8, <2>1, <2>2, <2>3, <2>4
<1>9. P(Met(e)[RingSize], Met(f)[RingSize])
  <2> DEFINE T == {k \in 0 .. RingSize : k >= t => P(Met(e)[k], Met(f)[k])}
  <2>1. 0 \in T
    OBVIOUS
  <2>2. ASSUME NEW k \in 1 .. RingSize, k - 1 \in T  PROVE k \in T
    <3> HIDE DEF P
    <3>1. CASE k < t
      BY <3>1
    <3>2. CASE k = t
      <4>1. P(Met(e)[t], Met(f)[t])
        BY <1>6, <1>7, Zenon
      <4> QED BY <3>2, <4>1
    <3>3. CASE k > t
      <4>1. P(Met(e)[k - 1], Met(f)[k - 1]) /\ e[k] = f[k] /\ k - 1 \in 0 .. RingSize
        BY <1>1, <2>2, <3>3
      <4>2. PICK w \in Seq(Datagrams) : w = Met(e)[k - 1]
        BY <4>1, MetTyped
      <4>3. Met(e)[k] = IF e[k].dst # 0 THEN Append(w, e[k]) ELSE w
        BY <4>2, MetIs
      <4>4. Met(f)[k] = IF e[k].dst # 0 THEN Append(Met(f)[k - 1], e[k]) ELSE Met(f)[k - 1]
        BY <1>1, <4>1, MetIs
      <4>5. e[k].dst # 0 => P(Append(w, e[k]), Append(Met(f)[k - 1], e[k]))
        BY <1>8, <4>1, <4>2, ScanTyped
      <4> QED BY <4>1, <4>2, <4>3, <4>4, <4>5
    <3> QED BY <3>1, <3>2, <3>3
  <2>3. 0 .. RingSize \subseteq T
    <3> HIDE DEF T
    <3> QED BY <2>1, <2>2, UpTo
  <2> HIDE DEF P
  <2> QED BY <2>3
<1>10. j \in Nat /\ j >= 1
  OBVIOUS
<1>11. PICK w \in Seq(Datagrams) : w = Met(e)[RingSize]
  BY MetTyped
<1>12. j \in 1 .. Len(w)
  BY <1>9, <1>10, <1>11
<1> HIDE DEF j
<1> QED BY <1>9, <1>11, <1>12 DEF f

-----------------------------------------------------------------------------
(* The ring as a queue.                                                    *)

\* The slot k on from the head is the one the scan looks at in its step k + 1.
LEMMA ScannedIs ==
  ASSUME NEW q \in Rings
  PROVE  /\ Scanned(q) \in Scans
         /\ \A k \in 1 .. RingSize : /\ (q.head + (k - 1)) % RingSize \in Index
                                     /\ Scanned(q)[k] = q.slot[(q.head + (k - 1)) % RingSize]
         /\ \A i \in Index : /\ Ahead(q.head, i) + 1 \in 1 .. RingSize
                             /\ Scanned(q)[Ahead(q.head, i) + 1] = q.slot[i]
<1>1. PICK h \in Index : h = q.head
  BY RingTyped
<1>2. q.slot \in [Index -> {NoDatagram} \cup Datagrams]
  BY RingTyped
<1>3. ASSUME NEW k \in 1 .. RingSize
      PROVE  /\ (h + (k - 1)) % RingSize \in Index
             /\ Scanned(q)[k] = q.slot[(h + (k - 1)) % RingSize]
  <2>1. k - 1 \in 0 .. RingSize /\ h + k - 1 = h + (k - 1)
    BY DEF Index
  <2>2. (h + (k - 1)) % RingSize \in Index
    BY <2>1, Round, Zenon
  <2>3. Scanned(q)[k] = q.slot[(h + k - 1) % RingSize]
    BY <1>1 DEF Scanned
  <2> QED BY <2>1, <2>2, <2>3
<1>4. Scanned(q) \in Scans
  <2>1. \A k \in 1 .. RingSize : Scanned(q)[k] \in {NoDatagram} \cup Datagrams
    BY <1>2, <1>3
  <2>2. Scanned(q) = [k \in 1 .. RingSize |-> Scanned(q)[k]]
    BY DEF Scanned
  <2> QED BY <2>1, <2>2 DEF Scans
<1>5. ASSUME NEW i \in Index
      PROVE  /\ Ahead(h, i) + 1 \in 1 .. RingSize
             /\ Scanned(q)[Ahead(h, i) + 1] = q.slot[i]
  <2>1. PICK n \in Index : n = Ahead(h, i)
    BY AheadIs
  <2>2. n + 1 \in 1 .. RingSize /\ (n + 1) - 1 = n
    BY DEF Index
  <2>3. (h + n) % RingSize = i
    BY <2>1, AheadRound
  <2> QED BY <1>3, <2>1, <2>2, <2>3
<1> QED BY <1>1, <1>3, <1>4, <1>5

\* Nothing waits, nothing is met.
LEMMA NothingWaits ==
  ASSUME NEW q \in Rings, InUse(q) = {}
  PROVE  Contents(q) = <<>>
<1>1. \A k \in 1 .. RingSize : Scanned(q)[k].dst = 0
  BY ScannedIs DEF InUse, Valid
<1> QED BY <1>1, ScannedIs, MetNothing DEF Contents

\* A head that moves over slots that are empty leaves the queue as it is.
LEMMA HeadOver ==
  ASSUME NEW q \in Rings, NEW r \in Rings, NEW m \in Index,
         r.slot = q.slot, r.head = (q.head + m) % RingSize,
         \A k \in 1 .. m : Scanned(q)[k].dst = 0
  PROVE  Contents(r) = Contents(q)
<1> DEFINE e == Scanned(q)
<1> DEFINE f == Scanned(r)
<1> DEFINE n == RingSize - m
<1>1. e \in Scans /\ f \in Scans
  BY ScannedIs
<1>2. m \in Nat /\ n \in Nat /\ m + n = RingSize /\ 0 + n = n /\ n \in 0 .. RingSize
      /\ m \in 0 .. RingSize /\ RingSize \in n .. RingSize
  BY DEF Index
<1>3. PICK h \in Index : h = q.head
  BY RingTyped
<1>4. PICK c \in Index : c = r.head
  BY RingTyped
<1>5. c = IF h + m < RingSize THEN h + m ELSE h + m - RingSize
  BY <1>2, <1>3, <1>4, Round
<1>6. \A k \in 1 .. RingSize : /\ e[k] = q.slot[(h + (k - 1)) % RingSize]
                               /\ f[k] = q.slot[(c + (k - 1)) % RingSize]
  BY <1>3, <1>4, ScannedIs
<1>7. \A a \in Index, k \in 1 .. RingSize :
         (a + (k - 1)) % RingSize = IF a + (k - 1) < RingSize THEN a + (k - 1)
                                                             ELSE a + (k - 1) - RingSize
  <2>1. SUFFICES ASSUME NEW a \in Index, NEW k \in 1 .. RingSize
                 PROVE  (a + (k - 1)) % RingSize = IF a + (k - 1) < RingSize THEN a + (k - 1)
                                                             ELSE a + (k - 1) - RingSize
    OBVIOUS
  <2>2. k - 1 \in 0 .. RingSize
    OBVIOUS
  <2> QED BY <2>2, Round
<1>8. ASSUME NEW k \in 1 .. n  PROVE f[0 + k] = e[m + k]
  <2>1. k \in 1 .. RingSize /\ m + k \in 1 .. RingSize /\ 0 + k = k
    BY <1>2
  <2>2. (c + (k - 1)) % RingSize = (h + ((m + k) - 1)) % RingSize
    BY <1>2, <1>5, <1>7, <2>1, SMTT(30) DEF Index
  <2> HIDE DEF e, f
  <2> QED BY <1>6, <2>1, <2>2
<1>9. ASSUME NEW k \in n + 1 .. RingSize  PROVE f[k].dst = 0
  <2>1. k \in 1 .. RingSize /\ k - n \in 1 .. RingSize /\ k - n \in 1 .. m
    BY <1>2
  <2>2. (c + (k - 1)) % RingSize = (h + ((k - n) - 1)) % RingSize
    BY <1>2, <1>5, <1>7, <2>1, SMTT(30) DEF Index
  <2>3. e[k - n].dst = 0
    BY <2>1
  <2> HIDE DEF e, f
  <2> QED BY <1>6, <2>1, <2>2, <2>3
<1>10. Met(e)[m] = <<>>
  <2>1. 0 \in 0 .. RingSize /\ m \in 0 .. RingSize /\ \A k \in 0 + 1 .. m : e[k].dst = 0
    BY <1>2
  <2> HIDE DEF e
  <2>2. Met(e)[m] = Met(e)[0]
    BY <1>1, <2>1, MetEmpty
  <2> QED BY <1>1, <2>2, MetIs
<1>11. Met(f)[0] = <<>>
  BY <1>1, MetIs
<1> HIDE DEF e, f
<1>12. Met(f)[0 + n] = Met(e)[m + n]
  <2> HIDE DEF n
  <2> QED BY <1>1, <1>2, <1>8, <1>10, <1>11, MetSame
<1>13. Met(f)[RingSize] = Met(f)[n]
  <2> HIDE DEF n
  <2> QED BY <1>1, <1>2, <1>9, MetEmpty
<1> QED BY <1>2, <1>12, <1>13 DEF e, f, Contents

\* A datagram that is pushed is appended, unless the ring is full.
LEMMA PushContents ==
  ASSUME NEW q \in Rings, NEW d \in Datagrams, Counts(q), ~Lapping(q), q.count # RingSize
  PROVE  /\ Contents(Push(q, d)) = Append(Contents(q), d)
         /\ Len(Contents(q)) < RingSize
<1> DEFINE e == Scanned(q)
<1> DEFINE r == Push(q, d)
<1>1. PICK h \in Index : h = q.head
  BY RingTyped
<1>2. PICK t \in Index : t = q.tail
  BY RingTyped
<1>3. r.slot = [q.slot EXCEPT ![t] = d] /\ r.head = h
  BY <1>1, <1>2 DEF Push
<1>4. r \in Rings
  <2>1. AtLeast(q)
    BY InUseFinite DEF Counts, AtLeast
  <2> QED BY <2>1, PushRing
<1> HIDE DEF r
<1>5. PICK n \in Index : n = Ahead(h, t)
  BY AheadIs
<1>6. n + 1 \in 1 .. RingSize
  BY DEF Index
<1>7. \A k \in 1 .. RingSize :
        /\ (h + (k - 1)) % RingSize \in Index
        /\ e[k] = q.slot[(h + (k - 1)) % RingSize]
        /\ Scanned(r)[k] = r.slot[(h + (k - 1)) % RingSize]
        /\ Ahead(h, (h + (k - 1)) % RingSize) = k - 1
  <2>1. /\ \A k \in 1 .. RingSize : /\ (h + (k - 1)) % RingSize \in Index
                                    /\ e[k] = q.slot[(h + (k - 1)) % RingSize]
        /\ \A k \in 1 .. RingSize : Scanned(r)[k] = r.slot[(h + (k - 1)) % RingSize]
    <3>1. \A k \in 1 .. RingSize : /\ (q.head + (k - 1)) % RingSize \in Index
                                    /\ e[k] = q.slot[(q.head + (k - 1)) % RingSize]
      BY ScannedIs
    <3>2. \A k \in 1 .. RingSize : Scanned(r)[k] = r.slot[(r.head + (k - 1)) % RingSize]
      BY <1>4, ScannedIs
    <3>3. r.head = h /\ q.head = h
      BY <1>1, <1>3
    <3> HIDE DEF e
    <3> QED BY <3>1, <3>2, <3>3
  <2>2. ASSUME NEW k \in 1 .. RingSize
        PROVE  Ahead(h, (h + (k - 1)) % RingSize) = k - 1
    <3>1. k - 1 \in Index
      BY DEF Index
    <3> QED BY <3>1, RoundAhead
  <2> HIDE DEF e
  <2> QED BY <2>1, <2>2
<1>8. ASSUME NEW k \in n + 1 .. RingSize  PROVE e[k].dst = 0
  <2> DEFINE i == (h + (k - 1)) % RingSize
  <2>1. k \in 1 .. RingSize /\ ~(k - 1 < n)
    BY DEF Index
  <2>2. i \in Index /\ e[k] = q.slot[i] /\ Ahead(h, i) = k - 1
    BY <1>7, <2>1
  <2> HIDE DEF i, e
  <2>3. CASE q.count = 0
    BY <2>2, <2>3, InUseFinite DEF Counts, InUse, Valid
  <2>4. CASE q.tail # q.head
    BY <1>1, <1>2, <1>5, <2>1, <2>2, <2>4 DEF Counts, BetweenHeadAndTail, InUse, Valid
  <2> QED
    BY <2>3, <2>4, RingTyped DEF Lapping
<1>9. Scanned(r) = [e EXCEPT ![n + 1] = d]
  <2>1. e \in Scans /\ Scanned(r) \in Scans
    BY <1>4, ScannedIs
  <2>2. ASSUME NEW k \in 1 .. RingSize
        PROVE  Scanned(r)[k] = IF k = n + 1 THEN d ELSE e[k]
    <3>1. PICK i \in Index : i = (h + (k - 1)) % RingSize
      BY <1>7
    <3>2. i = t <=> k = n + 1
      <4>1. Ahead(h, i) = k - 1
        BY <1>7, <3>1
      <4>2. (h + Ahead(h, t)) % RingSize = t
        BY AheadRound
      <4>3. n \in Int
        BY DEF Index
      <4> QED BY <1>5, <3>1, <4>1, <4>2, <4>3
    <3>3. r.slot[i] = IF i = t THEN d ELSE q.slot[i]
      <4>1. q.slot \in [Index -> {NoDatagram} \cup Datagrams]
        BY RingTyped
      <4> QED BY <1>3, <4>1
    <3> HIDE DEF e
    <3> QED BY <1>7, <3>1, <3>2, <3>3
  <2> HIDE DEF e
  <2> QED BY <2>1, <2>2 DEF Scans
<1>10. e \in Scans
  BY ScannedIs
<1> HIDE DEF e
<1>11. Met([e EXCEPT ![n + 1] = d])[RingSize] = Append(Met(e)[RingSize], d)
       /\ Len(Met(e)[RingSize]) < RingSize
  BY <1>6, <1>8, <1>10, MetAppended
<1> QED BY <1>9, <1>11 DEF Contents, e, r

\* A queue with one datagram less: the oldest of its port.
IsTaken(v, w) ==
    \E j \in 1 .. Len(v) :
        /\ \A i \in 1 .. j - 1 : v[i].dst # v[j].dst
        /\ w = Without(v, j)

\* A slot that is emptied takes its datagram out of the queue.
LEMMA EmptiedContents ==
  ASSUME NEW q \in Rings, NEW s \in Rings, NEW i \in InUse(q),
         s.slot = [q.slot EXCEPT ![i] = NoDatagram], s.head = q.head,
         \A b \in Index : Ahead(q.head, b) < Ahead(q.head, i) => q.slot[b].dst # q.slot[i].dst
  PROVE  IsTaken(Contents(q), Contents(s))
<1> DEFINE e == Scanned(q)
<1>1. PICK h \in Index : h = q.head
  BY RingTyped
<1>2. i \in Index /\ q.slot[i].dst # 0
  BY DEF InUse, Valid
<1>3. PICK n \in Index : n = Ahead(h, i)
  BY <1>2, AheadIs
<1>4. n + 1 \in 1 .. RingSize /\ e[n + 1] = q.slot[i]
  BY <1>1, <1>2, <1>3, ScannedIs
<1>5. \A k \in 1 .. RingSize :
        /\ (h + (k - 1)) % RingSize \in Index
        /\ e[k] = q.slot[(h + (k - 1)) % RingSize]
        /\ Scanned(s)[k] = s.slot[(h + (k - 1)) % RingSize]
        /\ Ahead(h, (h + (k - 1)) % RingSize) = k - 1
  <2>1. /\ \A k \in 1 .. RingSize : /\ (h + (k - 1)) % RingSize \in Index
                                    /\ e[k] = q.slot[(h + (k - 1)) % RingSize]
        /\ \A k \in 1 .. RingSize : Scanned(s)[k] = s.slot[(h + (k - 1)) % RingSize]
    <3>1. \A k \in 1 .. RingSize : /\ (q.head + (k - 1)) % RingSize \in Index
                                    /\ e[k] = q.slot[(q.head + (k - 1)) % RingSize]
      BY ScannedIs
    <3>2. \A k \in 1 .. RingSize : Scanned(s)[k] = s.slot[(s.head + (k - 1)) % RingSize]
      BY ScannedIs
    <3>3. s.head = h /\ q.head = h
      BY <1>1
    <3> HIDE DEF e
    <3> QED BY <3>1, <3>2, <3>3
  <2>2. ASSUME NEW k \in 1 .. RingSize
        PROVE  Ahead(h, (h + (k - 1)) % RingSize) = k - 1
    <3>1. k - 1 \in Index
      BY DEF Index
    <3> QED BY <3>1, RoundAhead
  <2> HIDE DEF e
  <2> QED BY <2>1, <2>2
<1>6. ASSUME NEW k \in 1 .. n  PROVE e[k].dst # e[n + 1].dst
  <2>1. k \in 1 .. RingSize /\ k - 1 < n
    BY DEF Index
  <2> HIDE DEF e
  <2> QED BY <1>1, <1>3, <1>4, <1>5, <2>1
<1>7. Scanned(s) = [e EXCEPT ![n + 1] = NoDatagram]
  <2>1. e \in Scans /\ Scanned(s) \in Scans
    BY ScannedIs
  <2>2. ASSUME NEW k \in 1 .. RingSize
        PROVE  Scanned(s)[k] = IF k = n + 1 THEN NoDatagram ELSE e[k]
    <3>1. PICK a \in Index : a = (h + (k - 1)) % RingSize
      BY <1>5
    <3>2. a = i <=> k = n + 1
      <4>1. Ahead(h, a) = k - 1
        BY <1>5, <3>1
      <4>2. (h + Ahead(h, i)) % RingSize = i
        BY <1>2, AheadRound
      <4>3. n \in Int
        BY DEF Index
      <4> QED BY <1>3, <3>1, <4>1, <4>2, <4>3
    <3>3. s.slot[a] = IF a = i THEN NoDatagram ELSE q.slot[a]
      <4>1. q.slot \in [Index -> {NoDatagram} \cup Datagrams]
        BY RingTyped
      <4> QED BY <4>1
    <3> HIDE DEF e
    <3> QED BY <1>5, <3>1, <3>2, <3>3
  <2> HIDE DEF e
  <2> QED BY <2>1, <2>2 DEF Scans
<1>8. e \in Scans
  BY ScannedIs
<1> HIDE DEF e
<1>9. (n + 1) - 1 = n
  BY DEF Index
<1>10. \A k \in 1 .. (n + 1) - 1 : e[k].dst # e[n + 1].dst
  BY <1>6, <1>9
<1>11. PICK t \in 1 .. RingSize : t = n + 1
  BY <1>4
<1>12. PICK f : f = [e EXCEPT ![t] = NoDatagram]
  OBVIOUS
<1>13. IsTaken(Met(e)[RingSize], Met(f)[RingSize])
  <2>1. e[t].dst # 0 /\ \A k \in 1 .. t - 1 : e[k].dst # e[t].dst
    BY <1>2, <1>4, <1>10, <1>11
  <2> QED BY <1>8, <1>12, <2>1, MetTaken, Zenon DEF IsTaken
<1>14. Scanned(s) = f
  BY <1>7, <1>11, <1>12
<1> QED BY <1>13, <1>14 DEF Contents, e

\* The head that catches up moves over empty slots.
LEMMA CatchUpContents ==
  ASSUME NEW q \in Rings, Counts(q)
  PROVE  Contents(CatchUp(q)) = Contents(q)
<1> DEFINE r == CatchUp(q)
<1> DEFINE ahead == {k \in Index : Valid(q, (q.head + k) % RingSize)}
<1>1. r \in Rings /\ InUse(r) = InUse(q)
  BY CatchUpRing
<1>2. CASE q.count = 0
  <2>1. InUse(q) = {}
    BY <1>2, InUseFinite DEF Counts
  <2> HIDE DEF r
  <2> QED BY <1>1, <2>1, NothingWaits DEF r
<1>3. CASE q.count # 0 /\ ahead = {}
  BY <1>3 DEF CatchUp
<1>4. CASE q.count # 0 /\ ahead # {}
  <2> DEFINE m == Min(ahead)
  <2>1. r = [q EXCEPT !.head = (q.head + m) % RingSize]
    BY <1>4 DEF CatchUp
  <2>2. m \in ahead /\ \A k \in ahead : m <= k
    <3>1. ahead \in SUBSET Nat
      BY DEF Index
    <3> QED BY <1>4, <3>1, MinIsLowest
  <2>3. m \in Index
    BY <2>2
  <2> HIDE DEF r, m
  <2>4. r.slot = q.slot /\ r.head = (q.head + m) % RingSize
    BY <2>1 DEF Rings
  <2>5. ASSUME NEW k \in 1 .. m  PROVE Scanned(q)[k].dst = 0
    <3>1. k \in 1 .. RingSize /\ k - 1 \in Index /\ ~(m <= k - 1)
      BY <2>3 DEF Index
    <3>2. ~Valid(q, (q.head + (k - 1)) % RingSize)
      BY <2>2, <3>1
    <3> QED BY <3>1, <3>2, ScannedIs DEF Valid
  <2> HIDE DEF ahead
  <2>6. Contents(r) = Contents(q)
    BY <1>1, <2>3, <2>4, <2>5, HeadOver
  <2> QED BY <2>6 DEF r
<1> QED BY <1>2, <1>3, <1>4

\* udp_recv_next_for_port takes the oldest datagram of the port.
LEMMA TakeForContents ==
  ASSUME NEW q \in Rings, NEW port \in Nat \ {0}, Matching(q, port) # {}, Counts(q)
  PROVE  IsTaken(Contents(q), Contents(TakeFor(q, port).ring))
<1> DEFINE i == OldestFor(q, port)
<1> DEFINE s == [q EXCEPT !.slot[i] = NoDatagram, !.count = q.count - 1]
<1> DEFINE m == Min(Matching(q, port))
<1>1. Matching(q, port) \in SUBSET Nat /\ Matching(q, port) \subseteq Index /\ q.count # 0
  BY DEF Matching, Index
<1>2. m \in Matching(q, port) /\ \A k \in Matching(q, port) : m <= k
  BY <1>1, MinIsLowest
<1>3. m \in Index /\ i = (q.head + m) % RingSize /\ q.slot[i].dst = port
  BY <1>1, <1>2 DEF OldestFor, Matching
<1>4. q.head \in Index
  BY RingTyped
<1> HIDE DEF m
<1>5. i \in Index
  <2>1. m \in 0 .. RingSize
    BY <1>3 DEF Index
  <2> QED BY <1>3, <1>4, <2>1, Round
<1>6. i \in InUse(q)
  BY <1>3, <1>5 DEF InUse, Valid
<1>7. TakeFor(q, port).ring = CatchUp(s)
  BY DEF TakeFor
<1> HIDE DEF i
<1>8. s.slot = [q.slot EXCEPT ![i] = NoDatagram] /\ s.head = q.head /\ s.tail = q.tail
      /\ s.count = q.count - 1 /\ s \in Rings
  <2>1. q.count >= 1
    BY <1>1, RingTyped
  <2> QED BY <1>6, <2>1, Emptied, Zenon
<1> HIDE DEF s
<1>9. InUse(s) = InUse(q) \ {i} /\ Cardinality(InUse(s)) = Cardinality(InUse(q)) - 1
  BY <1>6, <1>8, EmptyOne, RingTyped
<1>10. Counts(s)
  BY <1>8, <1>9 DEF Counts, BetweenHeadAndTail
<1>11. Ahead(q.head, i) = m
  BY <1>3, <1>4, RoundAhead
<1>12. ASSUME NEW b \in Index, Ahead(q.head, b) < Ahead(q.head, i)
       PROVE  q.slot[b].dst # q.slot[i].dst
  <2>1. PICK n \in Index : n = Ahead(q.head, b)
    BY <1>4, AheadIs
  <2>2. n \notin Matching(q, port)
    BY <1>2, <1>3, <1>11, <1>12, <2>1 DEF Index
  <2>3. (q.head + n) % RingSize = b
    BY <1>4, <2>1, AheadRound
  <2> QED BY <1>1, <1>3, <2>2, <2>3 DEF Matching
<1>13. IsTaken(Contents(q), Contents(s))
  BY <1>6, <1>8, <1>12, EmptiedContents
<1> QED BY <1>7, <1>8, <1>10, <1>13, CatchUpContents

\* udp_recv_next without a listener takes the oldest datagram of all.
LEMMA TakeHeadContents ==
  ASSUME NEW q \in Rings, q.count > 0, Valid(q, q.head), Counts(q)
  PROVE  IsTaken(Contents(q), Contents(TakeHead(q).ring))
<1> DEFINE s == [q EXCEPT !.slot[q.head] = NoDatagram, !.count = q.count - 1]
<1> DEFINE r == TakeHead(q).ring
<1>1. q.head \in InUse(q) /\ q.head \in Index
  BY RingTyped DEF InUse
<1>2. s.slot = [q.slot EXCEPT ![q.head] = NoDatagram] /\ s.head = q.head /\ s \in Rings
  <2>1. q.count >= 1
    BY RingTyped
  <2> QED BY <1>1, <2>1, Emptied, Zenon
<1>3. r.slot = s.slot /\ r.head = (q.head + 1) % RingSize
  BY DEF Rings, TakeHead, After
<1>4. r \in Rings
  <2>1. AtLeast(q)
    BY InUseFinite DEF Counts, AtLeast
  <2> QED BY <2>1, TakeHeadRing
<1> HIDE DEF s, r
<1>5. PICK h \in Index : h = q.head
  BY <1>1
<1>6. Ahead(h, h) = 0
  BY AheadIs DEF Index
<1>7. \A b \in Index : Ahead(q.head, b) < Ahead(q.head, q.head) => q.slot[b].dst # q.slot[h].dst
  <2>1. \A b \in Index : Ahead(h, b) \in Nat
    BY AheadIs DEF Index
  <2> QED BY <1>5, <1>6, <2>1
<1>8. IsTaken(Contents(q), Contents(s))
  BY <1>1, <1>2, <1>5, <1>7, EmptiedContents
<1>9. s.slot[h].dst = 0
  BY <1>2, <1>5, RingTyped DEF NoDatagram
<1>10. Contents(r) = Contents(s)
  <2>1. CASE 1 \in Index
    <3>1. ASSUME NEW k \in 1 .. 1  PROVE Scanned(s)[k].dst = 0
      <4>1. \A i \in Index : Scanned(s)[Ahead(s.head, i) + 1] = s.slot[i]
        BY <1>2, ScannedIs
      <4>3. s.head = h
        BY <1>2, <1>5
      <4>2. k = 0 + 1
        OBVIOUS
      <4> QED BY <1>6, <1>9, <4>1, <4>2, <4>3
    <3> QED BY <1>2, <1>3, <1>4, <2>1, <3>1, HeadOver
  <2>2. CASE 1 \notin Index
    <3>1. Index = {h}
      BY <2>2 DEF Index
    <3>2. InUse(s) = {} /\ InUse(r) = {}
      BY <1>3, <1>9, <3>1 DEF InUse, Valid
    <3> QED BY <1>2, <1>4, <3>2, NothingWaits
  <2> QED BY <2>1, <2>2
<1> QED BY <1>8, <1>10 DEF r

\* udp_discard_for_port leaves the queue as it is, or empty.
LEMMA DiscardContents ==
  ASSUME NEW q \in Rings, NEW port
  PROVE  Contents(Discard(q, port)) \in {Contents(q), <<>>}
<1>1. RingInit \in Rings
  BY DEF RingInit, Rings, Index
<1>2. InUse(RingInit) = {}
  BY DEF RingInit, InUse, Valid, NoDatagram
<1>3. Contents(RingInit) = <<>>
  BY <1>1, <1>2, NothingWaits
<1> QED BY <1>3 DEF Discard

LEMMA CloseInContents ==
  ASSUME NEW q \in Rings, NEW s, NEW f
  PROVE  Contents(CloseIn(q, s, f).ring) \in {Contents(q), <<>>}
BY DiscardContents DEF CloseIn

-----------------------------------------------------------------------------
(* Ports.                                                                  *)

\* No two sockets with one port.
SocksSound(s) ==
    /\ s \in [Fds -> 0 .. EphTop]
    /\ \A f, g \in Fds : s[f] # 0 /\ s[f] = s[g] => f = g

\* There are more ephemeral ports than sockets, so one is free.
LEMMA SomePortFree ==
  ASSUME NEW s \in [Fds -> 0 .. EphTop]
  PROVE  \E p \in EphBase .. EphTop : p \notin PortsTaken(s)
<1> SUFFICES ASSUME \A p \in EphBase .. EphTop : p \in PortsTaken(s)
             PROVE  FALSE
  OBVIOUS
<1> DEFINE Ports == EphBase .. EphTop
<1> DEFINE holder == [p \in Ports |-> CHOOSE f \in Fds : s[f] = p]
<1>1. ASSUME NEW p \in Ports
      PROVE  holder[p] \in Fds /\ s[holder[p]] = p
  <2>1. \E f \in Fds : s[f] = p
    BY DEF PortsTaken
  <2> QED
    BY <2>1
<1>2. holder \in [Ports -> Fds]
  BY <1>1
<1>3. IsFiniteSet(Ports) /\ Cardinality(Ports) = EphTop - EphBase + 1
  <2>1. EphBase \in Int /\ EphTop \in Int /\ ~(EphBase > EphTop)
    OBVIOUS
  <2> QED
    BY <2>1, FS_Interval
<1>4. IsFiniteSet(Fds) /\ Cardinality(Fds) = SockMax
  <2>1. 0 \in Int /\ SockMax - 1 \in Int /\ ~(0 > SockMax - 1)
    OBVIOUS
  <2>2. IsFiniteSet(Fds) /\ Cardinality(Fds) = SockMax - 1 - 0 + 1
    BY <2>1, FS_Interval DEF Fds
  <2> QED
    BY <2>2
<1>5. Cardinality(Fds) < Cardinality(Ports)
  BY <1>3, <1>4
<1> HIDE DEF Ports, holder
<1>6. \E x, y \in Ports : x # y /\ holder[x] = holder[y]
  BY <1>2, <1>3, <1>4, <1>5, FS_PigeonHole, Zenon
<1> QED
  BY <1>1, <1>6

\* The ephemeral allocator goes through all its ports, so it finds one.
LEMMA NextPortFree ==
  ASSUME ephemeral \in EphBase .. EphTop, NEW s \in [Fds -> 0 .. EphTop]
  PROVE  /\ NextPort(PortsTaken(s)) \in EphBase .. EphTop
         /\ NextPort(PortsTaken(s)) \notin PortsTaken(s)
<1> DEFINE n == EphTop - EphBase + 1
<1> DEFINE e == ephemeral - EphBase
<1> DEFINE free == {k \in 0 .. EphTop - EphBase : PortAt(k) \notin PortsTaken(s)}
<1>1. n \in Nat \ {0} /\ e \in 0 .. n - 1 /\ EphTop - EphBase = n - 1
  OBVIOUS
<1>2. ASSUME NEW k \in 0 .. EphTop - EphBase
      PROVE  PortAt(k) = (IF e + k < n THEN EphBase + (e + k) ELSE EphBase + (e + k - n))
  <2> DEFINE x == e + k
  <2>1. x \in Nat /\ x < 2 * n /\ PortAt(k) = EphBase + (x % n)
    BY <1>1 DEF PortAt
  <2> HIDE DEF n, e, x
  <2>2. x % n = IF x < n THEN x ELSE x - n
    BY <1>1, <2>1, ModSmall
  <2>3. CASE x < n
    BY <1>1, <2>1, <2>2, <2>3 DEF x
  <2>4. CASE ~(x < n)
    BY <1>1, <2>1, <2>2, <2>4 DEF x
  <2> QED
    BY <2>3, <2>4
<1>3. PICK p \in EphBase .. EphTop : p \notin PortsTaken(s)
  BY SomePortFree
<1>4. \E k \in 0 .. EphTop - EphBase : PortAt(k) = p
  <2>1. CASE p >= ephemeral
    <3>1. p - ephemeral \in 0 .. EphTop - EphBase /\ e + (p - ephemeral) < n
          /\ EphBase + (e + (p - ephemeral)) = p
      BY <2>1
    <3> QED
      BY <1>2, <3>1
  <2>2. CASE p < ephemeral
    <3>1. p - ephemeral + n \in 0 .. EphTop - EphBase /\ ~(e + (p - ephemeral + n) < n)
          /\ EphBase + (e + (p - ephemeral + n) - n) = p
      BY <2>2
    <3> QED
      BY <1>2, <3>1
  <2> QED
    BY <2>1, <2>2
<1>5. free # {} /\ free \in SUBSET Nat
  BY <1>3, <1>4
<1>6. Min(free) \in free
  BY <1>5, MinIsLowest
<1>7. NextPort(PortsTaken(s)) = PortAt(Min(free))
  BY DEF NextPort
<1>8. PortAt(Min(free)) \in EphBase .. EphTop
  BY <1>1, <1>2, <1>6
<1> QED
  BY <1>6, <1>7, <1>8

\* A socket that gets a port nobody else has.
LEMMA GetsPort ==
  ASSUME NEW s, SocksSound(s), NEW f \in Fds, NEW p \in 1 .. EphTop,
         \A g \in Fds \ {f} : s[g] # p
  PROVE  SocksSound([s EXCEPT ![f] = p])
BY DEF SocksSound

\* sock_close keeps the table and the ring as they should be.
LEMMA CloseInKeeps ==
  ASSUME NEW q \in Rings, AtLeast(q), NEW s, SocksSound(s), NEW f
  PROVE  LET c == CloseIn(q, s, f)
         IN  /\ c.ring \in Rings /\ AtLeast(c.ring) /\ (Counts(q) => Counts(c.ring))
             /\ SocksSound(c.sock)
<1>1. CASE f \in Fds /\ s[f] # 0
  <2>1. CloseIn(q, s, f).ring = Discard(q, s[f])
        /\ CloseIn(q, s, f).sock = [s EXCEPT ![f] = 0]
    BY <1>1 DEF CloseIn
  <2>2. SocksSound([s EXCEPT ![f] = 0])
    BY <1>1 DEF SocksSound
  <2> QED
    BY <2>1, <2>2, DiscardRing
<1>2. CASE ~(f \in Fds /\ s[f] # 0)
  BY <1>2 DEF CloseIn
<1> QED
  BY <1>1, <1>2

\* sock_open_udp, whether the first free socket or none was found.
LEMMA OpenKeeps ==
  ASSUME SocksSound(sock), ephemeral \in EphBase .. EphTop, OpenSocket.ok
  PROVE  /\ OpenSocket.fd \in Fds /\ SocksSound(OpenSocket.sock)
         /\ OpenSocket.next \in EphBase .. EphTop
<1> DEFINE free == {g \in Fds : sock[g] = 0}
<1> DEFINE p == NextPort(PortsTaken(sock))
<1>1. free # {}
  BY DEF OpenSocket
<1>2. Min(free) \in free
  <2>1. free \in SUBSET Nat
    BY DEF Fds
  <2> QED
    BY <1>1, <2>1, MinIsLowest
<1>3. p \in EphBase .. EphTop /\ p \notin PortsTaken(sock)
  BY NextPortFree DEF SocksSound
<1>4. /\ OpenSocket.fd = Min(free) /\ OpenSocket.sock = [sock EXCEPT ![Min(free)] = p]
      /\ OpenSocket.next = IF p = EphTop THEN EphBase ELSE p + 1
  BY <1>1 DEF OpenSocket
<1> HIDE DEF free, p
<1>5. p \in 1 .. EphTop /\ (p # EphTop => p + 1 \in EphBase .. EphTop)
      /\ EphBase \in EphBase .. EphTop
  BY <1>3
<1>6. \A g \in Fds \ {Min(free)} : sock[g] # p
  BY <1>3, <1>5 DEF PortsTaken
<1>7. SocksSound([sock EXCEPT ![Min(free)] = p])
  BY <1>2, <1>5, <1>6, GetsPort DEF free
<1> QED
  BY <1>2, <1>4, <1>5, <1>7 DEF free

-----------------------------------------------------------------------------
(* The invariant, in the parts that steps touch separately.                *)

RingPart ==
    /\ ring \in Rings /\ lapped \in BOOLEAN /\ hung \in BOOLEAN
    /\ AtLeast(ring)
    /\ ~lapped => Counts(ring) /\ ~hung

SockPart ==
    /\ SocksSound(sock) /\ ephemeral \in EphBase .. EphTop
    /\ echo \in Fds \cup {Off}

RestPart == listen \in BindPorts \cup {0} /\ strays \in 0 .. MaxStray

LEMMA PartsOfIInv == IInv => RingPart /\ SockPart /\ RestPart
<1> SUFFICES ASSUME IInv PROVE RingPart /\ SockPart /\ RestPart
  OBVIOUS
<1> USE DEF IInv, PortsDistinct, SocketsTypeOK
<1>1. RingPart
  BY DEF RingPart, RingSound, LoopsOnlyIfLapped, AtLeast, Counts
<1> QED
  BY <1>1 DEF SockPart, RestPart, SocksSound

LEMMA IInvOfParts == RingPart /\ SockPart /\ RestPart /\ CacheSound => IInv
<1> SUFFICES ASSUME RingPart, SockPart, RestPart, CacheSound PROVE IInv
  OBVIOUS
<1>1. ring.slot \in [Index -> {NoDatagram} \cup {ring.slot[i] : i \in InUse(ring)}]
  <2>1. ring.slot \in [Index -> {NoDatagram} \cup Datagrams]
        /\ \A i \in Index : ~Valid(ring, i) => ring.slot[i] = NoDatagram
    BY RingTyped DEF RingPart
  <2>2. \A i \in Index : ring.slot[i] \in {NoDatagram} \cup {ring.slot[j] : j \in InUse(ring)}
    BY <2>1 DEF InUse
  <2> QED
    BY <2>1, <2>2
<1>2. ring.head \in Index /\ ring.tail \in Index /\ ring.count \in 0 .. RingSize
  BY RingTyped DEF RingPart
<1>3. SocketsTypeOK
  BY <1>1, <1>2 DEF SocketsTypeOK, RingPart, SockPart, RestPart, SocksSound
<1>4. RingSound /\ LoopsOnlyIfLapped
  BY DEF RingPart, RingSound, LoopsOnlyIfLapped, AtLeast, Counts
<1> QED
  BY <1>3, <1>4 DEF IInv, PortsDistinct, SockPart, SocksSound

LEMMA InitIInv == SocketsInit => IInv
<1> SUFFICES ASSUME SocketsInit PROVE IInv
  OBVIOUS
<1> USE DEF SocketsInit
<1>1. ring \in Rings
  BY DEF RingInit, Rings, Index
<1>2. InUse(ring) = {} /\ ring.count = 0 /\ ring.head = ring.tail
  BY DEF RingInit, InUse, Valid, NoDatagram
<1>3. RingPart
  <2>1. Cardinality(InUse(ring)) = 0
    BY <1>2, FS_EmptySet
  <2>2. AtLeast(ring) /\ Counts(ring)
    BY <1>2, <2>1 DEF AtLeast, Counts, BetweenHeadAndTail
  <2> QED
    BY <1>1, <2>2, Zenon DEF RingPart
<1>4. SockPart
  BY DEF SockPart, SocksSound
<1>5. RestPart
  BY DEF RestPart
<1>6. CacheSound
  BY DEF CacheSound, ArpInit
<1> QED
  BY <1>3, <1>4, <1>5, <1>6, IInvOfParts

\* A datagram that is taken for a port.
LEMMA ReceivedKeeps ==
  ASSUME RingPart, NEW port \in Nat \ {0}, Matching(ring, port) # {}, Received(port),
         UNCHANGED lapped
  PROVE  RingPart'
<1>1. ring' = TakeFor(ring, port).ring /\ hung' = TakeFor(ring, port).loops
  BY DEF Received
<1>2. ring \in Rings /\ AtLeast(ring)
  BY DEF RingPart
<1>3. ring' \in Rings /\ AtLeast(ring') /\ hung' \in BOOLEAN
  BY <1>1, <1>2, TakeForRing
<1>4. Counts(ring) => Counts(ring') /\ ~hung'
  BY <1>1, <1>2, TakeForRing
<1> QED
  BY <1>3, <1>4 DEF RingPart, AtLeast, Counts, BetweenHeadAndTail

\* A ring that is discarded from, or not.
LEMMA RingReplaced ==
  ASSUME RingPart, ring' \in Rings, AtLeast(ring'), Counts(ring) => Counts(ring'),
         UNCHANGED <<lapped, hung>>
  PROVE  RingPart'
BY DEF RingPart, AtLeast, Counts, BetweenHeadAndTail

LEMMA IInvOfPartsNext == RingPart' /\ SockPart' /\ RestPart' /\ CacheSound' => IInv'
BY IInvOfParts, PTL

\* The bindable ports and the stray ones are ports, and none is 0.
LEMMA PortsTyped ==
  /\ \A p \in BindPorts \cup StrayPorts : p \in 1 .. EphTop /\ p \in Nat \ {0}
  /\ \A s : SocksSound(s) => \A f \in Fds : s[f] # 0 => s[f] \in Nat \ {0}
BY DEF SocksSound

-----------------------------------------------------------------------------
(* The frames.                                                             *)

LEMMA StrayKeeps ==
  ASSUME IInv, NEW port \in StrayPorts, ReceiveStray(port)
  PROVE  IInv'
<1> DEFINE d == [dst |-> port, body |-> <<"stray", strays>>]
<1>1. RingPart /\ SockPart /\ RestPart /\ CacheSound
  BY PartsOfIInv DEF IInv
<1>2. d \in Datagrams
  BY <1>1 DEF Datagrams, RestPart
<1>3. /\ ring' = Push(ring, d) /\ lapped' = (lapped \/ Lapping(ring))
      /\ UNCHANGED <<hung, sock, ephemeral, listen, echo, cache, heard>>
      /\ strays < MaxStray /\ strays' = strays + 1
  BY DEF ReceiveStray, ReceiveDatagram
<1> HIDE DEF d
<1>4. /\ ring \in Rings /\ AtLeast(ring) /\ lapped \in BOOLEAN /\ hung \in BOOLEAN
      /\ (~lapped => Counts(ring) /\ ~hung)
  BY <1>1 DEF RingPart
<1>5. ring' \in Rings /\ AtLeast(ring') /\ (~Lapping(ring) /\ Counts(ring) => Counts(ring'))
  BY <1>2, <1>3, <1>4, PushRing
<1>6. RingPart'
  <2>1. AtLeast(ring)' /\ (Counts(ring') => Counts(ring)')
    BY <1>5 DEF AtLeast, Counts, BetweenHeadAndTail
  <2>2. ~lapped' => Counts(ring)' /\ ~hung'
    BY <1>3, <1>4, <1>5, <2>1
  <2>3. ring' \in Rings /\ lapped' \in BOOLEAN /\ hung' \in BOOLEAN
    BY <1>3, <1>4, <1>5
  <2> QED
    BY <2>1, <2>2, <2>3 DEF RingPart
<1>7. SockPart' /\ CacheSound'
  BY <1>1, <1>3 DEF SockPart, SocksSound, CacheSound
<1>8. RestPart'
  BY <1>1, <1>3 DEF RestPart
<1> QED
  BY <1>6, <1>7, <1>8, IInvOfPartsNext

\* The entry of a known address is found, and it is the address's.
LEMMA EntryFound ==
  ASSUME CacheSound, NEW h \in Hosts, Known(cache, h)
  PROVE  EntryOf(cache, h) \in EntriesOf(cache, h)
<1>1. /\ DOMAIN cache.entry = 0 .. ArpSize - 1
      /\ \A i, j \in 0 .. ArpSize - 1 :
             /\ cache.entry[i] # NoEntry /\ cache.entry[j] # NoEntry
             /\ cache.entry[i].ip = cache.entry[j].ip
             => i = j
  BY DEF CacheSound
<1>2. PICK k : k \in EntriesOf(cache, h)
  BY DEF Known
<1>3. k \in 0 .. ArpSize - 1 /\ \A j \in EntriesOf(cache, h) : j = k
  BY <1>1, <1>2 DEF EntriesOf
<1>4. \A j \in EntriesOf(cache, h) : k <= j
  BY <1>3
<1> QED
  BY <1>2, <1>4 DEF EntryOf

\* arp_cache_store: the sender's entry is overwritten, or the next one is, and
\* what it says is what was heard.
LEMMA ArpKeeps ==
  ASSUME IInv, NEW h \in Hosts, NEW mac \in Macs, ReceiveArp(h, mac)
  PROVE  IInv'
<1>1. RingPart /\ SockPart /\ RestPart /\ CacheSound
  BY PartsOfIInv DEF IInv
<1>2. /\ cache' = Store(cache, h, mac) /\ heard' = [heard EXCEPT ![h] = mac]
      /\ strays < MaxStray /\ strays' = strays + 1
      /\ UNCHANGED <<ring, lapped, hung, sock, ephemeral, listen, echo>>
  BY DEF ReceiveArp
<1>3. RingPart' /\ SockPart' /\ RestPart'
  BY <1>1, <1>2 DEF RingPart, AtLeast, Counts, BetweenHeadAndTail, InUse, Valid, SockPart,
                    SocksSound, RestPart
<1>4. CacheSound'
  <2> DEFINE I == 0 .. ArpSize - 1
             e == [ip |-> h, mac |-> mac]
             Holds(i) == cache.entry[i] # NoEntry /\ cache.entry[i].ip = h
  <2>1. /\ cache.next \in I /\ cache.entry \in [I -> Entries \cup {NoEntry}]
        /\ heard \in [Hosts -> Macs \cup {NoEntry}]
        /\ \A i, j \in I : /\ cache.entry[i] # NoEntry /\ cache.entry[j] # NoEntry
                           /\ cache.entry[i].ip = cache.entry[j].ip
                           => i = j
        /\ \A i \in I : cache.entry[i] # NoEntry => cache.entry[i].mac = heard[cache.entry[i].ip]
    BY <1>1 DEF CacheSound
  <2>2. e \in Entries /\ e # NoEntry /\ e.ip = h /\ e.mac = mac
    BY ArpAssumption DEF Entries
  <2>3. PICK n \in I, x \in I :
           /\ cache' = [entry |-> [cache.entry EXCEPT ![n] = e], next |-> x]
           /\ \A i \in I \ {n} : ~Holds(i)
    <3>1. CASE Known(cache, h)
      <4> DEFINE n == EntryOf(cache, h)
      <4>1. n \in EntriesOf(cache, h)
        BY <1>1, <3>1, EntryFound
      <4> HIDE DEF n
      <4>2. n \in I /\ Holds(n)
        BY <2>1, <4>1 DEF EntriesOf
      <4>3. \A i \in I \ {n} : ~Holds(i)
        BY <2>1, <4>2
      <4>4. cache' = [entry |-> [cache.entry EXCEPT ![n] = e], next |-> cache.next]
        BY <1>2, <3>1 DEF Store, n
      <4> QED
        BY <2>1, <4>2, <4>3, <4>4
    <3>2. CASE ~Known(cache, h)
      <4>1. (cache.next + 1) % ArpSize \in I
        <5>1. cache.next + 1 \in Int /\ ArpSize \in Nat \ {0}
          BY <2>1, ArpAssumption
        <5> QED
          BY <5>1, ModRange, Zenon
      <4>2. \A i \in I : ~Holds(i)
        BY <2>1, <3>2 DEF Known, EntriesOf
      <4>3. cache' = [entry |-> [cache.entry EXCEPT ![cache.next] = e],
                      next |-> (cache.next + 1) % ArpSize]
        BY <1>2, <3>2 DEF Store
      <4> QED
        BY <2>1, <4>1, <4>2, <4>3
    <3> QED
      BY <3>1, <3>2
  <2> HIDE DEF e
  <2>4. /\ cache'.entry = [cache.entry EXCEPT ![n] = e]
        /\ cache'.next = x
    BY <2>3
  <2>5. cache' \in [entry : [I -> Entries \cup {NoEntry}], next : I]
    BY <2>1, <2>2, <2>3
  <2>6. heard' \in [Hosts -> Macs \cup {NoEntry}]
    BY <1>2, <2>1
  <2>7. /\ cache'.entry[n] = e
        /\ \A i \in I \ {n} : cache'.entry[i] = cache.entry[i]
    BY <2>1, <2>4
  <2>8. \A i \in I \ {n} : cache'.entry[i] # NoEntry =>
           /\ cache'.entry[i].ip # h /\ cache'.entry[i].ip \in Hosts
           /\ cache'.entry[i].mac = heard[cache'.entry[i].ip]
    BY <2>1, <2>3, <2>7 DEF Entries
  <2>9. \A i, j \in I : /\ cache'.entry[i] # NoEntry /\ cache'.entry[j] # NoEntry
                        /\ cache'.entry[i].ip = cache'.entry[j].ip
                        => i = j
    <3> SUFFICES ASSUME NEW i \in I, NEW j \in I,
                        cache'.entry[i] # NoEntry, cache'.entry[j] # NoEntry,
                        cache'.entry[i].ip = cache'.entry[j].ip
                 PROVE  i = j
      OBVIOUS
    <3> HIDE DEF I
    <3>1. CASE i = n \/ j = n
      <4>1. i = n => cache'.entry[j].ip = h
        BY <2>2, <2>7
      <4>2. j = n => cache'.entry[i].ip = h
        BY <2>2, <2>7
      <4> QED
        BY ONLY <2>8, <3>1, <4>1, <4>2, i \in I, j \in I, cache'.entry[i] # NoEntry,
                cache'.entry[j] # NoEntry
    <3>2. CASE i # n /\ j # n
      <4>1. cache'.entry[i] = cache.entry[i] /\ cache'.entry[j] = cache.entry[j]
        BY <2>7, <3>2
      <4> QED
        BY <2>1, <4>1
    <3> QED
      BY <3>1, <3>2
  <2>10. \A i \in I : cache'.entry[i] # NoEntry =>
            cache'.entry[i].mac = heard'[cache'.entry[i].ip]
    BY <1>2, <2>1, <2>2, <2>7, <2>8
  <2> QED
    BY <2>5, <2>6, <2>9, <2>10 DEF CacheSound
<1> QED
  BY <1>3, <1>4, IInvOfPartsNext

-----------------------------------------------------------------------------
(* The commands.                                                           *)

LEMMA SocketCallsKeep ==
  ASSUME IInv, SockOpen \/ NetTest \/ \E f \in Fds, p \in BindPorts : SockBind(f, p)
  PROVE  IInv'
<1>1. RingPart /\ SockPart /\ RestPart /\ CacheSound
  BY PartsOfIInv DEF IInv
<1>2. SocksSound(sock) /\ ephemeral \in EphBase .. EphTop /\ ring \in Rings /\ AtLeast(ring)
  BY <1>1 DEF SockPart, RingPart
<1>3. UNCHANGED <<lapped, hung, listen, echo, cache, heard, strays>>
  BY DEF SockOpen, NetTest, SockBind
<1>4. RestPart' /\ CacheSound'
  BY <1>1, <1>3 DEF RestPart, CacheSound
<1>5. SocksSound(sock') /\ ephemeral' \in EphBase .. EphTop
      /\ ring' \in Rings /\ AtLeast(ring') /\ (Counts(ring) => Counts(ring'))
  <2>1. CASE SockOpen
    BY <1>2, <2>1, OpenKeeps DEF SockOpen
  <2>2. CASE NetTest
    <3>1. SocksSound(OpenSocket.sock) /\ OpenSocket.next \in EphBase .. EphTop
      BY <1>2, <2>2, OpenKeeps DEF NetTest
    <3>2. ring' = CloseIn(ring, OpenSocket.sock, OpenSocket.fd).ring /\ sock' = sock
          /\ ephemeral' = OpenSocket.next
      BY <2>2 DEF NetTest
    <3> QED
      BY <1>2, <3>1, <3>2, CloseInKeeps
  <2>3. ASSUME NEW f \in Fds, NEW p \in BindPorts, SockBind(f, p)
        PROVE  SocksSound(sock') /\ UNCHANGED <<ring, ephemeral>>
    <3>1. sock' = [sock EXCEPT ![f] = p] /\ \A g \in Fds \ {f} : sock[g] # p
      BY <2>3 DEF SockBind, Binds
    <3>2. p \in 1 .. EphTop
      BY PortsTyped
    <3>3. SocksSound([sock EXCEPT ![f] = p])
      BY <1>2, <3>1, <3>2, GetsPort, Zenon
    <3> QED
      BY <2>3, <3>1, <3>3 DEF SockBind
  <2> QED
    BY <1>2, <2>1, <2>2, <2>3
<1>6. RingPart'
  BY <1>1, <1>3, <1>5, RingReplaced
<1>7. SockPart'
  BY <1>1, <1>3, <1>5 DEF SockPart, SocksSound
<1> QED
  BY <1>4, <1>6, <1>7, IInvOfPartsNext

LEMMA ClosesKeep ==
  ASSUME IInv, EchoStop \/ \E f \in Fds : SockClose(f)
  PROVE  IInv'
<1>1. RingPart /\ SockPart /\ RestPart /\ CacheSound
  BY PartsOfIInv DEF IInv
<1>2. SocksSound(sock) /\ ring \in Rings /\ AtLeast(ring) /\ echo \in Fds \cup {Off}
  BY <1>1 DEF SockPart, RingPart
<1>3. UNCHANGED <<lapped, hung, ephemeral, listen, cache, heard, strays>>
      /\ echo' \in Fds \cup {Off}
      /\ \E f : ring' = CloseIn(ring, sock, f).ring /\ sock' = CloseIn(ring, sock, f).sock
  BY <1>2 DEF EchoStop, SockClose
<1>4. SocksSound(sock') /\ ring' \in Rings /\ AtLeast(ring') /\ (Counts(ring) => Counts(ring'))
  BY <1>2, <1>3, CloseInKeeps
<1>5. RestPart' /\ CacheSound'
  BY <1>1, <1>3 DEF RestPart, CacheSound
<1>6. RingPart'
  BY <1>1, <1>3, <1>4, RingReplaced
<1>7. SockPart'
  BY <1>1, <1>3, <1>4 DEF SockPart, SocksSound
<1> QED
  BY <1>5, <1>6, <1>7, IInvOfPartsNext

\* sock recv, udp recv and udpecho step: one look at the ring.
LEMMA ReceivesKeep ==
  ASSUME IInv, UdpRecv \/ EchoStep \/ \E f \in Fds : SockRecv(f)
  PROVE  IInv'
<1>1. RingPart /\ SockPart /\ RestPart /\ CacheSound
  BY PartsOfIInv DEF IInv
<1>2. UNCHANGED <<lapped, sock, ephemeral, listen, echo, cache, heard, strays>>
  BY DEF UdpRecv, EchoStep, SockRecv
<1>3. SockPart' /\ RestPart' /\ CacheSound'
  BY <1>1, <1>2 DEF SockPart, SocksSound, RestPart, CacheSound
<1>4. ASSUME NEW p \in Nat \ {0}, Matching(ring, p) # {}, Received(p)
      PROVE  RingPart'
  BY <1>1, <1>2, <1>4, ReceivedKeeps
<1>5. ASSUME ring.count > 0, Valid(ring, ring.head), ring' = TakeHead(ring).ring, hung' = hung
      PROVE  RingPart'
  <2>1. ring \in Rings /\ AtLeast(ring)
    BY <1>1 DEF RingPart
  <2>2. ring' \in Rings /\ AtLeast(ring') /\ (Counts(ring) => Counts(ring'))
    BY <1>5, <2>1, TakeHeadRing
  <2> QED
    BY <1>1, <1>2, <1>5, <2>2, RingReplaced
<1>6. \/ \E p \in Nat \ {0} : Matching(ring, p) # {} /\ Received(p)
      \/ ring.count > 0 /\ Valid(ring, ring.head) /\ ring' = TakeHead(ring).ring /\ hung' = hung
  <2>1. \A f \in Fds : sock[f] # 0 => sock[f] \in Nat \ {0}
    BY <1>1, PortsTyped DEF SockPart
  <2>2. listen # 0 => listen \in Nat \ {0}
    BY <1>1, PortsTyped DEF RestPart
  <2>3. echo # Off => echo \in Fds
    BY <1>1 DEF SockPart
  <2> QED
    BY <2>1, <2>2, <2>3 DEF UdpRecv, EchoStep, SockRecv
<1>7. RingPart'
  BY <1>4, <1>5, <1>6
<1> QED
  BY <1>3, <1>7, IInvOfPartsNext

\* udpecho start: a socket is closed, one opened and bound, or closed again.
LEMMA EchoStartKeeps ==
  ASSUME IInv, NEW port \in BindPorts, EchoStart(port)
  PROVE  IInv'
<1>1. RingPart /\ SockPart /\ RestPart /\ CacheSound
  BY PartsOfIInv DEF IInv
<1> DEFINE c == CloseIn(ring, sock, echo)
<1> DEFINE free == {f \in Fds : c.sock[f] = 0}
<1> DEFINE f == Min(free)
<1> DEFINE p == NextPort(PortsTaken(c.sock))
<1> DEFINE s == [c.sock EXCEPT ![f] = p]
<1>2. SocksSound(sock) /\ ephemeral \in EphBase .. EphTop /\ ring \in Rings /\ AtLeast(ring)
  BY <1>1 DEF SockPart, RingPart
<1>3. /\ c.ring \in Rings /\ AtLeast(c.ring) /\ (Counts(ring) => Counts(c.ring))
      /\ SocksSound(c.sock)
  BY <1>2, CloseInKeeps
<1>4. UNCHANGED <<lapped, hung, listen, cache, heard, strays>>
  BY DEF EchoStart
<1>5. RestPart' /\ CacheSound'
  BY <1>1, <1>4 DEF RestPart, CacheSound
<1>6. \/ /\ ring' = c.ring /\ sock' = c.sock /\ echo' = Off /\ ephemeral' = ephemeral
      \/ /\ free # {} /\ ephemeral' = IF p = EphTop THEN EphBase ELSE p + 1
         /\ Binds(s, f, port)
         /\ ring' = c.ring /\ echo' = f /\ sock' = [s EXCEPT ![f] = port]
      \/ /\ free # {} /\ ephemeral' = IF p = EphTop THEN EphBase ELSE p + 1
         /\ ring' = CloseIn(c.ring, s, f).ring /\ echo' = Off /\ sock' = c.sock
  BY DEF EchoStart
<1> HIDE DEF c
<1>7. CASE ring' = c.ring /\ sock' = c.sock /\ echo' = Off /\ ephemeral' = ephemeral
  BY <1>2, <1>3, <1>4, <1>5, <1>7, <1>1, RingReplaced, IInvOfPartsNext DEF SockPart
<1>8. ASSUME free # {}, ephemeral' = IF p = EphTop THEN EphBase ELSE p + 1
      PROVE  /\ f \in Fds /\ ephemeral' \in EphBase .. EphTop /\ SocksSound(s)
  <2>1. free \in SUBSET Nat
    BY DEF Fds
  <2>2. f \in Fds /\ c.sock[f] = 0
    BY <1>8, <2>1, MinIsLowest
  <2>3. c.sock \in [Fds -> 0 .. EphTop]
    BY <1>3 DEF SocksSound
  <2>4. p \in EphBase .. EphTop /\ p \notin PortsTaken(c.sock)
    BY <1>2, <2>3, NextPortFree
  <2> HIDE DEF f, p
  <2>5. p \in 1 .. EphTop /\ (p # EphTop => p + 1 \in EphBase .. EphTop)
        /\ EphBase \in EphBase .. EphTop
    BY <2>4
  <2>6. \A g \in Fds \ {f} : c.sock[g] # p
    BY <2>4, <2>5 DEF PortsTaken
  <2>7. SocksSound(s)
    BY <1>3, <2>2, <2>5, <2>6, GetsPort
  <2> QED
    BY <1>8, <2>2, <2>5, <2>7
<1>9. ASSUME free # {}, ephemeral' = IF p = EphTop THEN EphBase ELSE p + 1, Binds(s, f, port),
             ring' = c.ring, echo' = f, sock' = [s EXCEPT ![f] = port]
      PROVE  IInv'
  <2>1. f \in Fds /\ ephemeral' \in EphBase .. EphTop /\ SocksSound(s)
    BY <1>8, <1>9
  <2> HIDE DEF f, p, s, free
  <2>2. \A g \in Fds \ {f} : s[g] # port
    BY <1>9 DEF Binds
  <2>3. port \in 1 .. EphTop
    BY PortsTyped
  <2>4. SocksSound([s EXCEPT ![f] = port])
    BY <2>1, <2>2, <2>3, GetsPort, Zenon
  <2>5. SockPart'
    BY <1>9, <2>1, <2>4 DEF SockPart, SocksSound
  <2>6. RingPart'
    BY <1>1, <1>3, <1>4, <1>9, RingReplaced
  <2> QED
    BY <1>5, <2>5, <2>6, IInvOfPartsNext
<1>10. ASSUME free # {}, ephemeral' = IF p = EphTop THEN EphBase ELSE p + 1,
              ring' = CloseIn(c.ring, s, f).ring, echo' = Off, sock' = c.sock
       PROVE  IInv'
  <2>1. f \in Fds /\ ephemeral' \in EphBase .. EphTop /\ SocksSound(s)
    BY <1>8, <1>10
  <2> HIDE DEF f, p, s, free
  <2>2. /\ CloseIn(c.ring, s, f).ring \in Rings /\ AtLeast(CloseIn(c.ring, s, f).ring)
        /\ (Counts(c.ring) => Counts(CloseIn(c.ring, s, f).ring))
    BY <1>3, <2>1, CloseInKeeps
  <2>3. SockPart'
    BY <1>3, <1>10, <2>1 DEF SockPart, SocksSound
  <2>4. RingPart'
    BY <1>1, <1>3, <1>4, <1>10, <2>2, RingReplaced
  <2> QED
    BY <1>5, <2>3, <2>4, IInvOfPartsNext
<1> QED
  BY <1>6, <1>7, <1>9, <1>10

LEMMA NextIInv == IInv /\ [SocketsNext]_sockVars => IInv'
<1> SUFFICES ASSUME IInv, [SocketsNext]_sockVars PROVE IInv'
  OBVIOUS
<1>1. CASE Poll
  BY <1>1, StrayKeeps, ArpKeeps DEF Poll
<1>2. ASSUME NEW p \in BindPorts \cup {0}, UdpListen(p)
      PROVE  IInv'
  <2>1. RingPart /\ SockPart /\ RestPart /\ CacheSound
    BY PartsOfIInv DEF IInv
  <2>2. listen' = p /\ UNCHANGED <<ring, lapped, hung, sock, ephemeral, echo, cache, heard, strays>>
    BY <1>2 DEF UdpListen
  <2>3. RingPart' /\ SockPart' /\ CacheSound' /\ RestPart'
    BY <1>2, <2>1, <2>2 DEF RingPart, AtLeast, Counts, BetweenHeadAndTail, InUse, Valid, SockPart,
                      SocksSound, RestPart, CacheSound
  <2> QED
    BY <2>3, IInvOfPartsNext
<1>3. CASE UNCHANGED sockVars
  <2>1. RingPart /\ SockPart /\ RestPart /\ CacheSound
    BY PartsOfIInv DEF IInv
  <2>2. UNCHANGED <<ring, lapped, hung, sock, ephemeral, listen, echo, cache, heard, strays>>
    BY <1>3 DEF sockVars
  <2>3. RingPart' /\ SockPart' /\ CacheSound' /\ RestPart'
    BY <2>1, <2>2 DEF RingPart, AtLeast, Counts, BetweenHeadAndTail, InUse, Valid, SockPart,
                      SocksSound, RestPart, CacheSound
  <2> QED
    BY <2>3, IInvOfPartsNext
<1> QED
  BY <1>1, <1>2, <1>3, SocketCallsKeep, ClosesKeep, ReceivesKeep, EchoStartKeeps
  DEF SocketsNext, Shell

-----------------------------------------------------------------------------
(* udp.c as an implementation of DatagramQueue.                            *)

LEMMA QueueTakes ==
  ASSUME NEW v, NEW w, IsTaken(v, w), Contents(ring) = v, Contents(ring)' = w
  PROVE  Queue!Take
<1>1. PICK j \in 1 .. Len(v) : /\ \A i \in 1 .. j - 1 : v[i].dst # v[j].dst
                               /\ w = Without(v, j)
  BY DEF IsTaken
<1> QED BY <1>1 DEF Queue!Take, Queue!RemoveAt, Without

LEMMA ContentsPrimed == Contents(ring)' = Contents(ring')
BY DEF Contents, Scanned, Met

LEMMA QueueReceives ==
  ASSUME ring \in Rings, Counts(ring), NEW port \in Nat \ {0}, Matching(ring, port) # {},
         Received(port)
  PROVE  Queue!Take
<1>1. ring' = TakeFor(ring, port).ring
  BY DEF Received
<1>2. IsTaken(Contents(ring), Contents(ring'))
  BY <1>1, TakeForContents
<1> QED BY <1>2, ContentsPrimed, QueueTakes

\* A datagram of another machine is accepted, or the full ring drops it.
LEMMA QueueAccepts ==
  ASSUME ring \in Rings, Counts(ring), ~Lapping(ring), NEW d \in Datagrams,
         ring' = Push(ring, d)
  PROVE  Queue!Accept \/ UNCHANGED Contents(ring)
<1>1. CASE ring.count = RingSize
  <2>1. ring' = ring
    BY <1>1 DEF Push
  <2> QED BY <2>1, ContentsPrimed
<1>2. CASE ring.count # RingSize
  <2>1. PICK v \in Seq(Datagrams) : v = Contents(ring)
    BY MetTyped, ScannedIs DEF Contents
  <2>2. Contents(ring)' = Append(v, d) /\ Len(v) < RingSize
    BY <1>2, <2>1, PushContents, ContentsPrimed
  <2>3. Len(Append(v, d)) = Len(v) + 1 /\ SubSeq(Append(v, d), 1, Len(Append(v, d)) - 1) = v
    OBVIOUS
  <2> QED BY <2>1, <2>2, <2>3 DEF Queue!Accept, Queue!Front
<1> QED BY <1>1, <1>2

\* Every step of the shell and of the card is one of the queue's, or leaves it alone,
\* as long as the ring was not lapped.
LEMMA NextQueue ==
  ASSUME IInv, [SocketsNext]_sockVars, ~lapped'
  PROVE  Queue!Next \/ UNCHANGED Contents(ring)
<1>1. RingPart /\ SockPart /\ RestPart
  BY PartsOfIInv DEF IInv
<1>2. ring \in Rings
  BY <1>1 DEF RingPart
<1>3. ASSUME UNCHANGED ring  PROVE UNCHANGED Contents(ring)
  BY <1>3, ContentsPrimed
<1>4. ASSUME NEW c \in Rings, Contents(ring') \in {Contents(c), <<>>},
             Contents(c) \in {Contents(ring), <<>>}
      PROVE  Queue!Flush \/ UNCHANGED Contents(ring)
  BY <1>4, ContentsPrimed DEF Queue!Flush
<1>5. ASSUME NEW p \in StrayPorts, ReceiveStray(p)
      PROVE  Queue!Accept \/ UNCHANGED Contents(ring)
  <2> DEFINE d == [dst |-> p, body |-> <<"stray", strays>>]
  <2>1. d \in Datagrams
    BY <1>1 DEF Datagrams, RestPart
  <2>2. ring' = Push(ring, d) /\ lapped' = (lapped \/ Lapping(ring))
    BY <1>5 DEF ReceiveStray, ReceiveDatagram
  <2> HIDE DEF d
  <2>3. ~lapped /\ ~Lapping(ring)
    BY <1>1, <2>2 DEF RingPart, Lapping
  <2>4. Counts(ring)
    BY <1>1, <2>3 DEF RingPart
  <2> QED BY <1>2, <2>1, <2>2, <2>3, <2>4, QueueAccepts
<1>6. ASSUME UdpRecv \/ EchoStep \/ \E f \in Fds : SockRecv(f)
      PROVE  Queue!Take
  <2>1. ~lapped
    BY <1>6 DEF UdpRecv, EchoStep, SockRecv
  <2>2. Counts(ring)
    BY <1>1, <2>1 DEF RingPart
  <2>3. \A f \in Fds : sock[f] # 0 => sock[f] \in Nat \ {0}
    BY <1>1, PortsTyped DEF SockPart
  <2>4. listen # 0 => listen \in Nat \ {0}
    BY <1>1, PortsTyped DEF RestPart
  <2>5. echo # Off => echo \in Fds
    BY <1>1 DEF SockPart
  <2>6. \/ \E p \in Nat \ {0} : Matching(ring, p) # {} /\ Received(p)
        \/ ring.count > 0 /\ Valid(ring, ring.head) /\ ring' = TakeHead(ring).ring
    BY <1>6, <2>3, <2>4, <2>5 DEF UdpRecv, EchoStep, SockRecv
  <2>7. ASSUME ring.count > 0, Valid(ring, ring.head), ring' = TakeHead(ring).ring
        PROVE  Queue!Take
    <3>1. IsTaken(Contents(ring), Contents(ring'))
      BY <1>2, <2>2, <2>7, TakeHeadContents
    <3> QED BY <3>1, ContentsPrimed, QueueTakes
  <2> QED BY <1>2, <2>2, <2>6, <2>7, QueueReceives
<1>7. ASSUME NetTest \/ EchoStop \/ \E f \in Fds : SockClose(f)
      PROVE  Queue!Flush \/ UNCHANGED Contents(ring)
  <2>1. \E s, f : ring' = CloseIn(ring, s, f).ring
    BY <1>7 DEF NetTest, EchoStop, SockClose
  <2>2. Contents(ring') \in {Contents(ring), <<>>}
    BY <1>2, <2>1, CloseInContents
  <2> QED BY <1>2, <1>4, <2>2
<1>8. ASSUME NEW port \in BindPorts, EchoStart(port)
      PROVE  Queue!Flush \/ UNCHANGED Contents(ring)
  <2> DEFINE c == CloseIn(ring, sock, echo)
  <2>1. c.ring \in Rings /\ Contents(c.ring) \in {Contents(ring), <<>>}
    <3>1. AtLeast(ring) /\ SocksSound(sock)
      BY <1>1 DEF RingPart, SockPart
    <3> QED BY <1>2, <3>1, CloseInKeeps, CloseInContents
  <2>2. ring' = c.ring \/ \E s, f : ring' = CloseIn(c.ring, s, f).ring
    BY <1>8 DEF EchoStart
  <2> HIDE DEF c
  <2>3. Contents(ring') \in {Contents(c.ring), <<>>}
    BY <2>1, <2>2, CloseInContents
  <2> QED BY <1>4, <2>1, <2>3
<1>9. ASSUME \/ SockOpen \/ \E f \in Fds, p \in BindPorts : SockBind(f, p)
             \/ \E p \in BindPorts \cup {0} : UdpListen(p)
             \/ \E h \in Hosts, mac \in Macs : ReceiveArp(h, mac)
             \/ UNCHANGED sockVars
      PROVE  UNCHANGED ring
  BY <1>9 DEF SockOpen, SockBind, UdpListen, ReceiveArp, sockVars
<1> QED
  BY <1>3, <1>5, <1>6, <1>7, <1>8, <1>9 DEF SocketsNext, Shell, Poll, Queue!Next

-----------------------------------------------------------------------------
(* The properties.                                                         *)

\* The inductive invariant holds for tables of every size.
THEOREM InvariantHolds == SocketsSpec => []IInv
<1> QED
  BY InitIInv, NextIInv, PTL DEF SocketsSpec

\* A datagram has one owner: no two open sockets ever have the same port.
THEOREM PortsDistinctHolds == SocketsSpec => []PortsDistinct
<1>1. IInv => PortsDistinct
  BY DEF IInv
<1> QED
  BY <1>1, InvariantHolds, PTL

\* The address cache answers with what a host said last.
THEOREM LookupIsLatestHolds == SocketsSpec => []LookupIsLatest
<1>1. IInv => LookupIsLatest
  <2> SUFFICES ASSUME IInv, NEW h \in Hosts, Known(cache, h)
               PROVE  MacOf(cache, h) = heard[h]
    BY DEF LookupIsLatest
  <2> DEFINE n == EntryOf(cache, h)
  <2>1. n \in EntriesOf(cache, h)
    BY EntryFound DEF IInv
  <2> HIDE DEF n
  <2>2. n \in 0 .. ArpSize - 1 /\ cache.entry[n] # NoEntry /\ cache.entry[n].ip = h
    BY <2>1 DEF EntriesOf, IInv, CacheSound
  <2>3. cache.entry[n].mac = heard[h]
    BY <2>2 DEF IInv, CacheSound
  <2> QED
    BY <2>3 DEF MacOf, n
<1> QED
  BY <1>1, InvariantHolds, PTL

\* The ring's counter is exact until the tail laps the head, and so the search
\* for the next datagram of udp_recv_next_for_port ends until then.
THEOREM LoopsOnlyIfLappedHolds == SocketsSpec => []LoopsOnlyIfLapped
<1>1. IInv => LoopsOnlyIfLapped
  BY DEF IInv
<1> QED
  BY <1>1, InvariantHolds, PTL

\* The receive ring is a queue: as long as the tail never ran onto a head that still
\* waits, what is taken for a port is its oldest datagram, what is accepted goes behind
\* everything, and nothing else disappears but by a close that empties the ring
\* (udp.c implements DatagramQueue).
THEOREM RingIsQueueHolds == SocketsSpec => RingIsQueue
<1>1. SocketsInit => Queue!Init
  <2>1. SUFFICES ASSUME SocketsInit  PROVE Contents(ring) = <<>>
    BY DEF Queue!Init
  <2>2. ring = RingInit
    BY <2>1 DEF SocketsInit
  <2>3. RingInit \in Rings /\ InUse(RingInit) = {}
    BY DEF RingInit, Rings, Index, InUse, Valid, NoDatagram
  <2> QED BY <2>2, <2>3, NothingWaits
<1>2. IInv /\ [SocketsNext]_sockVars => [Queue!Next \/ lapped']_(Contents(ring))
  BY NextQueue
<1> QED
  BY <1>1, <1>2, InvariantHolds, PTL DEF SocketsSpec, RingIsQueue

-----------------------------------------------------------------------------
(* The package manager.                                                    *)

Contentful == Seq({0, 1, 2} \X Nat)

LEMMA BytesTyped ==
  ASSUME NEW v \in Spellings, NEW a \in Nat, NEW n \in Nat
  PROVE  Bytes(v, a, n) \in Contentful /\ Len(Bytes(v, a, n)) = n
BY DEF Bytes, Contentful, Spellings

\* What is read of a file in two parts is what is read of it in one.
LEMMA BytesJoin ==
  ASSUME NEW v \in Spellings, NEW a \in Nat, NEW n \in Nat
  PROVE  Bytes(v, 0, a) \o Bytes(v, a, n) = Bytes(v, 0, a + n)
<1>1. \A b, m \in Nat : Bytes(v, b, m) \in Contentful /\ Len(Bytes(v, b, m)) = m
  BY BytesTyped
<1>2. \A b, m \in Nat : \A i \in 1 .. m : Bytes(v, b, m)[i] = <<v, b + i - 1>>
  BY DEF Bytes
<1> DEFINE S == {0, 1, 2} \X Nat
<1> HIDE DEF S
<1>3. PICK x, y, z : x = Bytes(v, 0, a) /\ y = Bytes(v, a, n) /\ z = Bytes(v, 0, a + n)
  OBVIOUS
<1>4. /\ x \in Seq(S) /\ Len(x) = a /\ y \in Seq(S) /\ Len(y) = n
      /\ z \in Seq(S) /\ Len(z) = a + n
      /\ \A i \in 1 .. a : x[i] = <<v, 0 + i - 1>>
      /\ \A i \in 1 .. n : y[i] = <<v, a + i - 1>>
      /\ \A i \in 1 .. a + n : z[i] = <<v, 0 + i - 1>>
  <2>1. Contentful = Seq(S)
    BY DEF Contentful, S
  <2>2. a + n \in Nat /\ 0 \in Nat
    OBVIOUS
  <2> QED BY <1>1, <1>2, <1>3, <2>1, <2>2
<1>5. /\ x \o y \in Seq(S) /\ Len(x \o y) = Len(x) + Len(y)
      /\ \A i \in 1 .. Len(x) + Len(y) : (x \o y)[i] = IF i <= Len(x) THEN x[i] ELSE y[i - Len(x)]
  <2>1. x \in Seq(S) /\ y \in Seq(S)
    BY <1>4
  <2> QED BY ONLY <2>1
<1>6. ASSUME NEW i \in 1 .. a + n  PROVE (x \o y)[i] = z[i]
  <2>1. CASE i <= a
    <3>1. (x \o y)[i] = x[i] /\ i \in 1 .. a
      BY <1>4, <1>5, <2>1
    <3>2. x[i] = <<v, 0 + i - 1>>
      BY <1>4, <3>1
    <3>3. z[i] = <<v, 0 + i - 1>>
      BY <1>4
    <3> QED BY <3>1, <3>2, <3>3
  <2>2. CASE i > a
    <3>1. i - a \in 1 .. n /\ a + (i - a) - 1 = 0 + i - 1
      BY <2>2
    <3>2. (x \o y)[i] = y[i - a]
      BY <1>4, <1>5, <2>2
    <3> QED BY <1>4, <3>1, <3>2
  <2>3. i <= a \/ i > a
    OBVIOUS
  <2> QED BY <2>1, <2>2, <2>3
<1>7. x \o y = z
  <2>1. PICK w \in Seq(S) : w = x \o y
    BY <1>5
  <2>2. Len(w) = Len(z) /\ \A i \in 1 .. Len(z) : w[i] = z[i]
    BY <1>4, <1>5, <1>6, <2>1
  <2>3. z \in Seq(S)
    BY <1>4
  <2>4. w = z
    BY ONLY <2>2, <2>3, w \in Seq(S)
  <2> QED BY <2>1, <2>4
<1> QED BY <1>3, <1>7

\* The receive ring keeps its shape, whatever datagrams it is for.
LEMMA PushOf ==
  ASSUME NEW D, NEW q \in RingOf(D), NEW d \in D
  PROVE  Push(q, d) \in RingOf(D)
<1>1. After(q.tail) \in Index
  <2>1. q.tail + 1 \in Nat /\ RingSize \in Nat \ {0}
    BY DEF RingOf, Index
  <2> QED BY <2>1, ModRange DEF After, Index
<1> QED BY <1>1 DEF RingOf, Push

LEMMA CatchUpOf ==
  ASSUME NEW D, NEW q \in RingOf(D)
  PROVE  CatchUp(q) \in RingOf(D)
<1> DEFINE ahead == {k \in Index : Valid(q, (q.head + k) % RingSize)}
<1>1. CASE q.count # 0 /\ ahead # {}
  <2>1. Min(ahead) \in Nat
    <3>1. ahead \in SUBSET Nat
      BY DEF Index
    <3> HIDE DEF ahead
    <3> QED BY <1>1, <3>1, MinIsLowest
  <2>2. CatchUp(q) = [q EXCEPT !.head = (q.head + Min(ahead)) % RingSize]
    BY <1>1 DEF CatchUp
  <2> HIDE DEF ahead
  <2>3. (q.head + Min(ahead)) % RingSize \in Index
    <3>1. q.head + Min(ahead) \in Int
      BY <2>1 DEF RingOf, Index
    <3> QED BY <3>1, ModRange DEF Index
  <2> QED BY <2>2, <2>3 DEF RingOf
<1>2. CASE ~(q.count # 0 /\ ahead # {})
  BY <1>2 DEF CatchUp, RingOf
<1> QED BY <1>1, <1>2

\* What is taken for a port was sent to it.
LEMMA TakeForOf ==
  ASSUME NEW D, NEW q \in RingOf(D), NEW port \in Nat \ {0}, Matching(q, port) # {}
  PROVE  /\ TakeFor(q, port).ring \in RingOf(D) /\ TakeFor(q, port).loops \in BOOLEAN
         /\ TakeFor(q, port).got \in D /\ TakeFor(q, port).got.dst = port
<1>1. Matching(q, port) \in SUBSET Nat /\ q.count # 0
  BY DEF Matching, Index
<1>2. Min(Matching(q, port)) \in Matching(q, port)
  BY <1>1, MinIsLowest
<1>3. PICK k \in Nat : k = Min(Matching(q, port))
  BY <1>1, <1>2
<1>4. OldestFor(q, port) = (q.head + k) % RingSize /\ q.slot[(q.head + k) % RingSize].dst = port
  BY <1>1, <1>2, <1>3 DEF OldestFor, Matching
<1>5. (q.head + k) % RingSize \in Index
  <2>1. q.head + k \in Int
    BY <1>3 DEF RingOf, Index
  <2> QED BY <2>1, ModRange DEF Index
<1>6. PICK i \in Index : i = OldestFor(q, port)
  BY <1>4, <1>5
<1>7. q.slot[i].dst = port
  BY <1>4, <1>6
<1>8. PICK s : s = [q EXCEPT !.slot[i] = NoDatagram, !.count = q.count - 1]
  OBVIOUS
<1>9. s \in RingOf(D)
  <2>1. q.count - 1 \in 0 .. RingSize
    BY <1>1 DEF RingOf
  <2> QED BY <1>6, <1>8, <2>1 DEF RingOf
<1>10. /\ TakeFor(q, port).ring = CatchUp(s) /\ TakeFor(q, port).loops = Loops(s)
       /\ TakeFor(q, port).got = q.slot[i]
  BY <1>6, <1>8 DEF TakeFor
<1>11. q.slot[i] \in D
  BY <1>6, <1>7 DEF RingOf, NoDatagram
<1> QED BY <1>7, <1>9, <1>10, <1>11, CatchUpOf DEF Loops

LEMMA CloseInOf ==
  ASSUME NEW D, NEW q \in RingOf(D), NEW s, NEW f \in Fds, s[f] # 0
  PROVE  CloseIn(q, s, f).ring \in RingOf(D) /\ CloseIn(q, s, f).sock = [s EXCEPT ![f] = 0]
<1>1. RingInit \in RingOf(D)
  BY DEF RingInit, RingOf, Index
<1> QED BY <1>1 DEF CloseIn, Discard

-----------------------------------------------------------------------------
(* What a reply brings.                                                    *)

USE PkgInstallAssumption

\* A reply to the request that the client waits for: it ends the fetch, or carries the
\* next bytes of the file, all of the chunk but at the file's end.
LEMMA AfterReplyIs ==
  ASSUME CallSound, catalog \in Catalogs, Fetching,
         \A n \in Nat : n * Chunk # MaxContent,
         NEW m \in Nat, Len(cl.got) = m * Chunk,
         NEW r, r.name = cl.name, r.offset = Len(cl.got),
         NEW c, c = AfterReply(Reply(r).body)
  PROVE  \/ c = Idle
         \/ \E got \in Contentful :
              /\ c = [cl EXCEPT !.fd = Off, !.got = got, !.at = "store"]
              /\ got \in Wholes
         \/ \E got \in Contentful :
              /\ c = [cl EXCEPT !.fd = Off, !.got = got, !.at = "ask"]
              /\ got = Bytes(cl.name, 0, Len(got)) /\ Len(got) < MaxContent
              /\ Len(got) = (m + 1) * Chunk /\ got # <<>>
<1>1. PICK v \in Spellings, a \in Nat, size \in Nat \cup {Missing} :
         v = cl.name /\ a = Len(cl.got) /\ size = catalog[v] /\ cl.got = Bytes(v, 0, a)
         /\ cl.got \in Contentful
  <2>1. cl.name \in Spellings /\ cl.got \in Contentful
    BY DEF CallSound, Contentful
  <2>2. Len(cl.got) \in Nat
    BY <2>1 DEF Contentful
  <2>3. catalog[cl.name] \in Nat \cup {Missing}
    BY <2>1
  <2>4. cl.got = Bytes(cl.name, 0, Len(cl.got))
    BY DEF CallSound
  <2> QED BY <2>1, <2>2, <2>3, <2>4
<1>2. a = m * Chunk /\ (m + 1) * Chunk = a + Chunk /\ Chunk \in Nat \ {0} /\ MaxContent \in Nat
  BY <1>1
<1>3. PICK b : b = Reply(r).body
  OBVIOUS
<1>4. b = IF size = Missing THEN <<"ERR">>
          ELSE IF a >= size THEN <<"OK", 0, <<>>>>
          ELSE <<"OK", Min({Chunk, size - a}), Bytes(v, a, Min({Chunk, size - a}))>>
  BY <1>1, <1>3 DEF Reply
<1>5. c = IF ~Chunked(b) THEN Idle
          ELSE [cl EXCEPT !.fd = Off, !.got = cl.got \o b[3],
                          !.at = IF b[2] < Chunk \/ Len(cl.got \o b[3]) >= MaxContent
                                 THEN "store" ELSE "ask"]
  BY <1>3 DEF AfterReply
<1>6. CASE size = Missing \/ (size # Missing /\ a >= size)
  <2>1. ~Chunked(b)
    <3>1. CASE size = Missing
      <4>1. b[1] = "ERR"
        BY <1>4, <3>1
      <4> QED BY <4>1 DEF Chunked
    <3>2. CASE size # Missing /\ a >= size
      <4>1. b[2] = 0
        BY <1>4, <3>2
      <4> QED BY <4>1 DEF Chunked
    <3> QED BY <1>6, <3>1, <3>2
  <2> QED BY <1>5, <2>1
<1>7. CASE size # Missing /\ a < size /\ Chunked(b)
  <2>1. PICK n \in 1 .. Chunk : /\ n = Min({Chunk, size - a})
                                /\ n = Chunk \/ (n < Chunk /\ n = size - a)
    <3>1. size \in Nat
      BY <1>7
    <3>2. {Chunk, size - a} \in SUBSET Nat /\ {Chunk, size - a} # {} /\ size - a > 0
      BY <1>1, <1>2, <1>7, <3>1
    <3>3. PICK w \in {Chunk, size - a} : w = Min({Chunk, size - a}) /\ \A y \in {Chunk, size - a} : w <= y
      BY <3>2, MinIsLowest
    <3> QED BY <1>1, <1>2, <3>1, <3>2, <3>3
  <2>2. b[2] = n /\ b[3] = Bytes(v, a, n)
    BY <1>4, <1>7, <2>1
  <2>3. PICK got \in Contentful : got = cl.got \o b[3] /\ got = Bytes(v, 0, a + n) /\ Len(got) = a + n
    <3>1. n \in Nat
      BY <1>2, <2>1
    <3>2. Bytes(v, 0, a) \o Bytes(v, a, n) = Bytes(v, 0, a + n)
      BY <1>1, <3>1, BytesJoin
    <3>3. PICK e \in Nat : e = a + n
      BY <1>1, <3>1
    <3>4. Bytes(v, 0, e) \in Contentful /\ Len(Bytes(v, 0, e)) = e
      BY <1>1, <3>3, BytesTyped
    <3> QED BY <1>1, <2>2, <3>2, <3>3, <3>4
  <2>4. a + n <= MaxContent
    BY <1>1, <1>7, <2>2 DEF Chunked
  <2>5. c = [cl EXCEPT !.fd = Off, !.got = got,
                       !.at = IF n < Chunk \/ a + n >= MaxContent THEN "store" ELSE "ask"]
    <3>1. c = [cl EXCEPT !.fd = Off, !.got = cl.got \o b[3],
                         !.at = IF b[2] < Chunk \/ Len(cl.got \o b[3]) >= MaxContent
                                THEN "store" ELSE "ask"]
      BY <1>5, <1>7
    <3>2. cl.got \o b[3] = got /\ Len(got) = a + n /\ b[2] = n
      BY <2>2, <2>3
    <3> QED BY <3>1, <3>2, Zenon
  <2>6. CASE n < Chunk
    <3>1. c = [cl EXCEPT !.fd = Off, !.got = got, !.at = "store"]
      BY <2>5, <2>6
    <3>2. a + n = size
      BY <1>1, <1>7, <2>1, <2>6
    <3>3. got \in Wholes
      BY <1>1, <1>7, <2>3, <3>2 DEF Wholes, Whole
    <3> QED BY <2>3, <3>1, <3>3
  <2>7. CASE n = Chunk
    <3>1. a + n = (m + 1) * Chunk /\ m + 1 \in Nat
      BY <1>2, <2>7
    <3>2. a + n # MaxContent
      BY <3>1
    <3>3. c = [cl EXCEPT !.fd = Off, !.got = got, !.at = "ask"]
      <4>1. ~(n < Chunk \/ a + n >= MaxContent)
        <5>1. PICK e \in Nat : e = a + n
          BY <1>1, <1>2, <2>1
        <5>2. e <= MaxContent /\ e # MaxContent /\ MaxContent \in Nat
          BY <1>2, <2>4, <3>2, <5>1
        <5>3. ~(n < Chunk)
          BY <1>2, <2>7
        <5> QED BY <5>1, <5>2, <5>3
      <4> QED BY <2>5, <4>1
    <3>4. Len(got) < MaxContent /\ Len(got) = (m + 1) * Chunk /\ got # <<>>
      <4>1. a + n > 0 /\ Len(<<>>) = 0
        BY <1>1, <2>1
      <4>2. a + n < MaxContent
        BY <1>1, <1>2, <2>1, <2>4, <3>2
      <4> QED BY <2>3, <3>1, <4>1, <4>2
    <3>5. got = Bytes(cl.name, 0, Len(got))
      BY <1>1, <2>3
    <3> QED BY <2>3, <3>3, <3>4, <3>5
  <2> QED BY <2>1, <2>6, <2>7
<1>8. CASE ~Chunked(b)
  BY <1>5, <1>8
<1>9. size # Missing => a >= size \/ a < size
  <2>1. size # Missing => size \in Nat
    BY <1>1
  <2> QED BY <1>1, <2>1
<1> QED BY <1>6, <1>7, <1>8, <1>9

-----------------------------------------------------------------------------
(* The steps of a fetch.                                                   *)

\* As every socket is free, the client gets one, and the port that comes next.
LEMMA OpensNext ==
  ASSUME sock \in [Fds -> 0 .. EphTop], ephemeral \in EphBase .. EphTop,
         \A f \in Fds : sock[f] = 0
  PROVE  /\ OpenSocket.ok /\ OpenSocket.fd \in Fds
         /\ OpenSocket.sock = [sock EXCEPT ![OpenSocket.fd] = ephemeral]
         /\ OpenSocket.next = IF ephemeral = EphTop THEN EphBase ELSE ephemeral + 1
<1>1. {g \in Fds : sock[g] = 0} \in SUBSET Nat /\ 0 \in {g \in Fds : sock[g] = 0}
  BY DEF Fds
<1>2. PICK f \in Fds : f = Min({g \in Fds : sock[g] = 0})
  BY <1>1, MinIsLowest
<1>3. PortsTaken(sock) = {}
  BY DEF PortsTaken
<1>4. PortAt(0) = ephemeral
  <2>1. PICK m \in Nat \ {0}, e \in Nat :
           m = EphTop - EphBase + 1 /\ e = ephemeral - EphBase /\ e < m
    OBVIOUS
  <2>2. e + 0 \in Nat /\ e + 0 < 2 * m /\ e + 0 < m
    BY <2>1
  <2>3. (e + 0) % m = e + 0
    BY <2>2, ModSmall
  <2> QED BY <2>1, <2>3 DEF PortAt
<1>5. NextPort({}) = ephemeral
  <2> DEFINE S == {k \in 0 .. EphTop - EphBase : PortAt(k) \notin {}}
  <2>1. S \in SUBSET Nat /\ 0 \in S
    OBVIOUS
  <2>2. Min(S) = 0
    <3> HIDE DEF S
    <3>1. Min(S) \in S /\ \A y \in S : Min(S) <= y
      BY <2>1, MinIsLowest
    <3>2. PICK w \in Nat : w = Min(S) /\ w <= 0
      BY <2>1, <3>1
    <3> QED BY <3>2
  <2> QED BY <1>4, <2>2 DEF NextPort
<1> QED BY <1>1, <1>2, <1>3, <1>5 DEF OpenSocket

LEMMA FetchInit ==
  ASSUME Init, NEW rounds \in Nat, Careful(rounds)
  PROVE  FetchSound(rounds)
<1>1. CallSound
  BY DEF Init, CallSound, Idle, Exchanges, Fetching, Spellings
<1>2. SockSound
  BY DEF Init, SocketsInit, SockSound, Idle, Exchanges
<1>3. RequestsSound /\ RepliesSound
  BY DEF Init, SocketsInit, RequestsSound, RepliesSound, RingInit, RingOf, Index
<1>4. RestSound
  <2>1. files \in [Paths -> {Absent, Damaged, OnDisk} \cup Wholes]
    BY DEF Init
  <2>2. 0 \in 0 .. MaxInstalls /\ 0 \in 0 .. MaxStray
    OBVIOUS
  <2> QED BY <2>1, <2>2 DEF Init, SocketsInit, RestSound
<1>5. PortsLeft(rounds)
  <2>1. ephemeral = EphBase /\ installs = 0 /\ ~Fetching
    BY DEF Init, SocketsInit, Idle, Fetching
  <2>2. Left(rounds, 0) = 0
    BY <2>1 DEF Left
  <2>3. ephemeral + 0 <= EphBase + installs * (rounds + 1)
    BY <2>1
  <2> QED BY <2>1, <2>2, <2>3 DEF PortsLeft
<1> QED BY <1>1, <1>2, <1>3, <1>4, <1>5 DEF FetchSound

\* What was sent does not depend on the call.
LEMMA ReplySame == catalog' = catalog => \A r : Reply(r)' = Reply(r)
BY DEF Reply

LEMMA WholesSame == catalog' = catalog => Wholes' = Wholes
BY DEF Wholes, Whole

LEMMA RingOfMore ==
  ASSUME NEW D, NEW E, D \subseteq E
  PROVE  RingOf(D) \subseteq RingOf(E)
BY DEF RingOf

\* A step of the network or the server that leaves the client alone.
LEMMA NetworkKeepsFetch ==
  ASSUME NEW rounds \in Nat, FetchSound(rounds),
         UNCHANGED <<sock, ephemeral, catalog, requests, cl, files, index, installs, listen, echo>>,
         lapped' \in BOOLEAN, hung' = hung, strays' \in 0 .. MaxStray,
         RepliesSound'
  PROVE  FetchSound(rounds)'
<1>1. CallSound'
  <2>1. Wholes' = Wholes
    BY WholesSame
  <2> QED BY <2>1 DEF FetchSound, CallSound, Exchanges, Fetching
<1>2. SockSound'
  BY DEF FetchSound, SockSound, Exchanges
<1>3. RequestsSound'
  BY DEF FetchSound, RequestsSound, Exchanges
<1>4. RestSound'
  BY DEF FetchSound, RestSound, Wholes, Whole, Bytes
<1>5. PortsLeft(rounds)'
  BY DEF FetchSound, PortsLeft, Left, Fetching, Exchanges
<1> QED BY <1>1, <1>2, <1>3, <1>4, <1>5 DEF FetchSound

LEMMA ServeKeepsFetch ==
  ASSUME NEW rounds \in Nat, FetchSound(rounds), NEW r \in requests, Serve(r)
  PROVE  FetchSound(rounds)'
<1>1. RepliesSound'
  <2>1. replies' = replies \cup {Reply(r)} /\ UNCHANGED <<requests, ring, catalog>>
    BY DEF Serve, sockVars
  <2>2. replies' \subseteq {Reply(q) : q \in requests}
    BY <2>1 DEF FetchSound, RepliesSound
  <2>3. \A q : Reply(q)' = Reply(q)
    BY <2>1, ReplySame
  <2>4. replies' \subseteq {Reply(q) : q \in requests}'
    BY <2>1, <2>2, <2>3
  <2>5. ring \in RingOf(replies' \cup Datagrams)
    BY <2>1, RingOfMore DEF FetchSound, RepliesSound
  <2> QED BY <2>1, <2>4, <2>5 DEF RepliesSound, RingOf
<1> QED BY <1>1, NetworkKeepsFetch DEF Serve, sockVars, FetchSound, RestSound

LEMMA PollKeepsFetch ==
  ASSUME NEW rounds \in Nat, FetchSound(rounds), NetPoll
  PROVE  FetchSound(rounds)'
<1>1. UNCHANGED pkgVars
  BY DEF NetPoll
<1>2. \A q : Reply(q)' = Reply(q)
  BY <1>1, ReplySame DEF pkgVars
<1>3. {Reply(q) : q \in requests}' = {Reply(q) : q \in requests} /\ replies' = replies
  BY <1>1, <1>2 DEF pkgVars
<1>4. ASSUME ring' \in RingOf(replies \cup Datagrams)  PROVE RepliesSound'
  BY <1>3, <1>4 DEF FetchSound, RepliesSound, RingOf
<1>5. ring \in RingOf(replies \cup Datagrams)
  BY DEF FetchSound, RepliesSound
<1>6. ASSUME NEW d \in replies \cup Datagrams, ReceiveDatagram(d), strays' \in 0 .. MaxStray
      PROVE  FetchSound(rounds)'
  <2>1. ring' = Push(ring, d)
    BY <1>6 DEF ReceiveDatagram
  <2>2. RepliesSound'
    BY <1>4, <1>5, <2>1, PushOf
  <2> QED BY <1>1, <1>6, <2>2, NetworkKeepsFetch DEF ReceiveDatagram, pkgVars, FetchSound, RestSound, Lapping
<1>7. ASSUME NEW p \in StrayPorts, ReceiveStray(p)  PROVE FetchSound(rounds)'
  <2>1. [dst |-> p, body |-> <<"stray", strays>>] \in Datagrams /\ strays' \in 0 .. MaxStray
    BY <1>7 DEF ReceiveStray, Datagrams, FetchSound, RestSound
  <2> QED BY <1>6, <1>7, <2>1 DEF ReceiveStray
<1>8. ASSUME NEW h \in Hosts, NEW mac \in Macs, ReceiveArp(h, mac)  PROVE FetchSound(rounds)'
  <2>1. /\ UNCHANGED <<ring, lapped, hung, sock, ephemeral, listen, echo>>
        /\ strays' \in 0 .. MaxStray
    BY <1>8 DEF ReceiveArp, FetchSound, RestSound
  <2>2. RepliesSound'
    BY <1>4, <1>5, <2>1
  <2> QED BY <1>1, <2>1, <2>2, NetworkKeepsFetch DEF pkgVars, FetchSound, RestSound
<1>9. ASSUME NEW d \in replies, ReceiveDatagram(d), UNCHANGED strays  PROVE FetchSound(rounds)'
  BY <1>6, <1>9 DEF FetchSound, RestSound
<1> QED BY <1>7, <1>8, <1>9 DEF NetPoll, Poll

\* A fetch that is not at its end has a request left.
LEMMA ChunksLeft ==
  ASSUME NEW n \in Nat, NEW rounds \in Nat, n * Chunk < MaxContent, MaxContent <= rounds * Chunk
  PROVE  n < rounds
<1> SUFFICES ASSUME n >= rounds  PROVE FALSE
  OBVIOUS
<1>1. PICK d \in Nat : n = rounds + d
  BY n - rounds \in Nat
<1>2. n * Chunk = rounds * Chunk + d * Chunk /\ d * Chunk \in Nat /\ rounds * Chunk \in Nat
  BY <1>1
<1> QED BY <1>2

\* The requests that are left fit the ports that are left.
LEMMA PortsEnough ==
  ASSUME NEW rounds \in Nat, Careful(rounds), FetchSound(rounds), Fetching
  PROVE  \E n \in Nat :
           /\ Len(cl.got) = n * Chunk /\ n < rounds /\ (cl.got = <<>> => n = 0)
           /\ ephemeral + Left(rounds, n) <= EphBase + installs * (rounds + 1)
           /\ Left(rounds, n) = (rounds - n) + (IF cl.got = <<>> /\ ~cl.tried THEN 1 ELSE 0)
                                - (IF Exchanges THEN 1 ELSE 0)
           /\ ephemeral + Left(rounds, n) <= EphTop
<1>1. PICK n \in Nat : /\ Len(cl.got) = n * Chunk
                       /\ ephemeral + Left(rounds, n) <= EphBase + installs * (rounds + 1)
  BY DEF FetchSound, PortsLeft
<1>2. n < rounds
  BY <1>1, ChunksLeft DEF FetchSound, CallSound, Careful
<1>3. cl.got = <<>> => n = 0
  <2>1. Len(<<>>) = 0
    OBVIOUS
  <2>2. n # 0 => n * Chunk # 0
    OBVIOUS
  <2> QED BY <1>1, <2>1, <2>2
<1>4. Left(rounds, n) = (rounds - n) + (IF cl.got = <<>> /\ ~cl.tried THEN 1 ELSE 0)
                                - (IF Exchanges THEN 1 ELSE 0)
  BY DEF Left
<1>5. installs * (rounds + 1) <= EphTop - EphBase /\ installs * (rounds + 1) \in Nat
  <2>1. installs \in Nat /\ installs <= MaxInstalls
    BY DEF FetchSound, RestSound
  <2>2. PICK d \in Nat, m \in Nat : MaxInstalls = installs + d /\ m = rounds + 1
    BY <2>1, MaxInstalls - installs \in Nat, rounds + 1 \in Nat
  <2>3. MaxInstalls * m = installs * m + d * m /\ d * m \in Nat /\ installs * m \in Nat
    BY <2>1, <2>2
  <2>4. MaxInstalls * m <= EphTop - EphBase
    BY <2>2 DEF Careful
  <2> QED BY <2>2, <2>3, <2>4
<1>6. ephemeral + Left(rounds, n) <= EphTop
  <2>1. PICK x \in Int : x = Left(rounds, n)
    BY <1>4
  <2>2. PICK y \in Nat : y = installs * (rounds + 1)
    BY <1>5
  <2>3. ephemeral \in Nat
    BY DEF FetchSound, SockSound
  <2> QED BY <1>1, <1>5, <2>1, <2>2, <2>3
<1> QED BY <1>1, <1>2, <1>3, <1>4, <1>6

\* The ports that are left are enough when the fetch ends.
LEMMA PortsAtEnd ==
  ASSUME NEW rounds \in Nat, Careful(rounds), FetchSound(rounds),
         UNCHANGED <<ephemeral, installs>>, ~Fetching'
  PROVE  PortsLeft(rounds)'
<1>1. PICK x \in Nat : \E n \in Nat :
         x = Left(rounds, n) /\ ephemeral + Left(rounds, n) <= EphBase + installs * (rounds + 1)
  <2>1. CASE Fetching
    BY <2>1, PortsEnough
  <2>2. CASE ~Fetching
    <3>1. \A n \in Nat : Left(rounds, n) = 0
      BY <2>2 DEF Left
    <3> QED BY <3>1 DEF FetchSound, PortsLeft
  <2> QED BY <2>1, <2>2
<1>2. Left(rounds, 0)' = 0
  BY DEF Left
<1>3. ephemeral \in Nat /\ installs \in Nat
  BY DEF FetchSound, SockSound, RestSound
<1>4. ephemeral + 0 <= EphBase + installs * (rounds + 1)
  <2>1. PICK y \in Nat : y = installs * (rounds + 1)
    BY <1>3
  <2> QED BY <1>1, <1>3, <2>1
<1> QED BY <1>2, <1>4 DEF PortsLeft

LEMMA RestKeeps ==
  ASSUME RestSound, hung' \in BOOLEAN,
         UNCHANGED <<lapped, listen, echo, strays, catalog, index, installs, files>>
  PROVE  RestSound'
<1>1. Wholes' = Wholes
  BY WholesSame
<1> QED BY <1>1 DEF RestSound

\* The client closes its socket.
LEMMA CloseKeepsRing ==
  ASSUME NEW rounds \in Nat, FetchSound(rounds), Exchanges, NEW q \in RingOf(replies \cup Datagrams)
  PROVE  /\ CloseIn(q, sock, cl.fd).ring \in RingOf(replies \cup Datagrams)
         /\ CloseIn(q, sock, cl.fd).sock \in [Fds -> 0 .. EphTop]
         /\ \A f \in Fds : CloseIn(q, sock, cl.fd).sock[f] = 0
<1>1. cl.fd \in Fds /\ sock[cl.fd] # 0 /\ sock \in [Fds -> 0 .. EphTop]
  <2>1. cl.fd \in Fds
    BY DEF FetchSound, CallSound, Exchanges
  <2>2. sock[cl.fd] \in EphBase .. ephemeral - 1 /\ sock \in [Fds -> 0 .. EphTop]
    BY DEF FetchSound, SockSound
  <2>3. \A p \in EphBase .. ephemeral - 1 : p # 0
    BY DEF FetchSound, SockSound
  <2> QED BY <2>1, <2>2, <2>3
<1>2. \A f \in Fds \ {cl.fd} : sock[f] = 0
  BY DEF FetchSound, SockSound
<1>3. /\ CloseIn(q, sock, cl.fd).ring \in RingOf(replies \cup Datagrams)
      /\ CloseIn(q, sock, cl.fd).sock = [sock EXCEPT ![cl.fd] = 0]
  <2>0. PICK D : D = replies \cup Datagrams
    OBVIOUS
  <2>1. PICK f \in Fds : f = cl.fd /\ sock[f] # 0
    BY <1>1
  <2> q \in RingOf(D)
    BY <2>0
  <2>2. CloseIn(q, sock, f).ring \in RingOf(D) /\ CloseIn(q, sock, f).sock = [sock EXCEPT ![f] = 0]
    BY ONLY <2>1, f \in Fds, q \in RingOf(D), CloseInOf
  <2>3. CloseIn(q, sock, cl.fd) = CloseIn(q, sock, f) /\ [sock EXCEPT ![cl.fd] = 0] = [sock EXCEPT ![f] = 0]
    BY <2>1
  <2> HIDE DEF RingOf
  <2> QED BY <2>0, <2>2, <2>3, Zenon
<1>4. PICK g : g = cl.fd
  OBVIOUS
<1>5. [sock EXCEPT ![g] = 0] \in [Fds -> 0 .. EphTop] /\ \A f \in Fds : [sock EXCEPT ![g] = 0][f] = 0
  <2>1. 0 \in 0 .. EphTop
    OBVIOUS
  <2> QED BY <1>1, <1>2, <1>4, <2>1
<1> QED BY <1>3, <1>4, <1>5

\* Without a socket of the client no request is awaited.
LEMMA NoSocketKeeps ==
  ASSUME NEW rounds \in Nat, FetchSound(rounds), UNCHANGED <<requests, replies, catalog, ephemeral>>,
         ring' \in RingOf(replies \cup Datagrams),
         sock' \in [Fds -> 0 .. EphTop], \A f \in Fds : sock'[f] = 0, cl'.fd = Off
  PROVE  SockSound' /\ RequestsSound' /\ RepliesSound'
<1>1. SockSound'
  BY DEF FetchSound, SockSound, Exchanges
<1>2. RequestsSound'
  BY DEF FetchSound, RequestsSound, Exchanges
<1>3. RepliesSound'
  <2>1. \A q : Reply(q)' = Reply(q)
    BY ReplySame
  <2>2. {Reply(q) : q \in requests}' = {Reply(q) : q \in requests}
    BY <2>1
  <2> QED BY <2>2 DEF FetchSound, RepliesSound, RingOf
<1> QED BY <1>1, <1>2, <1>3

LEMMA IdleSound == ASSUME cl' = Idle  PROVE CallSound' /\ cl'.fd = Off /\ ~Fetching'
<1>1. cl' = [at |-> "idle", fd |-> Off, name |-> 0, tried |-> FALSE, tries |-> 0,
             got |-> <<>>, path |-> Off]
  BY DEF Idle
<1>2. 0 \in Spellings /\ 0 \in 0 .. ArpTries + 1 /\ <<>> \in Seq({0, 1, 2} \X Nat)
  BY DEF Spellings
<1> QED BY <1>1, <1>2 DEF CallSound, Exchanges, Fetching

\* An exchange fails: the fetch starts over under the other spelling, or ends.
LEMMA FailKeepsFetch ==
  ASSUME NEW rounds \in Nat, Careful(rounds), FetchSound(rounds), Fetching, Fail,
         UNCHANGED <<lapped, hung, ephemeral, listen, echo, strays>>,
         UNCHANGED <<catalog, requests, replies, files, index, installs>>,
         ring' \in RingOf(replies \cup Datagrams),
         sock' \in [Fds -> 0 .. EphTop], \A f \in Fds : sock'[f] = 0
  PROVE  FetchSound(rounds)'
<1>1. cl.name \in Spellings /\ cl.path \in Paths /\ cl.tried \in BOOLEAN
  BY DEF FetchSound, CallSound, Fetching
<1>2. RestSound'
  BY RestKeeps DEF FetchSound, RestSound
<1>3. \/ cl' = Idle
      \/ /\ cl' = [Idle EXCEPT !.at = "ask", !.name = 1 - cl.name, !.tried = TRUE, !.path = cl.path]
         /\ cl.got = <<>> /\ ~cl.tried
  BY DEF Fail
<1>4. CASE cl' = Idle
  <2>1. CallSound' /\ cl'.fd = Off /\ ~Fetching'
    BY <1>4, IdleSound
  <2> QED BY <1>2, <2>1, NoSocketKeeps, PortsAtEnd DEF FetchSound
<1>5. CASE /\ cl' = [Idle EXCEPT !.at = "ask", !.name = 1 - cl.name, !.tried = TRUE, !.path = cl.path]
           /\ cl.got = <<>> /\ ~cl.tried
  <2>1. cl' = [at |-> "ask", fd |-> Off, name |-> 1 - cl.name, tried |-> TRUE, tries |-> 0,
               got |-> <<>>, path |-> cl.path]
    BY <1>5 DEF Idle
  <2>2. Bytes(1 - cl.name, 0, 0) = <<>> /\ Len(<<>>) = 0 /\ 1 - cl.name \in Spellings
        /\ <<>> \in Seq({0, 1, 2} \X Nat) /\ 0 \in 0 .. ArpTries + 1 /\ 0 < MaxContent
    BY <1>1 DEF Bytes, Spellings
  <2>3. CallSound'
    BY <1>1, <2>1, <2>2 DEF CallSound, Exchanges, Fetching
  <2>4. PortsLeft(rounds)'
    <3>1. PICK n \in Nat :
           /\ n = 0
           /\ ephemeral + Left(rounds, n) <= EphBase + installs * (rounds + 1)
           /\ Left(rounds, n) = (rounds - n) + 1 - (IF Exchanges THEN 1 ELSE 0)
      BY <1>5, PortsEnough
    <3>2. Left(rounds, 0)' = rounds /\ Len(cl.got)' = 0 * Chunk
      <4>1. Fetching' /\ ~Exchanges' /\ cl'.tried /\ cl'.got = <<>>
        BY <2>1 DEF Fetching, Exchanges
      <4> QED BY <2>2, <4>1 DEF Left
    <3>3. PICK x \in Int : x = Left(rounds, n) /\ rounds <= x
      BY <3>1
    <3>4. ephemeral + rounds <= EphBase + installs * (rounds + 1)
      <4>1. PICK y \in Int : y = installs * (rounds + 1)
        BY DEF FetchSound, RestSound
      <4>2. ephemeral \in Nat
        BY DEF FetchSound, SockSound
      <4> QED BY <3>1, <3>3, <4>1, <4>2
    <3> QED BY <3>2, <3>4 DEF PortsLeft
  <2>5. cl'.fd = Off
    BY <2>1
  <2> QED BY <1>2, <2>3, <2>4, <2>5, NoSocketKeeps DEF FetchSound
<1> QED BY <1>3, <1>4, <1>5

LEMMA OpenKeepsFetch ==
  ASSUME NEW rounds \in Nat, Careful(rounds), FetchSound(rounds), Open
  PROVE  FetchSound(rounds)'
<1>1. /\ cl.at = "ask" /\ sock' = OpenSocket.sock /\ ephemeral' = OpenSocket.next
      /\ cl' = [cl EXCEPT !.at = "send", !.fd = OpenSocket.fd, !.tries = 0]
      /\ UNCHANGED <<ring, lapped, hung, listen, echo, cache, heard, strays>>
      /\ UNCHANGED <<catalog, requests, replies, files, index, installs>>
  BY DEF Open
<1>2. Fetching /\ ~Exchanges
  BY <1>1 DEF Fetching, Exchanges, FetchSound, CallSound
<1>3. PICK n \in Nat :
        /\ Len(cl.got) = n * Chunk /\ n < rounds
        /\ ephemeral + Left(rounds, n) <= EphBase + installs * (rounds + 1)
        /\ ephemeral + Left(rounds, n) <= EphTop
        /\ Left(rounds, n) = (rounds - n) + (IF cl.got = <<>> /\ ~cl.tried THEN 1 ELSE 0)
  <2>1. \A x \in Int : x - (IF Exchanges THEN 1 ELSE 0) = x
    BY <1>2
  <2> QED BY <1>2, <2>1, PortsEnough
<1>4. ephemeral \in EphBase .. EphTop /\ ephemeral < EphTop
  <2>1. Left(rounds, n) >= 1
    BY <1>3
  <2>2. PICK x \in Int : x = Left(rounds, n)
    BY <1>3
  <2> QED BY <1>3, <2>1, <2>2 DEF FetchSound, SockSound
<1>5. sock \in [Fds -> 0 .. EphTop] /\ \A f \in Fds : sock[f] = 0
  BY <1>2 DEF FetchSound, SockSound, Exchanges, Fds, Off
<1>6. PICK fd \in Fds : /\ cl' = [cl EXCEPT !.at = "send", !.fd = fd, !.tries = 0]
                        /\ sock' = [sock EXCEPT ![fd] = ephemeral]
                        /\ ephemeral' = ephemeral + 1
  <2>1. PICK fd \in Fds : fd = OpenSocket.fd
    BY <1>4, <1>5, OpensNext
  <2>2. OpenSocket.sock = [sock EXCEPT ![fd] = ephemeral] /\ OpenSocket.next = ephemeral + 1
    BY <1>4, <1>5, <2>1, OpensNext
  <2> QED BY <1>1, <2>1, <2>2
<1>7. cl'.fd = fd /\ cl'.at = "send" /\ cl'.got = cl.got /\ cl'.tried = cl.tried
      /\ fd # Off /\ Exchanges' /\ Fetching'
  <2>1. fd # Off
    BY <1>6 DEF Fds, Off
  <2>2. cl'.fd = fd /\ cl'.at = "send" /\ cl'.got = cl.got /\ cl'.tried = cl.tried
    BY <1>6 DEF FetchSound, CallSound
  <2> QED BY <2>1, <2>2 DEF Exchanges, Fetching
<1>8. CallSound'
  <2>1. 0 \in 0 .. ArpTries + 1 /\ 0 <= ArpTries
    OBVIOUS
  <2>2. cl.got = Bytes(cl.name, 0, Len(cl.got)) /\ Len(cl.got) < MaxContent /\ cl.path \in Paths
    BY <1>1, <1>2 DEF FetchSound, CallSound
  <2> QED BY <1>6, <1>7, <2>1, <2>2 DEF FetchSound, CallSound
<1>9. SockSound'
  BY <1>4, <1>5, <1>6, <1>7 DEF SockSound
<1>10. RequestsSound'
  <2>1. ASSUME NEW r \in requests
        PROVE  /\ r.port \in EphBase .. (ephemeral + 1) - 1 /\ r.name \in Spellings /\ r.offset \in Nat
               /\ r.port # ephemeral
    BY <1>4 DEF FetchSound, RequestsSound
  <2>2. sock'[cl'.fd] = ephemeral
    BY <1>5, <1>6, <1>7
  <2> QED BY <1>1, <1>6, <2>1, <2>2 DEF RequestsSound
<1>11. RepliesSound'
  <2>1. \A q : Reply(q)' = Reply(q)
    BY <1>1, ReplySame
  <2>2. {Reply(q) : q \in requests}' = {Reply(q) : q \in requests}
    BY <1>1, <2>1
  <2> QED BY <1>1, <2>2 DEF FetchSound, RepliesSound, RingOf
<1>12. RestSound'
  BY <1>1, RestKeeps DEF FetchSound, RestSound
<1>13. PortsLeft(rounds)'
  <2>1. Left(rounds, n)' = Left(rounds, n) - 1
    BY <1>3, <1>7 DEF Left
  <2>2. PICK x \in Int, y \in Int : x = Left(rounds, n) /\ y = EphBase + installs * (rounds + 1)
    BY <1>3 DEF FetchSound, RestSound
  <2>3. (ephemeral + 1) + (x - 1) <= y
    BY <1>3, <1>4, <2>2
  <2> QED BY <1>1, <1>3, <1>6, <1>7, <2>1, <2>2, <2>3 DEF PortsLeft
<1> QED BY <1>8, <1>9, <1>10, <1>11, <1>12, <1>13 DEF FetchSound

LEMMA LenTyped == ASSUME NEW S, NEW s \in Seq(S)  PROVE Len(s) \in Nat
OBVIOUS

\* The steps of an exchange that only say where the client is.
LEMMA ExchangeKeepsFetch ==
  ASSUME NEW rounds \in Nat, FetchSound(rounds),
         NEW at \in {"send", "wait", "resend", "wait again"}, NEW tries \in 0 .. ArpTries + 1,
         at = "send" => tries <= ArpTries, at = "resend" => tries <= 1,
         Exchanges, cl' = [cl EXCEPT !.at = at, !.tries = tries],
         requests' \in {requests, requests \cup {Request}},
         UNCHANGED <<ring, sock, lapped, hung, ephemeral, listen, echo, cache, heard, strays>>,
         UNCHANGED <<catalog, replies, files, index, installs>>
  PROVE  FetchSound(rounds)'
<1>1. /\ cl'.at = at /\ cl'.fd = cl.fd /\ cl'.got = cl.got /\ cl'.tried = cl.tried
      /\ cl'.name = cl.name /\ Fetching /\ Fetching' /\ Exchanges'
  BY DEF FetchSound, CallSound, Exchanges, Fetching
<1>2. CallSound'
  <2>1. cl.got = Bytes(cl.name, 0, Len(cl.got)) /\ Len(cl.got) < MaxContent /\ cl.path \in Paths
    BY <1>1 DEF FetchSound, CallSound, Fetching
  <2> QED BY <1>1, <2>1 DEF FetchSound, CallSound
<1>3. SockSound'
  BY <1>1 DEF FetchSound, SockSound
<1>4. RequestsSound'
  <2>1. /\ Request.port \in EphBase .. ephemeral - 1 /\ Request.name \in Spellings
        /\ Request.offset \in Nat /\ Request.name = cl.name /\ Request.offset = Len(cl.got)
    <3>1. Len(cl.got) \in Nat /\ cl.name \in Spellings
      <4>1. cl.name \in Spellings
        BY DEF FetchSound, CallSound
      <4>2. PICK g \in Seq({0, 1, 2} \X Nat) : g = cl.got
        BY DEF FetchSound, CallSound
      <4>3. Len(g) \in Nat
        BY <4>2, LenTyped
      <4> QED BY <4>1, <4>2, <4>3
    <3>2. sock[cl.fd] \in EphBase .. ephemeral - 1
      BY DEF FetchSound, SockSound
    <3> QED BY <3>1, <3>2 DEF Request
  <2>2. PICK q : q = Request
    OBVIOUS
  <2>3. \A r \in requests \cup {q} :
          /\ r.port \in EphBase .. ephemeral - 1 /\ r.name \in Spellings /\ r.offset \in Nat
          /\ r.port = sock[cl.fd] => r.name = cl.name /\ r.offset = Len(cl.got)
    BY <2>1, <2>2 DEF FetchSound, RequestsSound
  <2>4. requests' \subseteq requests \cup {q}
    BY <2>2
  <2> QED BY <1>1, <2>3, <2>4 DEF RequestsSound
<1>5. RepliesSound'
  <2>1. \A q : Reply(q)' = Reply(q)
    BY ReplySame
  <2>2. {Reply(q) : q \in requests} \subseteq {Reply(q) : q \in requests}'
    BY <2>1
  <2> QED BY <2>2 DEF FetchSound, RepliesSound, RingOf
<1>6. RestSound'
  BY RestKeeps DEF FetchSound, RestSound
<1>7. PortsLeft(rounds)'
  <2>1. \A n \in Nat : Left(rounds, n)' = Left(rounds, n)
    BY <1>1 DEF Left
  <2> QED BY <1>1, <2>1 DEF FetchSound, PortsLeft
<1> QED BY <1>2, <1>3, <1>4, <1>5, <1>6, <1>7 DEF FetchSound

LEMMA SendKeepsFetch ==
  ASSUME NEW rounds \in Nat, Careful(rounds), FetchSound(rounds), Send \/ Timeout \/ NoSocket
  PROVE  FetchSound(rounds)'
<1>1. /\ UNCHANGED <<lapped, hung, ephemeral, listen, echo, cache, heard, strays>>
      /\ UNCHANGED <<catalog, replies, files, index, installs>>
  BY DEF Send, Timeout, NoSocket, sockVars
<1>2. Fetching
  BY DEF Send, Timeout, NoSocket, Waits, Fetching
<1>3. cl.tries \in 0 .. ArpTries + 1 /\ (cl.at = "send" => cl.tries <= ArpTries) /\ ArpTries \in Nat
  BY DEF FetchSound, CallSound
<1>6. \A k \in 0 .. ArpTries + 1 :
        /\ k < ArpTries => k + 1 \in 0 .. ArpTries + 1 /\ k + 1 <= ArpTries
        /\ k < 1 => k + 1 \in 0 .. ArpTries + 1 /\ k + 1 <= 1
  BY <1>3
<1>4. CASE NoSocket
  <2>1. cl.at = "ask" /\ ~OpenSocket.ok
    BY <1>4 DEF NoSocket
  <2>2. ~Exchanges
    BY <2>1 DEF FetchSound, CallSound
  <2>3. sock \in [Fds -> 0 .. EphTop] /\ (\A f \in Fds : sock[f] = 0) /\ ephemeral \in EphBase .. EphTop
    BY <2>2 DEF FetchSound, SockSound, Exchanges, Fds, Off
  <2> QED BY <2>1, <2>3, OpensNext
<1>5. CASE Send \/ Timeout
  <2>1. Exchanges
    BY <1>5 DEF Send, Timeout, Waits, FetchSound, CallSound
  <2>2. ASSUME Fail, CloseSocket, UNCHANGED requests  PROVE FetchSound(rounds)'
    <3>1. ring \in RingOf(replies \cup Datagrams)
      BY DEF FetchSound, RepliesSound
    <3>2. /\ ring' \in RingOf(replies \cup Datagrams)
          /\ sock' \in [Fds -> 0 .. EphTop] /\ \A f \in Fds : sock'[f] = 0
      BY <2>1, <2>2, <3>1, CloseKeepsRing DEF CloseSocket
    <3> QED BY <1>1, <1>2, <2>2, <3>2, FailKeepsFetch
  <2>3. ASSUME NEW at \in {"send", "wait", "resend", "wait again"}, NEW tries \in 0 .. ArpTries + 1,
               at = "send" => tries <= ArpTries, at = "resend" => tries <= 1,
               cl' = [cl EXCEPT !.at = at, !.tries = tries],
               requests' \in {requests, requests \cup {Request}}, UNCHANGED <<ring, sock>>
        PROVE  FetchSound(rounds)'
    BY <1>1, <2>1, <2>3, ExchangeKeepsFetch
  <2>4. 0 \in 0 .. ArpTries + 1 /\ 0 <= ArpTries /\ 0 <= 1
    BY <1>3
  <2>5. CASE Send
    <3>1. PICK next \in {"wait", "wait again"} :
            next = IF cl.at = "send" THEN "wait" ELSE "wait again"
      OBVIOUS
    <3>2. CASE /\ requests' = requests \cup {Request}
               /\ cl' = [cl EXCEPT !.at = next, !.tries = 0] /\ UNCHANGED <<ring, sock>>
      BY <2>3, <2>4, <3>2
    <3>3. CASE /\ cl.at \in {"send", "resend"} /\ cl.tries < (IF cl.at = "send" THEN ArpTries ELSE 1)
               /\ cl' = [cl EXCEPT !.tries = @ + 1] /\ UNCHANGED <<requests, ring, sock>>
      <4>1. PICK at \in {"send", "resend"} : at = cl.at
        BY <3>3
      <4>2. PICK tries \in 0 .. ArpTries + 1 :
              tries = cl.tries + 1 /\ (at = "send" => tries <= ArpTries) /\ (at = "resend" => tries <= 1)
        BY <1>3, <1>6, <3>3, <4>1
      <4>3. cl' = [cl EXCEPT !.at = at, !.tries = tries]
        BY <3>3, <4>1, <4>2 DEF FetchSound, CallSound
      <4> QED BY <2>3, <3>3, <4>2, <4>3
    <3>4. CASE Fail /\ CloseSocket /\ UNCHANGED requests
      BY <2>2, <3>4
    <3>5. CASE /\ cl' = [cl EXCEPT !.at = next, !.tries = 0] /\ UNCHANGED <<requests, ring, sock>>
      BY <2>3, <2>4, <3>5
    <3> QED BY <2>5, <3>1, <3>2, <3>3, <3>4, <3>5 DEF Send
  <2>6. CASE Timeout
    <3>1. \/ cl' = [cl EXCEPT !.at = "resend", !.tries = 0] /\ UNCHANGED <<ring, sock, requests>>
          \/ Fail /\ CloseSocket /\ UNCHANGED requests
      BY <2>6 DEF Timeout
    <3> QED BY <2>2, <2>3, <2>4, <3>1
  <2> QED BY <1>5, <2>5, <2>6
<1> QED BY <1>4, <1>5

LEMMA TakeReplyKeepsFetch ==
  ASSUME NEW rounds \in Nat, Careful(rounds), FetchSound(rounds), TakeReply
  PROVE  FetchSound(rounds)'
<1>1. Waits /\ Comes /\ Fetching /\ Exchanges
  BY DEF TakeReply, Waits, Fetching, FetchSound, CallSound
<1>2. UNCHANGED <<lapped, ephemeral, listen, echo, cache, heard, strays>>
      /\ UNCHANGED <<catalog, requests, replies, files, index, installs>>
  BY DEF TakeReply
<1>3. PICK port \in EphBase .. EphTop : port = sock[cl.fd]
  BY <1>1 DEF FetchSound, SockSound
<1>4. PICK D : D = replies \cup Datagrams
  OBVIOUS
<1>5. PICK t : t = TakeFor(ring, port)
  OBVIOUS
<1>6. t.ring \in RingOf(D) /\ t.loops \in BOOLEAN /\ t.got \in D /\ t.got.dst = port
  <2>1. ring \in RingOf(D) /\ port \in Nat \ {0} /\ Matching(ring, port) # {}
    BY <1>1, <1>3, <1>4 DEF FetchSound, RepliesSound, Comes
  <2> QED BY <1>5, <2>1, TakeForOf
<1>7. CASE t.loops
  <2>1. hung' = TRUE /\ ring' = t.ring /\ UNCHANGED <<sock, cl>>
    BY <1>3, <1>5, <1>7 DEF TakeReply
  <2>2. CallSound'
    <3>1. Wholes' = Wholes
      BY <1>2, WholesSame
    <3> QED BY <2>1, <3>1 DEF FetchSound, CallSound, Exchanges, Fetching
  <2>3. SockSound'
    BY <1>2, <2>1 DEF FetchSound, SockSound, Exchanges
  <2>4. RequestsSound'
    BY <1>2, <2>1 DEF FetchSound, RequestsSound, Exchanges
  <2>5. RepliesSound'
    <3>1. \A q : Reply(q)' = Reply(q)
      BY <1>2, ReplySame
    <3>2. {Reply(q) : q \in requests}' = {Reply(q) : q \in requests}
      BY <1>2, <3>1
    <3> QED BY <1>2, <1>4, <1>6, <2>1, <3>2 DEF FetchSound, RepliesSound, RingOf
  <2>6. RestSound'
    BY <1>2, <2>1, RestKeeps DEF FetchSound
  <2>7. PortsLeft(rounds)'
    BY <1>2, <2>1 DEF FetchSound, PortsLeft, Left, Fetching, Exchanges
  <2> QED BY <2>2, <2>3, <2>4, <2>5, <2>6, <2>7 DEF FetchSound
<1>8. CASE ~t.loops
  <2>1. /\ hung' = FALSE /\ ring' = CloseIn(t.ring, sock, cl.fd).ring
        /\ sock' = CloseIn(t.ring, sock, cl.fd).sock /\ cl' = AfterReply(t.got.body)
    BY <1>3, <1>5, <1>8 DEF TakeReply
  <2>2. /\ ring' \in RingOf(D)
        /\ sock' \in [Fds -> 0 .. EphTop] /\ \A f \in Fds : sock'[f] = 0
    BY <1>1, <1>4, <1>6, <2>1, CloseKeepsRing
  <2>3. RestSound'
    BY <1>2, <2>1, RestKeeps DEF FetchSound
  <2>4. PICK r \in requests : t.got = Reply(r) /\ r.port = port
    <3>1. t.got \notin Datagrams
      <4>1. port \notin StrayPorts
        BY <1>3 DEF Careful
      <4> QED BY <1>6, <4>1 DEF Datagrams
    <3>2. PICK r \in requests : t.got = Reply(r)
      BY <1>4, <1>6, <3>1 DEF FetchSound, RepliesSound
    <3>3. Reply(r).dst = r.port
      BY DEF Reply
    <3> QED BY <1>6, <3>2, <3>3
  <2>5. r.name = cl.name /\ r.offset = Len(cl.got)
    BY <1>1, <1>3, <2>4 DEF FetchSound, RequestsSound
  <2>6. PICK n \in Nat :
          /\ Len(cl.got) = n * Chunk /\ n < rounds
          /\ ephemeral + Left(rounds, n) <= EphBase + installs * (rounds + 1)
          /\ Left(rounds, n) = (rounds - n) + (IF cl.got = <<>> /\ ~cl.tried THEN 1 ELSE 0)
                               - (IF Exchanges THEN 1 ELSE 0)
    BY <1>1, PortsEnough
  <2>7. cl' = AfterReply(Reply(r).body)
    BY <2>1, <2>4
  <2>8. \/ cl' = Idle
        \/ \E got \in Contentful :
             /\ cl' = [cl EXCEPT !.fd = Off, !.got = got, !.at = "store"]
             /\ got \in Wholes
        \/ \E got \in Contentful :
             /\ cl' = [cl EXCEPT !.fd = Off, !.got = got, !.at = "ask"]
             /\ got = Bytes(cl.name, 0, Len(got)) /\ Len(got) < MaxContent
             /\ Len(got) = (n + 1) * Chunk /\ got # <<>>
    <3>1. CallSound /\ catalog \in Catalogs /\ \A m \in Nat : m * Chunk # MaxContent
      BY DEF FetchSound, RestSound, Careful
    <3>2. PICK c : c = AfterReply(Reply(r).body)
      OBVIOUS
    <3> QED BY <1>1, <2>5, <2>6, <2>7, <3>1, <3>2, AfterReplyIs
  <2>9. CASE cl' = Idle
    BY <1>2, <1>4, <2>2, <2>3, <2>9, IdleSound, NoSocketKeeps, PortsAtEnd DEF FetchSound
  <2>10. ASSUME NEW got \in Contentful, got \in Wholes,
                cl' = [cl EXCEPT !.fd = Off, !.got = got, !.at = "store"]
         PROVE  FetchSound(rounds)'
    <3>1. cl'.fd = Off /\ cl'.at = "store" /\ cl'.got = got /\ cl'.path = cl.path /\ ~Fetching'
      BY <2>10 DEF FetchSound, CallSound, Fetching
    <3>2. CallSound'
      <4>1. Wholes' = Wholes
        BY <1>2, WholesSame
      <4>2. cl.path \in Paths
        BY <1>1 DEF FetchSound, CallSound, Fetching
      <4> QED BY <2>10, <3>1, <4>1, <4>2 DEF FetchSound, CallSound, Exchanges, Contentful
    <3> QED BY <1>2, <1>4, <2>2, <2>3, <3>1, <3>2, NoSocketKeeps, PortsAtEnd DEF FetchSound
  <2>11. ASSUME NEW got \in Contentful, got = Bytes(cl.name, 0, Len(got)), Len(got) < MaxContent,
                Len(got) = (n + 1) * Chunk, got # <<>>,
                cl' = [cl EXCEPT !.fd = Off, !.got = got, !.at = "ask"]
         PROVE  FetchSound(rounds)'
    <3>1. /\ cl'.fd = Off /\ cl'.at = "ask" /\ cl'.got = got /\ cl'.name = cl.name
          /\ Fetching' /\ ~Exchanges'
      BY <2>11 DEF FetchSound, CallSound, Fetching, Exchanges
    <3>2. CallSound'
      <4>1. cl.path \in Paths
        BY <1>1 DEF FetchSound, CallSound, Fetching
      <4> QED BY <2>11, <3>1, <4>1 DEF FetchSound, CallSound, Contentful
    <3>3. PortsLeft(rounds)'
      <4>1. PICK m \in Nat : m = n + 1
        BY <2>6
      <4>2. Left(rounds, m)' = rounds - m
        <5>1. cl'.got # <<>>
          BY <2>11, <3>1
        <5>2. Left(rounds, m)' = (rounds - m) + 0 - 0
          BY <3>1, <5>1 DEF Left
        <5>3. rounds - m \in Int
          BY <4>1
        <5> QED BY <5>2, <5>3
      <4>3. PICK x \in Int, y \in Int : x = Left(rounds, n) /\ y = EphBase + installs * (rounds + 1)
                                         /\ rounds - m <= x
        <5>1. PICK a \in {0, 1}, b \in {0, 1} : Left(rounds, n) = (rounds - n) + a - b
          BY <2>6
        <5>2. PICK k \in Int : k = Left(rounds, n) /\ rounds - m <= k
          <6>1. n \in Nat /\ rounds \in Nat /\ rounds - m = rounds - (n + 1)
            BY <2>6, <4>1
          <6>2. (rounds - n) + a - b \in Int /\ rounds - (n + 1) <= (rounds - n) + a - b
            BY <5>1, <6>1
          <6> QED BY <5>1, <6>1, <6>2
        <5>3. installs \in Nat
          BY DEF FetchSound, RestSound
        <5>4. EphBase + installs * (rounds + 1) \in Int
          BY <5>3
        <5> QED BY <5>2, <5>4
      <4>4. ephemeral + (rounds - m) <= y
        <5>1. PICK e \in Nat : e = ephemeral
          BY DEF FetchSound, SockSound
        <5>2. e + x <= y
          BY <2>6, <4>3, <5>1
        <5>3. PICK k \in Int : k = rounds - m
          BY <4>1
        <5>4. e + k <= y
          BY <4>3, <5>2, <5>3
        <5> QED BY <5>1, <5>3, <5>4
      <4>5. Len(cl'.got) = m * Chunk
        BY <2>11, <3>1, <4>1
      <4> QED BY <1>2, <4>2, <4>3, <4>4, <4>5 DEF PortsLeft
    <3> QED BY <1>2, <1>4, <2>2, <2>3, <3>1, <3>2, <3>3, NoSocketKeeps DEF FetchSound
  <2> QED BY <2>8, <2>9, <2>10, <2>11
<1> QED BY <1>6, <1>7, <1>8

\* The steps between fetches.
LEMMA InstallKeepsFetch ==
  ASSUME NEW rounds \in Nat, Careful(rounds), FetchSound(rounds),
         NEW path \in Paths, Install(path)
  PROVE  FetchSound(rounds)'
<1>1. /\ cl = Idle /\ installs < MaxInstalls /\ installs' = installs + 1
      /\ UNCHANGED <<sockVars, catalog, requests, replies, files, index>>
      /\ \/ cl' = [Idle EXCEPT !.at = "ask", !.path = path]
         \/ cl' = [Idle EXCEPT !.at = "store", !.got = OnDisk, !.path = path]
  BY DEF Install
<1>2. cl.fd = Off /\ cl.at = "idle" /\ ~Fetching /\ ~Exchanges
  BY <1>1 DEF Idle, Fetching, Exchanges
<1>3. PICK at \in {"ask", "store"}, got \in Contentful :
        /\ cl' = [at |-> at, fd |-> Off, name |-> 0, tried |-> FALSE, tries |-> 0,
                  got |-> got, path |-> path]
        /\ at = "ask" => got = <<>>
        /\ at = "store" => got = OnDisk
  <2>1. <<>> \in Contentful /\ OnDisk \in Contentful
    BY DEF Contentful, OnDisk
  <2> QED BY <1>1, <2>1 DEF Idle
<1>4. cl'.fd = Off /\ cl'.at = at /\ cl'.got = got /\ ~cl'.tried /\ cl'.name = 0 /\ cl'.path = path
      /\ ~Exchanges' /\ (Fetching' <=> at = "ask")
  BY <1>3 DEF Fetching, Exchanges
<1>5. CallSound'
  <2>1. Bytes(0, 0, 0) = <<>> /\ Len(<<>>) = 0 /\ 0 < MaxContent
        /\ 0 \in Spellings /\ 0 \in 0 .. ArpTries + 1
    BY DEF Bytes, Spellings
  <2> QED BY <1>3, <1>4, <2>1 DEF CallSound, Contentful
<1>6. UNCHANGED <<ring, lapped, hung, sock, ephemeral, listen, echo, strays>>
  BY <1>1 DEF sockVars
<1>7. SockSound' /\ RequestsSound' /\ RepliesSound'
  <2>1. sock \in [Fds -> 0 .. EphTop] /\ \A f \in Fds : sock[f] = 0
    BY <1>2 DEF FetchSound, SockSound, Fds, Off
  <2>2. ring \in RingOf(replies \cup Datagrams)
    BY DEF FetchSound, RepliesSound
  <2> QED BY <1>1, <1>4, <1>6, <2>1, <2>2, NoSocketKeeps
<1>8. RestSound'
  <2>1. Wholes' = Wholes
    BY <1>1, WholesSame
  <2>2. installs + 1 \in 0 .. MaxInstalls
    BY <1>1 DEF FetchSound, RestSound
  <2> QED BY <1>1, <1>6, <2>1, <2>2 DEF FetchSound, RestSound
<1>9. PortsLeft(rounds)'
  <2>1. \A n \in Nat : Left(rounds, n) = 0
    BY <1>2 DEF Left
  <2>2. ephemeral + 0 <= EphBase + installs * (rounds + 1)
    BY <2>1 DEF FetchSound, PortsLeft
  <2>3. PICK z \in Int : z = Left(rounds, 0)' /\ z <= rounds + 1
    BY <1>4 DEF Left
  <2>4. /\ installs \in Nat /\ ephemeral \in Nat
        /\ (installs + 1) * (rounds + 1) = installs * (rounds + 1) + (rounds + 1)
        /\ installs * (rounds + 1) \in Nat
    BY DEF FetchSound, RestSound, SockSound
  <2>5. PICK y \in Nat : y = installs * (rounds + 1)
    BY <2>4
  <2>6. ephemeral + z <= EphBase + (y + (rounds + 1))
    BY <2>2, <2>3, <2>4, <2>5
  <2>7. Fetching' => Len(cl'.got) = 0 * Chunk
    BY <1>3, <1>4
  <2> QED BY <1>1, <1>6, <2>3, <2>4, <2>5, <2>6, <2>7 DEF PortsLeft
<1> QED BY <1>5, <1>7, <1>8, <1>9 DEF FetchSound

LEMMA FilesKeepFetch ==
  ASSUME NEW rounds \in Nat, Careful(rounds), FetchSound(rounds),
         StoreFile \/ \E p \in Paths : Remove(p)
  PROVE  FetchSound(rounds)'
<1>1. /\ UNCHANGED <<sockVars, catalog, requests, replies, installs>> /\ cl' = Idle
      /\ cl.at \in {"idle", "store"}
  BY DEF StoreFile, Remove, Idle
<1>2. UNCHANGED <<ring, lapped, hung, sock, ephemeral, listen, echo, strays>>
  BY <1>1 DEF sockVars
<1>3. CallSound' /\ cl'.fd = Off /\ ~Fetching'
  BY <1>1, IdleSound
<1>4. SockSound' /\ RequestsSound' /\ RepliesSound'
  <2>1. sock \in [Fds -> 0 .. EphTop] /\ \A f \in Fds : sock[f] = 0
    <3>1. ~Exchanges
      BY <1>1 DEF FetchSound, CallSound
    <3> QED BY <3>1 DEF FetchSound, SockSound, Exchanges, Fds, Off
  <2>2. ring \in RingOf(replies \cup Datagrams)
    BY DEF FetchSound, RepliesSound
  <2> QED BY <1>1, <1>2, <1>3, <2>1, <2>2, NoSocketKeeps
<1>5. files' \in [Paths -> {Absent, Damaged, OnDisk} \cup Wholes] /\ index' \subseteq Paths
  <2>1. files \in [Paths -> {Absent, Damaged, OnDisk} \cup Wholes] /\ index \subseteq Paths
    BY DEF FetchSound, RestSound
  <2>2. CASE StoreFile
    <3>1. cl.got \in Wholes \cup {OnDisk} /\ cl.path \in Paths
      BY <2>2 DEF StoreFile, FetchSound, CallSound
    <3> QED BY <2>1, <2>2, <3>1 DEF StoreFile, SetEntry
  <2>3. CASE \E p \in Paths : Remove(p)
    BY <2>1, <2>3 DEF Remove, RemoveEntry
  <2> QED BY <2>2, <2>3
<1>6. RestSound'
  <2>1. Wholes' = Wholes
    BY <1>1, WholesSame
  <2> QED BY <1>1, <1>2, <1>5, <2>1 DEF FetchSound, RestSound
<1> QED BY <1>1, <1>2, <1>3, <1>4, <1>6, PortsAtEnd DEF FetchSound

LEMMA NextKeepsFetch ==
  ASSUME NEW rounds \in Nat, Careful(rounds), FetchSound(rounds), [Next]_vars
  PROVE  FetchSound(rounds)'
<1>1. CASE UNCHANGED vars
  <2>1. UNCHANGED <<sockVars, pkgVars>>
    BY <1>1 DEF vars
  <2>2. UNCHANGED <<ring, lapped, hung, sock, ephemeral, listen, echo, strays>>
        /\ UNCHANGED <<catalog, requests, replies, cl, files, index, installs>>
    BY <2>1 DEF sockVars, pkgVars
  <2>3. RepliesSound'
    <3>1. \A q : Reply(q)' = Reply(q)
      BY <2>2, ReplySame
    <3>2. {Reply(q) : q \in requests}' = {Reply(q) : q \in requests}
      BY <2>2, <3>1
    <3> QED BY <2>2, <3>2 DEF FetchSound, RepliesSound, RingOf
  <2> QED BY <2>2, <2>3, NetworkKeepsFetch DEF FetchSound, RestSound
<1>2. CASE Next
  BY <1>2, ServeKeepsFetch, OpenKeepsFetch, SendKeepsFetch, TakeReplyKeepsFetch, FilesKeepFetch,
     InstallKeepsFetch, PollKeepsFetch DEF Next, Client
<1> QED BY <1>1, <1>2

\* What the invariant says of the properties that the run checks.
LEMMA FetchSoundIs ==
  ASSUME NEW rounds \in Nat, FetchSound(rounds)
  PROVE  FilesWhole /\ FetchIsPrefix
<1>1. FetchIsPrefix
  <2>1. Fetching => cl.got = Bytes(cl.name, 0, Len(cl.got)) /\ Len(cl.got) < MaxContent
    BY DEF FetchSound, CallSound
  <2>2. Exchanges => /\ sock[cl.fd] \in EphBase .. EphTop /\ sock[cl.fd] # 0
                     /\ \A f \in Fds \ {cl.fd} : sock[f] = 0
    BY DEF FetchSound, SockSound
  <2> QED BY <2>1, <2>2 DEF FetchIsPrefix, Fetching, Exchanges
<1>2. SocketsTypeOK
  <2>1. /\ ring.slot \in [Index -> {NoDatagram} \cup replies \cup Datagrams]
        /\ ring.head \in Index /\ ring.tail \in Index /\ ring.count \in 0 .. RingSize
    BY DEF FetchSound, RepliesSound, RingOf
  <2>2. \A d \in replies \cup Datagrams : d.dst # 0
    <3>1. ASSUME NEW d \in replies  PROVE d.dst # 0
      <4>1. PICK r \in requests : d = Reply(r)
        BY DEF FetchSound, RepliesSound
      <4>2. d.dst = r.port
        BY <4>1 DEF Reply
      <4>3. r.port \in EphBase .. ephemeral - 1 /\ ephemeral \in Nat
        BY DEF FetchSound, RequestsSound, SockSound
      <4> QED BY <4>2, <4>3
    <3>2. \A d \in Datagrams : d.dst # 0
      BY DEF Datagrams
    <3> QED BY <3>1, <3>2
  <2>3. \A i \in Index : ring.slot[i] # NoDatagram => i \in InUse(ring)
    BY <2>1, <2>2 DEF InUse, Valid
  <2>4. ring.slot \in [Index -> {NoDatagram} \cup {ring.slot[i] : i \in InUse(ring)}]
    BY <2>1, <2>3
  <2> QED BY <2>1, <2>4 DEF SocketsTypeOK, FetchSound, SockSound, RestSound
<1>3. TypeOK
  BY <1>2 DEF TypeOK, FetchSound, CallSound, RestSound
<1>4. FilesWhole
  BY <1>3 DEF FilesWhole, FetchSound, RestSound, Wholes
<1> QED BY <1>1, <1>4

\* What pkg install leaves in a file is a whole package of one spelling, its chunks in
\* order and each once, whatever datagrams are lost, repeated or late: until the client
\* has used all its ports, a reply that reaches a port answers what the port asks for.
THEOREM FilesWholeHolds == (\E rounds \in Nat : Careful(rounds)) => (Spec => []FilesWhole)
<1> SUFFICES ASSUME NEW rounds \in Nat, Careful(rounds)  PROVE Spec => []FilesWhole
  OBVIOUS
<1>1. Init => FetchSound(rounds)
  BY FetchInit
<1>2. FetchSound(rounds) /\ [Next]_vars => FetchSound(rounds)'
  BY NextKeepsFetch
<1>3. FetchSound(rounds) => FilesWhole
  BY FetchSoundIs
<1> QED BY <1>1, <1>2, <1>3, PTL DEF Spec

\* Under the same conditions what pkg install has so far is the beginning of one file, and
\* it waits for the rest on a port of the ephemeral range.
THEOREM FetchIsPrefixHolds == (\E rounds \in Nat : Careful(rounds)) => (Spec => []FetchIsPrefix)
<1> SUFFICES ASSUME NEW rounds \in Nat, Careful(rounds)  PROVE Spec => []FetchIsPrefix
  OBVIOUS
<1>1. Init => FetchSound(rounds)
  BY FetchInit
<1>2. FetchSound(rounds) /\ [Next]_vars => FetchSound(rounds)'
  BY NextKeepsFetch
<1>3. FetchSound(rounds) => FetchIsPrefix
  BY FetchSoundIs
<1> QED BY <1>1, <1>2, <1>3, PTL DEF Spec
=============================================================================
