------------------------------ MODULE UdpRing ------------------------------
(***************************************************************************)
(* The receive ring of udp.c as operators on a record: slots, the index of *)
(* the oldest datagram, the index the next one goes to, and a counter.     *)
(* A slot is emptied where it is, so a datagram that is taken for its port *)
(* leaves a hole between its neighbours, which the counter forgets at once *)
(* and the indices only when the head reaches it.                          *)
(***************************************************************************)
EXTENDS Integers, Sequences, FiniteSets, FiniteSetsExt

CONSTANT RingSize    \* UDP_RX_QUEUE_SIZE

ASSUME UdpRingAssumption == RingSize \in Nat \ {0}

Index == 0 .. RingSize - 1

\* A slot that is not valid.  Datagrams are records with their port in "dst".
NoDatagram == [dst |-> 0]

RingInit == [slot |-> [i \in Index |-> NoDatagram], head |-> 0, tail |-> 0, count |-> 0]

After(i) == (i + 1) % RingSize

Valid(q, i) == q.slot[i].dst # 0
InUse(q)    == {i \in Index : Valid(q, i)}

\* The slots in the order a scan from the head meets them.
Scanned(q) == [k \in 1 .. RingSize |-> q.slot[(q.head + k - 1) % RingSize]]

\* The datagrams that a scan of the slots e has met, step by step.
Met(e) ==
    LET met[k \in 0 .. RingSize] ==
          IF k = 0 THEN <<>>
          ELSE IF e[k].dst # 0 THEN Append(met[k - 1], e[k]) ELSE met[k - 1]
    IN  met

\* The datagrams of the ring, the oldest first.
Contents(q) == Met(Scanned(q))[RingSize]

\* The tail has run around onto a head that still waits.
Lapping(q) == q.count > 0 /\ q.count < RingSize /\ q.tail = q.head

\* udp_queue_push
Push(q, d) ==
    IF q.count = RingSize THEN q
    ELSE [slot |-> [q.slot EXCEPT ![q.tail] = d], head |-> q.head,
          tail |-> After(q.tail), count |-> q.count + 1]

-----------------------------------------------------------------------------
(* udp_recv_next_for_port                                                  *)

Matching(q, port) ==
    IF q.count = 0 THEN {}
    ELSE {k \in Index : q.slot[(q.head + k) % RingSize].dst = port}

\* The lowest valid slot with the port, whatever the head is (for the mutants).
LowestFor(q, port) == Min({i \in Index : q.slot[i].dst = port})

OldestFor(q, port) == (q.head + Min(Matching(q, port))) % RingSize

\* The head catches up with the next valid slot.  Without one it never does:
\* the loop asks for a valid slot as long as the counter is not zero.
CatchUp(q) ==
    IF q.count = 0 THEN [q EXCEPT !.head = q.tail]
    ELSE LET ahead == {k \in Index : Valid(q, (q.head + k) % RingSize)}
         IN  IF ahead = {} THEN q
             ELSE [q EXCEPT !.head = (q.head + Min(ahead)) % RingSize]

Loops(q) == q.count > 0 /\ InUse(q) = {}

TakeFor(q, port) ==
    LET i == OldestFor(q, port)
        s == [q EXCEPT !.slot[i] = NoDatagram, !.count = q.count - 1]
    IN  [got |-> q.slot[i], ring |-> CatchUp(s), loops |-> Loops(s)]

-----------------------------------------------------------------------------
\* udp_recv_next when nothing listens: only the slot at the head, which may be
\* a hole, and the head moves by one.
TakeHead(q) ==
    [got |-> q.slot[q.head],
     ring |-> [q EXCEPT !.slot[q.head] = NoDatagram, !.head = After(q.head),
                        !.count = q.count - 1]]

\* Only the datagrams of the port go, the counter stays (for the mutants).
DiscardSlots(q, port) ==
    [q EXCEPT !.slot = [i \in Index |-> IF @[i].dst = port THEN NoDatagram ELSE @[i]]]

\* udp_discard_for_port: one datagram for the port empties the ring.
Discard(q, port) ==
    IF \E i \in Index : q.slot[i].dst = port /\ port # 0 THEN RingInit ELSE q
=============================================================================
