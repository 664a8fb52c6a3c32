----------------------------- MODULE Tcp_proofs -----------------------------
(***************************************************************************)
(* IInv of Tcp is an invariant for every table size, every set of peers    *)
(* and every modulus of the sequence numbers, and with it the safety       *)
(* properties that the run of MCTcp checks.                                *)
(***************************************************************************)
EXTENDS Tcp, FiniteSetTheorems, TLAPS

\* A nonempty set of natural numbers has a least element: the intervals from 0 to
\* its elements are finite sets, and inclusion is well founded on those.
LEMMA LowestExists ==
  ASSUME NEW S \in SUBSET Nat, S # {}
  PROVE  \E x \in S : \A y \in S : x <= y
<1> DEFINE F == {0 .. x : x \in S}
<1>1. ASSUME NEW x \in S  PROVE IsFiniteSet(0 .. x)
  BY FS_Interval, 0 \in Int, x \in Int, Zenon
<1>2. F \subseteq FiniteSubsetsOf(Nat) /\ F # {}
  BY <1>1 DEF FiniteSubsetsOf
<1>3. PICK D \in F : \A E \in F : ~ (<<E, D>> \in StrictSubsetOrdering(Nat))
  <2> HIDE DEF F
  <2> QED BY <1>2, FS_StrictSubsetOrderingWellFounded, WFMin, Zenon
<1>4. PICK x \in S : D = 0 .. x
  BY <1>3
<1>5. ASSUME NEW y \in S, y < x  PROVE FALSE
  <2>1. 0 .. y \in F /\ <<0 .. y, D>> \in StrictSubsetOrdering(Nat)
    BY <1>4, <1>5 DEF StrictSubsetOrdering
  <2> QED BY <1>3, <2>1
<1> QED BY <1>5

\* The same for Min of the community modules.
LEMMA MinIsLowest ==
  ASSUME NEW S \in SUBSET Nat, S # {}
  PROVE  Min(S) \in S /\ \A y \in S : Min(S) <= y
<1>1. \E x \in S : \A y \in S : x <= y
  BY LowestExists
<1> QED
  BY <1>1 DEF Min

\* What a remainder is below twice the modulus.
LEMMA ModSmall ==
  ASSUME NEW m \in Nat \ {0}, NEW x \in Nat, x < 2 * m
  PROVE  x % m = IF x < m THEN x ELSE x - m
OBVIOUS

\* The remainder of a difference of two remainders.
LEMMA ModDiff ==
  ASSUME NEW m \in Nat \ {0}, NEW a \in 0 .. m - 1, NEW b \in 0 .. m - 1
  PROVE  (a - b) % m = IF a >= b THEN a - b ELSE a - b + m
OBVIOUS

\* A remainder is below the modulus.
LEMMA ModRange ==
  ASSUME NEW m \in Nat \ {0}, NEW x \in Int
  PROVE  x % m \in 0 .. m - 1
OBVIOUS

USE TcpAssumption

-----------------------------------------------------------------------------
(* Sequence numbers and slots.                                             *)

\* A step forward is a sum, less a whole round if it passes the modulus.
LEMMA PlusOnce ==
  ASSUME NEW a \in 0 .. SeqMod - 1, NEW k \in 0 .. SeqMod - 1
  PROVE  Plus(a, k) = IF a + k < SeqMod THEN a + k ELSE a + k - SeqMod
<1> DEFINE m == SeqMod
<1> DEFINE x == a + k
<1>1. m \in Nat \ {0} /\ x \in Nat /\ x < 2 * m
  OBVIOUS
<1> HIDE DEF m, x
<1>2. x % m = IF x < m THEN x ELSE x - m
  BY <1>1, ModSmall
<1> QED
  BY <1>2 DEF m, x, Plus

\* Numbers add up as they do in TCP: two steps forward are one long step.
LEMMA PlusPlus ==
  ASSUME NEW a \in 0 .. SeqMod - 1, NEW k \in Nat, NEW l \in Nat, k + l < SeqMod
  PROVE  Plus(Plus(a, k), l) = Plus(a, k + l)
<1>1. k \in 0 .. SeqMod - 1 /\ l \in 0 .. SeqMod - 1 /\ k + l \in 0 .. SeqMod - 1
  OBVIOUS
<1>2. Plus(a, k) = IF a + k < SeqMod THEN a + k ELSE a + k - SeqMod
  BY <1>1, PlusOnce
<1>3. Plus(a, k) \in 0 .. SeqMod - 1
  BY <1>1, <1>2
<1>4. Plus(Plus(a, k), l) = IF Plus(a, k) + l < SeqMod THEN Plus(a, k) + l
                                                       ELSE Plus(a, k) + l - SeqMod
  BY <1>1, <1>3, PlusOnce
<1>5. Plus(a, k + l) = IF a + (k + l) < SeqMod THEN a + (k + l) ELSE a + (k + l) - SeqMod
  BY <1>1, PlusOnce
<1> QED
  BY <1>1, <1>2, <1>4, <1>5

\* How far a number is from where its peer started, as long as that is less
\* than a whole round.
LEMMA PlusMinus ==
  ASSUME NEW a \in 0 .. SeqMod - 1, NEW k \in 0 .. SeqMod - 1
  PROVE  Plus(a, k) \in 0 .. SeqMod - 1 /\ (Plus(a, k) - a) % SeqMod = k
<1> DEFINE m == SeqMod
<1> DEFINE p == Plus(a, k)
<1>1. p = IF a + k < m THEN a + k ELSE a + k - m
  BY PlusOnce
<1>2. p \in 0 .. m - 1 /\ a \in 0 .. m - 1 /\ m \in Nat \ {0}
  BY <1>1
<1> HIDE DEF m, p
<1>3. (p - a) % m = IF p >= a THEN p - a ELSE p - a + m
  BY <1>2, ModDiff
<1>4. p \in 0 .. m - 1 /\ (p - a) % m = k
  BY <1>1, <1>2, <1>3 DEF m
<1> QED
  BY <1>4 DEF m, p

\* Every sum of numbers is a number.
LEMMA PlusTyped ==
  ASSUME NEW a \in Int, NEW b \in Int
  PROVE  Plus(a, b) \in 0 .. SeqMod - 1
BY ModRange DEF Plus

\* The first of some slots is one of them.
LEMMA MinOfSlots ==
  ASSUME NEW S \in SUBSET Slot, S # {}
  PROVE  Min(S) \in S
<1>1. S \in SUBSET Nat
  BY DEF Slot
<1> QED
  BY <1>1, MinIsLowest

\* The slot that a new connection takes is free, or the first of a full table.
LEMMA AllocTakes ==
  AllocConn \in Slot /\ (AllocConn \notin Used \/ (AllocConn = 0 /\ Used = Slot))
<1>1. CASE Used = Slot
  BY <1>1 DEF AllocConn, Slot
<1>2. CASE Used # Slot
  <2>1. Slot \ Used # {}
    BY <1>2 DEF Used
  <2>2. Min(Slot \ Used) \in Slot \ Used
    BY <2>1, MinOfSlots
  <2> QED
    BY <1>2, <2>2 DEF AllocConn
<1> QED
  BY <1>1, <1>2

-----------------------------------------------------------------------------
(* The segments of this machine.                                           *)

\* A used slot holds a connection with a peer.
LEMMA UsedTyped ==
  ASSUME TypeOK, NEW i \in Used
  PROVE  /\ i \in Slot /\ conn[i].st \in {"SYN_RCVD", "ESTABLISHED"}
         /\ conn[i].peer \in Clients /\ conn[i].snd \in 0 .. SeqMod - 1
         /\ conn[i].rcv \in 0 .. SeqMod - 1
         /\ conn[i] \in [st : {"SYN_RCVD", "ESTABLISHED"}, peer : Clients,
                         snd : 0 .. SeqMod - 1, rcv : 0 .. SeqMod - 1]
BY DEF TypeOK, Used, Free

\* The connection a segment is looked up for is one of its sender.
LEMMA Found ==
  ASSUME NEW c, FindConn(c) # {}
  PROVE  Min(FindConn(c)) \in Used /\ conn[Min(FindConn(c))].peer = c
<1>1. FindConn(c) \in SUBSET Slot
  BY DEF FindConn, Used
<1> QED
  BY <1>1, MinOfSlots DEF FindConn

LEMMA InitIInv == Init => IInv
<1> SUFFICES ASSUME Init PROVE IInv
  OBVIOUS
<1>1. Used = {}
  BY DEF Init, Used, Free
<1>2. TypeOK
  <2>1. conn \in [Slot -> {Free}] /\ isn \in 0 .. SeqMod - 1
    BY DEF Init
  <2>2. toggles \in 0 .. MaxToggles /\ opens \in 0 .. MaxOpens
    BY DEF Init
  <2>3. listen \in BOOLEAN
    BY DEF Init
  <2> QED
    BY <2>1, <2>2, <2>3 DEF TypeOK
<1>3. NetTypeOK
  BY DEF Init, NetTypeOK, Fresh, Peer, PeerStates
<1> QED
  BY <1>1, <1>2, <1>3
  DEF Init, IInv, ConnsDistinct, AcksCarryOurSyn, EstablishedWasConfirmed

LEMMA HandshakeKeeps ==
  ASSUME IInv, NEW s \in net, NEW i \in Used, conn[i].peer = s.from, InHandshake(s, i),
         UNCHANGED <<listen, toggles, net, peer>>
  PROVE  IInv'
<1> USE DEF IInv, ConnsDistinct
<1>1. TypeOK'
  BY UsedTyped DEF InHandshake, TypeOK
<1>2. Used' \subseteq Used
  BY DEF InHandshake, TypeOK, Used
<1>3. \A j \in Used' : /\ conn'[j].peer = conn[j].peer /\ conn'[j].snd = conn[j].snd
                       /\ j # i => conn'[j] = conn[j]
                       /\ conn'[j].st = "ESTABLISHED" =>
                            conn[j].st = "ESTABLISHED" \/ (j = i /\ EndsHandshake(s, conn[i]))
  BY <1>2, UsedTyped DEF InHandshake, TypeOK, Used, Free
<1>4. NetTypeOK'
  BY DEF InHandshake, NetTypeOK
<1>5. AcksCarryOurSyn'
  <2>1. \A j \in Used' : conn'[j].st = "ESTABLISHED" => SawOurSyn(conn'[j].peer)
    BY <1>2, <1>3 DEF AcksCarryOurSyn, EndsHandshake
  <2> QED
    BY <2>1 DEF AcksCarryOurSyn, SawOurSyn
<1>6. EstablishedWasConfirmed'
  BY <1>2, <1>3 DEF AcksCarryOurSyn, EstablishedWasConfirmed, EndsHandshake
<1> QED
  BY <1>1, <1>2, <1>3, <1>4, <1>5, <1>6

LEMMA ConnectionKeeps ==
  ASSUME IInv, NEW s \in net, NEW i \in Used, conn[i].peer = s.from, InConnection(s, i),
         UNCHANGED <<listen, toggles, net, peer>>
  PROVE  IInv'
<1> USE DEF IInv, ConnsDistinct
<1>1. s \in Segment /\ Advance(s) \in Nat
  BY DEF NetTypeOK, Segment, Advance
<1>2. Plus(s.seq, Advance(s)) \in 0 .. SeqMod - 1
  BY <1>1, PlusTyped DEF Segment
<1>3. TypeOK'
  BY <1>2, UsedTyped DEF InConnection, TypeOK
<1>4. Used' \subseteq Used
  BY DEF InConnection, TypeOK, Used
<1>5. \A j \in Used' : /\ conn'[j].peer = conn[j].peer /\ conn'[j].snd = conn[j].snd
                       /\ conn'[j].st = conn[j].st
  BY <1>4, UsedTyped DEF InConnection, TypeOK, Used, Free
<1>6. NetTypeOK'
  BY <1>2, UsedTyped DEF InConnection, ReplyTo, NetTypeOK
<1>7. AcksCarryOurSyn' /\ EstablishedWasConfirmed'
  BY <1>4, <1>5 DEF AcksCarryOurSyn, SawOurSyn, EstablishedWasConfirmed
<1> QED
  BY <1>3, <1>4, <1>5, <1>6, <1>7

LEMMA NewConnectionKeeps ==
  ASSUME IInv, NEW s \in net, FindConn(s.from) = {}, NewConnection(s),
         UNCHANGED <<listen, toggles, net, peer>>
  PROVE  IInv'
<1> USE DEF IInv, ConnsDistinct
<1> DEFINE a == AllocConn
<1> DEFINE k == [st |-> "SYN_RCVD", peer |-> s.from, snd |-> Plus(isn, 1),
                 rcv |-> Plus(s.seq, 1)]
<1>1. s \in Segment /\ s.from \in Clients
  BY DEF NetTypeOK, Segment
<1>2. Plus(s.seq, 1) \in 0 .. SeqMod - 1 /\ Plus(isn, 1) \in 0 .. SeqMod - 1
      /\ Plus(isn, IsnStep) \in 0 .. SeqMod - 1
  <2>1. s.seq \in Int /\ isn \in Int /\ IsnStep \in Int /\ 1 \in Int
    BY <1>1 DEF Segment, TypeOK
  <2> QED
    BY <2>1, PlusTyped, Zenon
<1>3. a \in Slot /\ conn' = [conn EXCEPT ![a] = k]
  BY AllocTakes DEF NewConnection
<1>4. k \in [st : {"SYN_RCVD", "ESTABLISHED"}, peer : Clients,
             snd : 0 .. SeqMod - 1, rcv : 0 .. SeqMod - 1]
      /\ k.st = "SYN_RCVD" /\ k.peer = s.from
  BY <1>1, <1>2
<1> HIDE DEF a, k
<1>5. conn'[a] = k /\ \A j \in Slot \ {a} : conn'[j] = conn[j]
  BY <1>3 DEF TypeOK
<1>6. TypeOK'
  <2>1. conn' \in [Slot -> {Free} \cup [st : {"SYN_RCVD", "ESTABLISHED"}, peer : Clients,
                                      snd : 0 .. SeqMod - 1, rcv : 0 .. SeqMod - 1]]
    BY <1>3, <1>4 DEF TypeOK
  <2>2. isn' \in 0 .. SeqMod - 1 /\ opens' \in 0 .. MaxOpens
        /\ UNCHANGED <<listen, toggles>>
    BY <1>2 DEF NewConnection, TypeOK
  <2> QED
    BY <2>1, <2>2 DEF TypeOK
<1>7. Used' \subseteq Used \cup {a}
  BY <1>3, <1>5 DEF Used
<1>8. \A j \in Used' : (j = a /\ conn'[j] = k) \/ (j \in Used /\ j # a /\ conn'[j] = conn[j])
  BY <1>5, <1>7 DEF Used
<1>9. \A i, j \in Used' : conn'[i].peer = conn'[j].peer => i = j
  BY <1>4, <1>8 DEF FindConn
<1>10. NetTypeOK'
  BY <1>2 DEF NetTypeOK, NewConnection, ReplyTo, TypeOK
<1>11. AcksCarryOurSyn' /\ EstablishedWasConfirmed'
  BY <1>4, <1>8 DEF AcksCarryOurSyn, SawOurSyn, EstablishedWasConfirmed
<1> QED
  BY <1>6, <1>9, <1>10, <1>11

-----------------------------------------------------------------------------
(* The peers.                                                              *)

\* What a peer may send and become: a segment that acknowledges carries the
\* number that the peer saw, and that number stays what it is.
LEMMA SendsKeeps ==
  ASSUME IInv, NEW c \in Clients, NEW s \in Segment, NEW p \in Peer, Sends(c, s, p),
         s.from = c,
         SawOurSyn(c) => p.rcv = peer[c].rcv /\ p.st \notin {"closed", "SYN_SENT"},
         "ACK" \in s.flags => p.st \notin {"closed", "SYN_SENT"} /\ s.ack = p.rcv
  PROVE  IInv'
<1> USE DEF IInv, ConnsDistinct
<1>1. Used' = Used /\ TypeOK' /\ \A i, j \in Used' : conn'[i].peer = conn'[j].peer => i = j
  BY DEF Sends, Used, TypeOK
<1>2. peer'[c] = p /\ \A d \in Clients \ {c} : peer'[d] = peer[d]
  BY DEF Sends, NetTypeOK
<1>3. NetTypeOK'
  BY DEF Sends, NetTypeOK
<1>4. \A t \in net' : t \in net \/ t = s
  BY DEF Sends
<1>5. \A t \in net : t.from \in Clients
  BY DEF NetTypeOK, Segment
<1>6. \A i \in Used : conn[i].peer \in Clients
  BY UsedTyped
<1>7. \A d \in Clients : SawOurSyn(d) => SawOurSyn(d)' /\ peer'[d].rcv = peer[d].rcv
  BY <1>2 DEF SawOurSyn
<1>8. AcksCarryOurSyn'
  BY <1>1, <1>2, <1>4, <1>5, <1>6, <1>7 DEF AcksCarryOurSyn, SawOurSyn, Sends
<1>9. EstablishedWasConfirmed'
  BY <1>1, <1>6, <1>7 DEF AcksCarryOurSyn, EstablishedWasConfirmed, Sends
<1> QED
  BY <1>1, <1>3, <1>8, <1>9

\* Every step of a peer is one of those, or changes only what it counts as
\* acknowledged.
LEMMA PeersKeep == IInv /\ Peers => IInv'
<1> SUFFICES ASSUME IInv, NEW c \in Clients,
                    \/ Connect(c) \/ SendData(c) \/ Close(c) \/ Abort(c)
                    \/ \E b \in back : Confirm(c, b) \/ TakeAck(c, b)
             PROVE  IInv'
  BY DEF Peers
<1>1. peer[c] \in Peer /\ Plus(peer[c].snd, 1) \in 0 .. SeqMod - 1
                      /\ Plus(Iss[c], 1) \in 0 .. SeqMod - 1
  <2>1. peer[c] \in Peer
    BY DEF IInv, NetTypeOK
  <2>2. peer[c].snd \in Int /\ Iss[c] \in Int /\ 1 \in Int
    BY <2>1 DEF Peer
  <2> QED
    BY <2>1, <2>2, PlusTyped, Zenon
<1>2. CASE Connect(c)
  <2> DEFINE s == Seg(c, {"SYN"}, Iss[c], 0, 0)
  <2> DEFINE p == [peer[c] EXCEPT !.st = "SYN_SENT", !.snd = Plus(Iss[c], 1)]
  <2>1. s \in Segment /\ s.from = c /\ "ACK" \notin s.flags
    BY DEF Seg, Segment
  <2>2. p \in Peer /\ ~SawOurSyn(c)
    BY <1>1, <1>2 DEF Connect, Peer, PeerStates, SawOurSyn
  <2>3. Sends(c, s, p)
    BY <1>2 DEF Connect
  <2> QED
    BY <2>1, <2>2, <2>3, SendsKeeps
<1>3. CASE SendData(c)
  <2> DEFINE s == Seg(c, {"ACK"}, peer[c].snd, peer[c].rcv, 1)
  <2> DEFINE p == [peer[c] EXCEPT !.snd = Plus(@, 1), !.data = @ + 1]
  <2>1. s \in Segment /\ s.from = c /\ s.ack = peer[c].rcv
    BY <1>1 DEF Seg, Segment, Peer
  <2>2. p \in Peer /\ p.rcv = peer[c].rcv /\ p.st = "open"
    <3>1. peer[c].data + 1 \in 0 .. MaxData /\ peer[c].st = "open"
      BY <1>1, <1>3 DEF SendData, Peer
    <3> QED
      BY <1>1, <3>1 DEF Peer
  <2>3. Sends(c, s, p)
    BY <1>3 DEF SendData
  <2> QED
    BY <2>1, <2>2, <2>3, SendsKeeps
<1>4. CASE Close(c)
  <2> DEFINE s == Seg(c, {"FIN", "ACK"}, peer[c].snd, peer[c].rcv, 0)
  <2> DEFINE p == [peer[c] EXCEPT !.st = "closing", !.snd = Plus(@, 1)]
  <2>1. s \in Segment /\ s.from = c /\ s.ack = peer[c].rcv
    BY <1>1 DEF Seg, Segment, Peer
  <2>2. p \in Peer /\ p.rcv = peer[c].rcv /\ p.st = "closing"
    BY <1>1, <1>4 DEF Close, Peer, PeerStates
  <2>3. Sends(c, s, p)
    BY <1>4 DEF Close
  <2> QED
    BY <2>1, <2>2, <2>3, SendsKeeps
<1>5. CASE Abort(c)
  <2> DEFINE s == Seg(c, {"RST"}, peer[c].snd, 0, 0)
  <2> DEFINE p == [peer[c] EXCEPT !.st = "gone"]
  <2>1. s \in Segment /\ s.from = c /\ "ACK" \notin s.flags
    BY <1>1 DEF Seg, Segment, Peer
  <2>2. p \in Peer /\ p.rcv = peer[c].rcv /\ p.st = "gone"
    BY <1>1, <1>5 DEF Peer, PeerStates
  <2>3. Sends(c, s, p)
    BY <1>5 DEF Abort
  <2> QED
    BY <2>1, <2>2, <2>3, SendsKeeps
<1>6. ASSUME NEW b \in back, Confirm(c, b)
      PROVE  IInv'
  <2> DEFINE s == Seg(c, {"ACK"}, peer[c].snd, Plus(b.seq, 1), 0)
  <2> DEFINE p == [peer[c] EXCEPT !.st = "open", !.una = b.ack, !.rcv = Plus(b.seq, 1)]
  <2>1. b.ack \in 0 .. SeqMod - 1 /\ b.seq \in Int /\ 1 \in Int
    BY DEF IInv, NetTypeOK
  <2>2. Plus(b.seq, 1) \in 0 .. SeqMod - 1
    BY <2>1, PlusTyped, Zenon
  <2>3. s \in Segment /\ s.from = c /\ s.ack = Plus(b.seq, 1)
    BY <1>1, <2>2 DEF Seg, Segment, Peer
  <2>4. p \in Peer /\ p.rcv = Plus(b.seq, 1) /\ p.st = "open" /\ ~SawOurSyn(c)
    BY <1>1, <1>6, <2>1, <2>2 DEF Confirm, Peer, PeerStates, SawOurSyn
  <2>5. Sends(c, s, p)
    BY <1>6 DEF Confirm
  <2> QED
    BY <2>3, <2>4, <2>5, SendsKeeps
<1>7. ASSUME NEW b \in back, TakeAck(c, b)
      PROVE  IInv'
  <2>1. b.ack \in 0 .. SeqMod - 1
    BY DEF IInv, NetTypeOK
  <2>2. peer' = [peer EXCEPT ![c].una = b.ack] /\ UNCHANGED <<conn, isn, listen, toggles, opens, net, back>>
    BY <1>7 DEF TakeAck
  <2>3. NetTypeOK'
    BY <2>1, <2>2 DEF IInv, NetTypeOK, Peer
  <2>4. \A d \in Clients : peer'[d].st = peer[d].st /\ peer'[d].rcv = peer[d].rcv
    BY <2>2 DEF IInv, NetTypeOK, Peer
  <2>5. TypeOK' /\ ConnsDistinct' /\ Used' = Used
    BY <2>2 DEF IInv, ConnsDistinct, TypeOK, Used
  <2>6. (\A s \in net : s.from \in Clients) /\ \A i \in Used : conn[i].peer \in Clients
    BY UsedTyped DEF IInv, ConnsDistinct, NetTypeOK, Segment
  <2>7. AcksCarryOurSyn'
    <3>1. \A d \in Clients : SawOurSyn(d)' <=> SawOurSyn(d)
      BY <2>4 DEF SawOurSyn
    <3>2. \A s \in net : "ACK" \in s.flags => SawOurSyn(s.from)' /\ s.ack = peer'[s.from].rcv
      BY <2>4, <2>6, <3>1 DEF IInv, AcksCarryOurSyn
    <3>3. \A i \in Used : conn[i].st = "ESTABLISHED" => SawOurSyn(conn[i].peer)'
      BY <2>2, <2>6, <3>1 DEF IInv, AcksCarryOurSyn
    <3> QED
      BY <2>2, <2>5, <3>2, <3>3 DEF AcksCarryOurSyn, SawOurSyn
  <2>8. EstablishedWasConfirmed'
    BY <2>2, <2>4, <2>5, <2>6 DEF IInv, EstablishedWasConfirmed
  <2> QED
    BY <2>3, <2>5, <2>7, <2>8 DEF IInv
<1> QED
  BY <1>2, <1>3, <1>4, <1>5, <1>6, <1>7

LEMMA FrameKeeps ==
  ASSUME IInv, NEW s \in net, ProcessFrame(s)
  PROVE  IInv'
<1>1. UNCHANGED <<listen, toggles, net, peer>>
  BY DEF ProcessFrame
<1>2. CASE FindConn(s.from) # {}
  <2>1. InHandshake(s, Min(FindConn(s.from))) \/ InConnection(s, Min(FindConn(s.from)))
    BY <1>2 DEF ProcessFrame
  <2> QED
    BY <1>1, <1>2, <2>1, Found, HandshakeKeeps, ConnectionKeeps
<1>3. CASE FindConn(s.from) = {}
  <2>1. NewConnection(s)
    BY <1>3 DEF ProcessFrame
  <2> QED
    BY <1>1, <1>3, <2>1, NewConnectionKeeps
<1> QED
  BY <1>2, <1>3

LEMMA NextIInv == IInv /\ [Next]_vars => IInv'
<1> SUFFICES ASSUME IInv, [Next]_vars PROVE IInv'
  OBVIOUS
<1>1. ASSUME NEW s \in net, ProcessFrame(s)
      PROVE  IInv'
  BY <1>1, FrameKeeps
<1>2. CASE Peers
  BY <1>2, PeersKeep
<1>3. CASE Listen
  <2>1. TypeOK' /\ Used' = Used
    BY <1>3 DEF Listen, IInv, ConnsDistinct, TypeOK, Used
  <2> QED
    BY <1>3, <2>1 DEF Listen, IInv, ConnsDistinct, NetTypeOK, AcksCarryOurSyn, SawOurSyn,
                      EstablishedWasConfirmed
<1>4. CASE UNCHANGED vars
  BY <1>4 DEF vars, IInv, ConnsDistinct, TypeOK, Used, NetTypeOK, AcksCarryOurSyn, SawOurSyn,
              EstablishedWasConfirmed
<1> QED
  BY <1>1, <1>2, <1>3, <1>4 DEF Next

-----------------------------------------------------------------------------
(* The properties.                                                         *)

\* The inductive invariant holds whatever peers, table and numbers there are.
THEOREM InvariantHolds == Spec => []IInv
<1> QED
  BY InitIInv, NextIInv, PTL DEF Spec

\* No peer ever has two connections, however often and late its SYN arrives.
THEOREM ConnsDistinctHolds == Spec => []ConnsDistinct
<1>1. IInv => ConnsDistinct
  BY DEF IInv
<1> QED
  BY <1>1, InvariantHolds, PTL

\* What ended a handshake acknowledged the number of this very connection.
THEOREM EstablishedWasConfirmedHolds == Spec => []EstablishedWasConfirmed
<1>1. IInv => EstablishedWasConfirmed
  BY DEF IInv
<1> QED
  BY <1>1, InvariantHolds, PTL

\* What one segment does to the connections of others, and to its own: it ends
\* only by FIN or RST, and stays established otherwise.
LEMMA StepEndsOnlyOwn ==
  ASSUME IInv, [Next]_vars, NEW i \in Used
  PROVE  \/ /\ conn'[i].st # "free" /\ conn'[i].peer = conn[i].peer
            /\ conn'[i].snd = conn[i].snd
            /\ conn[i].st = "ESTABLISHED" => conn'[i].st = "ESTABLISHED"
         \/ \E s \in net : s.from = conn[i].peer /\ s.flags \cap {"FIN", "RST"} # {}
         \/ i = 0 /\ Used = Slot
<1> USE DEF IInv, ConnsDistinct
<1>1. CASE UNCHANGED conn
  BY <1>1, UsedTyped
<1>2. ASSUME NEW s \in net, ProcessFrame(s), FindConn(s.from) # {}
      PROVE  \/ /\ conn'[i].st # "free" /\ conn'[i].peer = conn[i].peer
                /\ conn'[i].snd = conn[i].snd
                /\ conn[i].st = "ESTABLISHED" => conn'[i].st = "ESTABLISHED"
             \/ s.from = conn[i].peer /\ s.flags \cap {"FIN", "RST"} # {}
  <2> DEFINE j == Min(FindConn(s.from))
  <2>1. j \in Used /\ conn[j].peer = s.from
    BY <1>2, Found
  <2>2. InHandshake(s, j) \/ InConnection(s, j)
    BY <1>2 DEF ProcessFrame
  <2> HIDE DEF j
  <2>3. CASE i # j
    BY <2>1, <2>2, <2>3, UsedTyped DEF InHandshake, InConnection, TypeOK
  <2>4. CASE i = j /\ s.flags \cap {"FIN", "RST"} = {}
    <3>1. "FIN" \notin s.flags /\ "RST" \notin s.flags
      BY <2>4
    <3>2. CASE InHandshake(s, j)
      BY <2>1, <2>4, <3>1, <3>2, UsedTyped DEF InHandshake, TypeOK
    <3>3. CASE InConnection(s, j)
      BY <2>1, <2>4, <3>1, <3>3, UsedTyped DEF InConnection, TypeOK
    <3> QED
      BY <2>2, <3>2, <3>3
  <2> QED
    BY <2>1, <2>3, <2>4
<1>3. ASSUME NEW s \in net, NewConnection(s), ~(i = 0 /\ Used = Slot)
      PROVE  conn'[i] = conn[i]
  <2>1. i # AllocConn
    BY <1>3, AllocTakes
  <2> QED
    BY <1>3, <2>1, UsedTyped DEF NewConnection, TypeOK
<1>4. UNCHANGED conn \/ \E s \in net : ProcessFrame(s)
  BY DEF Next, vars, Listen, Peers, Connect, Confirm, SendData, TakeAck, Close, Abort, Sends
<1> QED
  BY <1>1, <1>2, <1>3, <1>4, UsedTyped DEF ProcessFrame

\* A connection ends by its own peer or in the first slot of a full table, and
\* never changes hands or falls back into its handshake.
THEOREM OnlyPeersEndConnectionsHolds == Spec => OnlyPeersEndConnections
<1>1. IInv /\ [Next]_vars =>
        [\A i \in Used :
          \/ /\ conn'[i].st # "free" /\ conn'[i].peer = conn[i].peer
             /\ conn'[i].snd = conn[i].snd
             /\ conn[i].st = "ESTABLISHED" => conn'[i].st = "ESTABLISHED"
          \/ \E s \in net : s.from = conn[i].peer /\ s.flags \cap {"FIN", "RST"} # {}
          \/ i = 0 /\ Used = Slot]_vars
  BY StepEndsOnlyOwn
<1> QED
  BY <1>1, InvariantHolds, PTL DEF Spec, OnlyPeersEndConnections

-----------------------------------------------------------------------------
(* Numbers of peers that send less than a whole round of them.             *)

LEMMA SentTyped ==
  ASSUME NEW p \in Peer
  PROVE  Sent(p) \in 0 .. MaxData + 2
BY DEF Sent, Peer

LEMMA AdvanceTyped ==
  ASSUME NEW s \in Segment
  PROVE  Advance(s) \in 0 .. 2
BY DEF Segment, Advance

LEMMA SentIs ==
  ASSUME NEW p \in Peer
  PROVE  /\ p.data \in 0 .. MaxData
         /\ p.st = "closed" => Sent(p) = 0
         /\ p.st = "closing" => Sent(p) = p.data + 2
         /\ p.st \in {"SYN_SENT", "open", "gone"} => Sent(p) = p.data + 1
BY DEF Sent, Peer

\* What a peer is to send next is counted from where it started.
LEMMA NextOfPeer ==
  ASSUME IInv, NumbersOfPeers, NEW c \in Clients
  PROVE  /\ peer[c] \in Peer /\ Iss[c] \in 0 .. SeqMod - 1
         /\ SentBy(c) \in 0 .. MaxData + 2
         /\ peer[c].snd = Plus(Iss[c], SentBy(c))
         /\ peer[c].st = "closed" => peer[c].data = 0
<1>1. peer[c] \in Peer /\ Iss[c] \in 0 .. SeqMod - 1
  BY DEF IInv, NetTypeOK
<1>2. SentBy(c) \in 0 .. MaxData + 2
  BY <1>1, SentTyped DEF SentBy
<1>3. peer[c].snd = Plus(Iss[c], SentBy(c)) /\ (peer[c].st = "closed" => peer[c].data = 0)
  BY DEF NumbersOfPeers
<1> QED
  BY <1>1, <1>2, <1>3

LEMMA InitNumbers == Init => NumbersOfPeers
<1> SUFFICES ASSUME Init PROVE NumbersOfPeers
  OBVIOUS
<1>1. Used = {} /\ net = {}
  BY DEF Init, Used, Free
<1>2. ASSUME NEW c \in Clients
      PROVE  peer[c].snd = Plus(Iss[c], SentBy(c)) /\ peer[c].data = 0
  <2>1. peer[c].snd = Iss[c] /\ peer[c].data = 0 /\ peer[c].st = "closed"
    BY DEF Init, Fresh
  <2>2. Iss[c] \in 0 .. SeqMod - 1 /\ 0 \in 0 .. SeqMod - 1
    OBVIOUS
  <2>3. Plus(Iss[c], 0) = Iss[c]
    BY <2>2, PlusOnce
  <2> QED
    BY <2>1, <2>3 DEF SentBy, Sent
<1> QED
  BY <1>1, <1>2 DEF NumbersOfPeers

\* What is acknowledged to a peer is what one of its segments brought.
LEMMA FrameKeepsNumbers ==
  ASSUME MaxData + 2 < SeqMod, IInv, NumbersOfPeers, NEW s \in net, ProcessFrame(s)
  PROVE  NumbersOfPeers'
<1> USE DEF IInv, ConnsDistinct
<1>1. UNCHANGED <<net, peer>> /\ \A c : SentBy(c)' = SentBy(c)
  BY DEF ProcessFrame, SentBy
<1>2. s \in Segment /\ s.from \in Clients /\ Iss[s.from] \in 0 .. SeqMod - 1
      /\ SentBy(s.from) \in 0 .. MaxData + 2
  BY SentTyped DEF NetTypeOK, Segment, SentBy
<1>3. PICK k \in 0 .. SentBy(s.from) : LiesAt(s, k, SentBy(s.from))
  BY DEF NumbersOfPeers
<1>4. \A i \in Used : conn[i].peer \in Clients
  BY UsedTyped
<1>5. ASSUME NEW i \in Used'
      PROVE  \E l \in 1 .. SentBy(conn'[i].peer) : conn'[i].rcv = Plus(Iss[conn'[i].peer], l)
  <2>1. CASE i \in Used /\ conn'[i].peer = conn[i].peer /\ conn'[i].rcv = conn[i].rcv
    BY <2>1 DEF NumbersOfPeers
  <2>2. ASSUME NEW j \in Used, conn[j].peer = s.from, InHandshake(s, j)
        PROVE  i \in Used /\ conn'[i].peer = conn[i].peer /\ conn'[i].rcv = conn[i].rcv
    BY <2>2, UsedTyped DEF InHandshake, TypeOK, Used, Free
  <2>3. ASSUME NEW j \in Used, conn[j].peer = s.from, InConnection(s, j), conn' # conn, i = j
        PROVE  conn'[i].peer = s.from
               /\ \E l \in 1 .. SentBy(s.from) : conn'[i].rcv = Plus(Iss[s.from], l)
    <3>1. Advance(s) \in 1 .. 2
      BY <1>2, <2>3, AdvanceTyped DEF InConnection
    <3>2. conn'[i].peer = s.from /\ conn'[i].rcv = Plus(s.seq, Advance(s))
      BY <2>3, <3>1, UsedTyped DEF InConnection, TypeOK, Used, Free
    <3>3. k + Advance(s) \in 1 .. SentBy(s.from) /\ k + Advance(s) < SeqMod
      BY <1>2, <1>3, <3>1 DEF LiesAt
    <3>4. Plus(s.seq, Advance(s)) = Plus(Iss[s.from], k + Advance(s))
      <4>1. k \in Nat /\ Advance(s) \in Nat /\ s.seq = Plus(Iss[s.from], k)
        BY <1>2, <1>3, <3>1 DEF LiesAt
      <4>2. Plus(Plus(Iss[s.from], k), Advance(s)) = Plus(Iss[s.from], k + Advance(s))
        BY <1>2, <3>3, <4>1, PlusPlus, Zenon
      <4> QED
        BY <4>1, <4>2
    <3> QED
      BY <3>2, <3>3, <3>4
  <2>4. ASSUME NEW j \in Used, InConnection(s, j), i # j
        PROVE  i \in Used /\ conn'[i] = conn[i]
    BY <2>4, UsedTyped DEF InConnection, TypeOK, Used
  <2>5. ASSUME NewConnection(s), i = AllocConn
        PROVE  conn'[i].peer = s.from /\ 1 \in 1 .. SentBy(s.from)
               /\ conn'[i].rcv = Plus(Iss[s.from], 1)
    <3>1. "SYN" \in s.flags /\ k = 0 /\ SentBy(s.from) >= 1
      BY <1>3, <2>5 DEF NewConnection, LiesAt
    <3>2. s.seq = Iss[s.from]
      <4>1. s.seq = Plus(Iss[s.from], 0) /\ 0 \in 0 .. SeqMod - 1
        BY <1>3, <3>1 DEF LiesAt
      <4> QED
        BY <1>2, <4>1, PlusOnce
    <3>3. conn'[i].peer = s.from /\ conn'[i].rcv = Plus(s.seq, 1)
      BY <2>5, AllocTakes DEF NewConnection, TypeOK
    <3> QED
      BY <1>2, <3>1, <3>2, <3>3
  <2>6. ASSUME NewConnection(s), i # AllocConn
        PROVE  i \in Used /\ conn'[i] = conn[i]
    BY <2>6, AllocTakes DEF NewConnection, TypeOK, Used
  <2>7. CASE FindConn(s.from) # {}
    <3>1. PICK j \in Used : conn[j].peer = s.from /\ (InHandshake(s, j) \/ InConnection(s, j))
      BY <2>7, Found DEF ProcessFrame
    <3>2. CASE InHandshake(s, j)
      BY <2>1, <2>2, <3>1, <3>2
    <3>3. CASE InConnection(s, j) /\ conn' = conn
      BY <2>1, <3>3 DEF Used
    <3>4. CASE InConnection(s, j) /\ conn' # conn /\ i = j
      BY <2>3, <3>1, <3>4
    <3>5. CASE InConnection(s, j) /\ i # j
      BY <2>1, <2>4, <3>5
    <3> QED
      BY <3>1, <3>2, <3>3, <3>4, <3>5
  <2>8. CASE FindConn(s.from) = {}
    <3>1. NewConnection(s)
      BY <2>8 DEF ProcessFrame
    <3>2. CASE i = AllocConn
      BY <2>5, <3>1, <3>2
    <3>3. CASE i # AllocConn
      BY <2>1, <2>6, <3>1, <3>3
    <3> QED
      BY <3>2, <3>3
  <2> QED
    BY <2>7, <2>8
<1> QED
  BY <1>1, <1>5 DEF NumbersOfPeers, SentBy

\* A peer that sends moves on, and its segment lies where it was.
LEMMA SendsKeepsNumbers ==
  ASSUME IInv, NumbersOfPeers, NEW c \in Clients, NEW s \in Segment, NEW p \in Peer,
         Sends(c, s, p), s.from = c, Sent(p) >= SentBy(c), Sent(p) >= 1,
         p.snd = Plus(Iss[c], Sent(p)), p.st # "closed",
         NEW k \in 0 .. Sent(p), LiesAt(s, k, Sent(p))
  PROVE  NumbersOfPeers'
<1> USE DEF IInv, ConnsDistinct
<1>1. peer'[c] = p /\ (\A d \in Clients \ {c} : peer'[d] = peer[d])
      /\ net' = net \cup {s} /\ conn' = conn /\ Used' = Used
  BY DEF Sends, NetTypeOK, Used
<1>2. \A d \in Clients : /\ SentBy(d) \in Nat /\ Sent(peer'[d]) \in Nat
                         /\ Sent(peer'[d]) >= SentBy(d)
                         /\ d = c => Sent(peer'[d]) = Sent(p)
                         /\ d # c => Sent(peer'[d]) = SentBy(d)
  <2>1. \A d \in Clients : SentBy(d) \in Nat
    BY SentTyped DEF NetTypeOK, SentBy
  <2>2. Sent(p) \in Nat
    BY SentTyped
  <2> QED
    BY <1>1, <2>1, <2>2 DEF SentBy
<1>3. \A d \in Clients : /\ peer'[d].snd = Plus(Iss[d], Sent(peer'[d]))
                         /\ peer'[d].st = "closed" => peer'[d].data = 0
  <2>1. ASSUME NEW d \in Clients, d # c
        PROVE  /\ peer'[d].snd = Plus(Iss[d], Sent(peer'[d]))
               /\ peer'[d].st = "closed" => peer'[d].data = 0
    <3>1. peer'[d] = peer[d]
      BY <1>1, <2>1
    <3> QED
      BY <3>1, NextOfPeer DEF SentBy
  <2> QED
    BY <1>1, <2>1
<1>4. ASSUME NEW t \in net
      PROVE  \E l \in 0 .. Sent(peer'[t.from]) : LiesAt(t, l, Sent(peer'[t.from]))
  <2>1. t \in Segment /\ t.from \in Clients /\ Advance(t) \in Nat
    BY AdvanceTyped DEF NetTypeOK, Segment
  <2>2. PICK l \in 0 .. SentBy(t.from) : LiesAt(t, l, SentBy(t.from))
    BY DEF NumbersOfPeers
  <2>3. l \in 0 .. Sent(peer'[t.from]) /\ LiesAt(t, l, Sent(peer'[t.from]))
    BY <1>2, <2>1, <2>2 DEF LiesAt
  <2> QED
    BY <2>3
<1>5. \E l \in 0 .. Sent(peer'[s.from]) : LiesAt(s, l, Sent(peer'[s.from]))
  BY <1>2
<1>6. ASSUME NEW i \in Used
      PROVE  \E l \in 1 .. Sent(peer'[conn[i].peer]) : conn[i].rcv = Plus(Iss[conn[i].peer], l)
  BY <1>1, <1>2, UsedTyped DEF NumbersOfPeers
<1> QED
  BY <1>1, <1>3, <1>4, <1>5, <1>6 DEF NumbersOfPeers, SentBy

LEMMA PeersKeepNumbers ==
  ASSUME MaxData + 2 < SeqMod, IInv, NumbersOfPeers, Peers
  PROVE  NumbersOfPeers'
<1> SUFFICES ASSUME NEW c \in Clients,
                    \/ Connect(c) \/ SendData(c) \/ Close(c) \/ Abort(c)
                    \/ \E b \in back : Confirm(c, b) \/ TakeAck(c, b)
             PROVE  NumbersOfPeers'
  BY DEF Peers
<1> DEFINE n == SentBy(c)
<1>1. peer[c] \in Peer /\ Iss[c] \in 0 .. SeqMod - 1
      /\ n \in 0 .. MaxData + 2 /\ peer[c].snd = Plus(Iss[c], n)
  BY NextOfPeer
<1>2. \A k \in 0 .. SeqMod - 1 : Plus(Iss[c], k) \in 0 .. SeqMod - 1
  BY <1>1, PlusMinus
<1>3. \A k \in Nat : k + 1 < SeqMod => Plus(Plus(Iss[c], k), 1) = Plus(Iss[c], k + 1)
  BY <1>1, PlusPlus
<1>4. CASE Connect(c)
  <2> DEFINE s == Seg(c, {"SYN"}, Iss[c], 0, 0)
  <2> DEFINE p == [peer[c] EXCEPT !.st = "SYN_SENT", !.snd = Plus(Iss[c], 1)]
  <2>1. n = 0 /\ peer[c].data = 0
    BY <1>4, NextOfPeer DEF Connect, SentBy, Sent
  <2>2. Plus(Iss[c], 1) \in 0 .. SeqMod - 1 /\ Plus(Iss[c], 0) = Iss[c]
    <3>1. 0 \in 0 .. SeqMod - 1 /\ 1 \in 0 .. SeqMod - 1
      OBVIOUS
    <3> QED
      BY <1>1, <1>2, <3>1, PlusOnce
  <2>3. p \in Peer /\ Sent(p) = 1 /\ p.snd = Plus(Iss[c], Sent(p)) /\ p.st # "closed"
    <3>1. p \in Peer /\ p.st = "SYN_SENT" /\ p.data = 0 /\ p.snd = Plus(Iss[c], 1)
      BY <1>1, <2>1, <2>2 DEF Peer, PeerStates
    <3> HIDE DEF p
    <3> QED
      BY <3>1, SentIs
  <2>4. s \in Segment /\ s.from = c /\ LiesAt(s, 0, 1)
    BY <1>1, <2>2 DEF Seg, Segment, LiesAt, Advance
  <2>5. Sends(c, s, p)
    BY <1>4 DEF Connect
  <2> HIDE DEF s, p
  <2> QED
    BY <2>1, <2>3, <2>4, <2>5, SendsKeepsNumbers
<1>5. CASE SendData(c)
  <2> DEFINE s == Seg(c, {"ACK"}, peer[c].snd, peer[c].rcv, 1)
  <2> DEFINE p == [peer[c] EXCEPT !.snd = Plus(@, 1), !.data = @ + 1]
  <2>1. /\ peer[c].data + 1 \in 0 .. MaxData /\ peer[c].st = "open" /\ n = peer[c].data + 1
        /\ n \in Nat /\ n + 1 < SeqMod /\ n + 1 \in 0 .. SeqMod - 1
    BY <1>1, <1>5 DEF SendData, SentBy, Sent, Peer
  <2>2. Plus(peer[c].snd, 1) = Plus(Iss[c], n + 1) /\ Plus(Iss[c], n + 1) \in 0 .. SeqMod - 1
    BY <1>1, <1>2, <1>3, <2>1
  <2>3. p \in Peer /\ Sent(p) = n + 1 /\ p.snd = Plus(Iss[c], Sent(p)) /\ p.st # "closed"
    BY <1>1, <2>1, <2>2 DEF Peer, Sent
  <2>4. s \in Segment /\ s.from = c /\ LiesAt(s, n, n + 1)
    BY <1>1, <2>1 DEF Seg, Segment, LiesAt, Advance, Peer
  <2>5. Sends(c, s, p)
    BY <1>5 DEF SendData
  <2> HIDE DEF s, p
  <2> QED
    BY <2>1, <2>3, <2>4, <2>5, SendsKeepsNumbers
<1>6. CASE Close(c)
  <2> DEFINE s == Seg(c, {"FIN", "ACK"}, peer[c].snd, peer[c].rcv, 0)
  <2> DEFINE p == [peer[c] EXCEPT !.st = "closing", !.snd = Plus(@, 1)]
  <2>1. /\ peer[c].st = "open" /\ n = peer[c].data + 1 /\ peer[c].data \in 0 .. MaxData
        /\ n \in Nat /\ n >= 1 /\ n + 1 < SeqMod /\ n + 1 \in 0 .. SeqMod - 1
    BY <1>1, <1>6 DEF Close, SentBy, Sent, Peer
  <2>2. Plus(peer[c].snd, 1) = Plus(Iss[c], n + 1) /\ Plus(Iss[c], n + 1) \in 0 .. SeqMod - 1
    BY <1>1, <1>2, <1>3, <2>1
  <2>3. p \in Peer /\ Sent(p) = n + 1 /\ p.snd = Plus(Iss[c], Sent(p)) /\ p.st # "closed"
    <3>1. p \in Peer /\ p.st = "closing" /\ p.data = peer[c].data /\ p.snd = Plus(Iss[c], n + 1)
      BY <1>1, <2>2 DEF Peer, PeerStates
    <3> HIDE DEF p
    <3>2. Sent(p) = p.data + 2
      BY <3>1, SentIs, Zenon
    <3>3. Sent(p) = n + 1
      BY <2>1, <3>1, <3>2
    <3> QED
      BY <3>1, <3>3
  <2>4. s \in Segment /\ s.from = c /\ LiesAt(s, n, n + 1)
    BY <1>1, <2>1 DEF Seg, Segment, LiesAt, Advance, Peer
  <2>5. Sends(c, s, p)
    BY <1>6 DEF Close
  <2> HIDE DEF s, p
  <2> QED
    BY <2>1, <2>3, <2>4, <2>5, SendsKeepsNumbers
<1>7. CASE Abort(c)
  <2> DEFINE s == Seg(c, {"RST"}, peer[c].snd, 0, 0)
  <2> DEFINE p == [peer[c] EXCEPT !.st = "gone"]
  <2>1. n = peer[c].data + 1 /\ peer[c].data \in 0 .. MaxData /\ n >= 1
    <3>1. peer[c].st \in {"SYN_SENT", "open", "gone"}
      BY <1>7 DEF Abort
    <3>2. Sent(peer[c]) = peer[c].data + 1 /\ peer[c].data \in 0 .. MaxData
      BY <1>1, <3>1, SentIs
    <3> QED
      BY <3>2 DEF SentBy
  <2>2. p \in Peer /\ Sent(p) = n /\ p.snd = Plus(Iss[c], Sent(p)) /\ p.st # "closed"
    BY <1>1, <2>1 DEF Peer, PeerStates, Sent
  <2>3. s \in Segment /\ s.from = c /\ LiesAt(s, n, n)
    BY <1>1, <2>1 DEF Seg, Segment, LiesAt, Advance, Peer
  <2>4. Sends(c, s, p)
    BY <1>7 DEF Abort
  <2> HIDE DEF s, p
  <2> QED
    BY <1>1, <2>1, <2>2, <2>3, <2>4, SendsKeepsNumbers
<1>8. ASSUME NEW b \in back, Confirm(c, b)
      PROVE  NumbersOfPeers'
  <2> DEFINE s == Seg(c, {"ACK"}, peer[c].snd, Plus(b.seq, 1), 0)
  <2> DEFINE p == [peer[c] EXCEPT !.st = "open", !.una = b.ack, !.rcv = Plus(b.seq, 1)]
  <2>1. n = peer[c].data + 1 /\ peer[c].data \in 0 .. MaxData /\ n >= 1
    <3>1. peer[c].st \in {"SYN_SENT", "open", "gone"}
      BY <1>8 DEF Confirm
    <3>2. Sent(peer[c]) = peer[c].data + 1 /\ peer[c].data \in 0 .. MaxData
      BY <1>1, <3>1, SentIs
    <3> QED
      BY <3>2 DEF SentBy
  <2>2. b.ack \in 0 .. SeqMod - 1 /\ b.seq \in Int /\ 1 \in Int
    BY DEF IInv, NetTypeOK
  <2>3. Plus(b.seq, 1) \in 0 .. SeqMod - 1
    BY <2>2, PlusTyped, Zenon
  <2>4. p \in Peer /\ Sent(p) = n /\ p.snd = Plus(Iss[c], Sent(p)) /\ p.st # "closed"
    BY <1>1, <2>1, <2>2, <2>3 DEF Peer, PeerStates, Sent
  <2>5. s \in Segment /\ s.from = c /\ LiesAt(s, n, n)
    BY <1>1, <2>1, <2>3 DEF Seg, Segment, LiesAt, Advance, Peer
  <2>6. Sends(c, s, p)
    BY <1>8 DEF Confirm
  <2> HIDE DEF s, p
  <2> QED
    BY <1>1, <2>1, <2>4, <2>5, <2>6, SendsKeepsNumbers
<1>9. ASSUME NEW b \in back, TakeAck(c, b)
      PROVE  NumbersOfPeers'
  <2>1. peer' = [peer EXCEPT ![c].una = b.ack] /\ UNCHANGED <<conn, net>>
    BY <1>9 DEF TakeAck
  <2>2. \A d \in Clients : /\ peer'[d].st = peer[d].st /\ peer'[d].data = peer[d].data
                           /\ peer'[d].snd = peer[d].snd
    BY <2>1 DEF IInv, NetTypeOK, Peer
  <2>3. \A d \in Clients : Sent(peer'[d]) = Sent(peer[d])
    BY <2>2 DEF Sent
  <2>4. (\A s \in net : s.from \in Clients) /\ (\A i \in Used : conn[i].peer \in Clients)
        /\ Used' = Used
    BY <2>1, UsedTyped DEF IInv, ConnsDistinct, NetTypeOK, Segment, Used
  <2>5. \A d \in Clients : /\ peer'[d].snd = Plus(Iss[d], Sent(peer'[d]))
                           /\ peer'[d].st = "closed" => peer'[d].data = 0
    BY <2>2, <2>3, NextOfPeer DEF SentBy
  <2>6. \A s \in net : \E k \in 0 .. Sent(peer'[s.from]) : LiesAt(s, k, Sent(peer'[s.from]))
    BY <2>3, <2>4 DEF NumbersOfPeers, SentBy
  <2>7. \A i \in Used : \E k \in 1 .. Sent(peer'[conn[i].peer]) :
           conn[i].rcv = Plus(Iss[conn[i].peer], k)
    BY <2>3, <2>4 DEF NumbersOfPeers, SentBy
  <2> QED
    BY <2>1, <2>4, <2>5, <2>6, <2>7 DEF NumbersOfPeers, SentBy
<1> QED
  BY <1>4, <1>5, <1>6, <1>7, <1>8, <1>9

\* A peer that sends less than a whole round of sequence numbers, its SYN and
\* its FIN among them, never gets an acknowledgement of what it has not sent.
THEOREM AckedWasSentHolds ==
  ASSUME MaxData + 2 < SeqMod
  PROVE  Spec => []AckedWasSent
<1>1. Init => NumbersOfPeers
  BY InitNumbers
<1>2. IInv /\ NumbersOfPeers /\ [Next]_vars => NumbersOfPeers'
  <2> SUFFICES ASSUME IInv, NumbersOfPeers, [Next]_vars PROVE NumbersOfPeers'
    OBVIOUS
  <2>1. ASSUME NEW s \in net, ProcessFrame(s) PROVE NumbersOfPeers'
    BY <2>1, FrameKeepsNumbers
  <2>2. CASE Peers
    BY <2>2, PeersKeepNumbers
  <2>3. CASE Listen \/ UNCHANGED vars
    <3>1. UNCHANGED <<conn, net, peer>>
      BY <2>3 DEF Listen, vars
    <3> QED
      BY <3>1 DEF NumbersOfPeers, SentBy, Used
  <2> QED
    BY <2>1, <2>2, <2>3 DEF Next
<1>3. IInv /\ NumbersOfPeers => AckedWasSent
  <2> SUFFICES ASSUME IInv, NumbersOfPeers, NEW i \in Used
               PROVE  (conn[i].rcv - Iss[conn[i].peer]) % SeqMod
                        \in 1 .. (peer[conn[i].peer].snd - Iss[conn[i].peer]) % SeqMod
    BY DEF AckedWasSent
  <2> DEFINE c == conn[i].peer
  <2>1. c \in Clients
    BY UsedTyped DEF IInv, ConnsDistinct
  <2>2. Iss[c] \in 0 .. SeqMod - 1 /\ SentBy(c) \in 0 .. SeqMod - 1
        /\ peer[c].snd = Plus(Iss[c], SentBy(c))
    BY <2>1, NextOfPeer
  <2>3. PICK k \in 1 .. SentBy(c) : conn[i].rcv = Plus(Iss[c], k)
    BY DEF NumbersOfPeers
  <2>4. (peer[c].snd - Iss[c]) % SeqMod = SentBy(c)
    <3>1. (Plus(Iss[c], SentBy(c)) - Iss[c]) % SeqMod = SentBy(c)
      BY <2>2, PlusMinus, Zenon
    <3> QED
      BY <2>2, <3>1, Zenon
  <2>5. k \in 0 .. SeqMod - 1
    BY <2>2
  <2>6. (conn[i].rcv - Iss[c]) % SeqMod = k
    <3>1. (Plus(Iss[c], k) - Iss[c]) % SeqMod = k
      BY <2>2, <2>5, PlusMinus, Zenon
    <3> QED
      BY <2>3, <3>1, Zenon
  <2> QED
    BY <2>4, <2>6
<1> QED
  BY <1>1, <1>2, <1>3, InvariantHolds, PTL DEF Spec
=============================================================================
