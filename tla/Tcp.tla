-------------------------------- MODULE Tcp --------------------------------
(***************************************************************************)
(* The TCP responder of tcp.c: a table of connections, the handshake, the  *)
(* acknowledgement of data and of FIN, and nothing that repeats a segment. *)
(*                                                                         *)
(* The peers are external: ordinary TCP clients, one address and port      *)
(* each, that may stop at any moment without a word.  Segments travel      *)
(* through a network that loses, repeats and reorders them: "net" and      *)
(* "back" hold what was ever sent and may still arrive.  Sequence numbers  *)
(* are counted modulo SeqMod (2^32 in the code).                           *)
(***************************************************************************)
EXTENDS Integers, FiniteSets, FiniteSetsExt

CONSTANTS
    Clients,    \* the peers: an address and a port each
    Iss,        \* the initial sequence number of each peer
    MaxConns,   \* TCP_MAX_CONNS
    SeqMod,     \* 2^32
    FirstIsn,   \* the first value of tcp_next_isn
    IsnStep,    \* 0x101
    MaxData,    \* bound on the data segments a peer sends
    MaxToggles, \* bound on the changes of the listening port
    MaxOpens    \* bound on the connections that are opened

ASSUME TcpAssumption ==
    /\ MaxConns \in Nat \ {0} /\ SeqMod \in Nat \ {0} /\ IsnStep \in Nat
    /\ FirstIsn \in 0 .. SeqMod - 1 /\ Iss \in [Clients -> 0 .. SeqMod - 1]
    /\ MaxData \in Nat /\ MaxToggles \in Nat /\ MaxOpens \in Nat

VARIABLES
    conn,      \* tcp_conns: state, peer, snd_nxt, rcv_nxt
    isn,       \* tcp_next_isn
    listen,    \* tcp_listen_enabled with the port that the peers ask for
    toggles,   \* how often it changed (bound)
    opens,     \* how often a slot was taken (bound)
    net,       \* segments to this machine
    back,      \* segments to the peers
    peer       \* the peers

vars == <<conn, isn, listen, toggles, opens, net, back, peer>>

Slot == 0 .. MaxConns - 1
Plus(a, b) == (a + b) % SeqMod

Free == [st |-> "free"]
Used == {i \in Slot : conn[i].st # "free"}

\* A segment of a peer: flags, sequence number, acknowledgement, payload length.
Seg(c, flags, seq, ack, len) ==
    [from |-> c, flags |-> flags, seq |-> seq, ack |-> ack, len |-> len]

Fresh(c) == [st |-> "closed", snd |-> Iss[c], una |-> Iss[c], rcv |-> 0, data |-> 0]

Init ==
    /\ conn = [i \in Slot |-> Free]
    /\ isn = FirstIsn
    /\ listen = FALSE /\ toggles = 0 /\ opens = 0
    /\ net = {} /\ back = {}
    /\ peer = [c \in Clients |-> Fresh(c)]

-----------------------------------------------------------------------------
(* tcp_process_frame                                                       *)

\* Only connections whose handshake is over are found (for the mutants).
FindEstablished(c) == {i \in Used : conn[i].st = "ESTABLISHED" /\ conn[i].peer = c}

\* tcp_find_conn
FindConn(c) == {i \in Used : conn[i].peer = c}

\* The first slot whether it is free or not (for the mutants).
FirstSlot == 0

\* tcp_alloc_conn: a free slot, or else the first one.
AllocConn == IF Used = Slot THEN 0 ELSE Min(Slot \ Used)

\* Any ACK ends the handshake (for the mutants).
AnyAck(s, k) == "ACK" \in s.flags /\ "SYN" \notin s.flags

\* The segment that ends the handshake acknowledges our SYN.
EndsHandshake(s, k) == "ACK" \in s.flags /\ "SYN" \notin s.flags /\ s.ack = k.snd

\* FIN counts whether it is there or not (for the mutants).
AdvanceAlways(s) == s.len + 1

\* What a segment moves the acknowledgement by.
Advance(s) == s.len + (IF "FIN" \in s.flags THEN 1 ELSE 0)

ReplyTo(c, flags, seq, ack) ==
    back' = back \cup {[to |-> c, flags |-> flags, seq |-> seq, ack |-> ack]}

\* A segment of a connection that waits for the end of its handshake.  A SYN
\* that is sent again is not answered again.
InHandshake(s, i) ==
    /\ conn[i].st = "SYN_RCVD"
    /\ conn' = [conn EXCEPT ![i] =
                    IF EndsHandshake(s, @) THEN [@ EXCEPT !.st = "ESTABLISHED"]
                    ELSE IF "RST" \in s.flags THEN Free ELSE @]
    /\ UNCHANGED <<isn, opens, back>>

\* Data and FIN are acknowledged whatever came before; nothing else is looked at.
InConnection(s, i) ==
    /\ conn[i].st = "ESTABLISHED"
    /\ UNCHANGED <<isn, opens>>
    /\ IF Advance(s) = 0 THEN UNCHANGED <<conn, back>>
       ELSE LET rcv == Plus(s.seq, Advance(s))
            IN  /\ ReplyTo(s.from, {"ACK"}, conn[i].snd, rcv)
                /\ conn' = [conn EXCEPT ![i] = IF "FIN" \in s.flags THEN Free
                                               ELSE [@ EXCEPT !.rcv = rcv]]

\* A SYN for the listening port takes a slot, the first one if all are used.  The
\* answer is always sent: that fails on a card that is not initialized only, and
\* such a card receives no SYN.
NewConnection(s) ==
    /\ opens < MaxOpens /\ opens' = opens + 1
    /\ listen /\ "SYN" \in s.flags /\ "ACK" \notin s.flags
    /\ conn' = [conn EXCEPT ![AllocConn] =
                    [st |-> "SYN_RCVD", peer |-> s.from, snd |-> Plus(isn, 1),
                     rcv |-> Plus(s.seq, 1)]]
    /\ ReplyTo(s.from, {"SYN", "ACK"}, isn, Plus(s.seq, 1))
    /\ isn' = Plus(isn, IsnStep)

ProcessFrame(s) ==
    /\ IF FindConn(s.from) # {}
       THEN InHandshake(s, Min(FindConn(s.from))) \/ InConnection(s, Min(FindConn(s.from)))
       ELSE NewConnection(s)
    /\ UNCHANGED <<listen, toggles, net, peer>>

\* tcp listen <port>, tcp listen off
Listen ==
    /\ toggles < MaxToggles
    /\ toggles' = toggles + 1 /\ listen' = ~listen
    /\ UNCHANGED <<conn, isn, opens, net, back, peer>>

-----------------------------------------------------------------------------
(* The peers.                                                              *)

Sends(c, s, p) ==
    /\ net' = net \cup {s} /\ peer' = [peer EXCEPT ![c] = p]
    /\ UNCHANGED <<conn, isn, listen, toggles, opens, back>>

Connect(c) ==
    /\ peer[c].st = "closed"
    /\ Sends(c, Seg(c, {"SYN"}, Iss[c], 0, 0),
             [peer[c] EXCEPT !.st = "SYN_SENT", !.snd = Plus(Iss[c], 1)])

\* A SYN-ACK for the peer's SYN is acknowledged.
Confirm(c, b) ==
    /\ peer[c].st = "SYN_SENT" /\ b.to = c
    /\ b.flags = {"SYN", "ACK"} /\ b.ack = peer[c].snd
    /\ Sends(c, Seg(c, {"ACK"}, peer[c].snd, Plus(b.seq, 1), 0),
             [peer[c] EXCEPT !.st = "open", !.una = b.ack, !.rcv = Plus(b.seq, 1)])

SendData(c) ==
    /\ peer[c].st = "open" /\ peer[c].data < MaxData
    /\ Sends(c, Seg(c, {"ACK"}, peer[c].snd, peer[c].rcv, 1),
             [peer[c] EXCEPT !.snd = Plus(@, 1), !.data = @ + 1])

\* An acknowledgement of something that is outstanding.
TakeAck(c, b) ==
    /\ peer[c].st \in {"open", "closing"} /\ b.to = c /\ b.flags = {"ACK"}
    /\ b.ack \in {Plus(peer[c].una, k) : k \in 1 .. (peer[c].snd - peer[c].una) % SeqMod}
    /\ peer' = [peer EXCEPT ![c].una = b.ack]
    /\ UNCHANGED <<conn, isn, listen, toggles, opens, net, back>>

Close(c) ==
    /\ peer[c].st = "open"
    /\ Sends(c, Seg(c, {"FIN", "ACK"}, peer[c].snd, peer[c].rcv, 0),
             [peer[c] EXCEPT !.st = "closing", !.snd = Plus(@, 1)])

\* The peer gives its connection up.
Abort(c) ==
    /\ peer[c].st \in {"SYN_SENT", "open"}
    /\ Sends(c, Seg(c, {"RST"}, peer[c].snd, 0, 0), [peer[c] EXCEPT !.st = "gone"])

Peers ==
    \E c \in Clients :
        \/ Connect(c) \/ SendData(c) \/ Close(c) \/ Abort(c)
        \/ \E b \in back : Confirm(c, b) \/ TakeAck(c, b)

Next == (\E s \in net : ProcessFrame(s)) \/ Listen \/ Peers

Spec == Init /\ [][Next]_vars

-----------------------------------------------------------------------------
(* Properties.                                                             *)

\* Types (part of ConnsDistinct).
TypeOK ==
    /\ conn \in [Slot -> {Free} \cup
                    [st : {"SYN_RCVD", "ESTABLISHED"}, peer : Clients,
                     snd : 0 .. SeqMod - 1, rcv : 0 .. SeqMod - 1]]
    /\ isn \in 0 .. SeqMod - 1 /\ listen \in BOOLEAN /\ toggles \in 0 .. MaxToggles
    /\ opens \in 0 .. MaxOpens

\* A peer has one connection however often its SYN arrives, so the lookup by
\* addresses and ports is unambiguous (tcp_find_conn before tcp_alloc_conn).
ConnsDistinct ==
    /\ TypeOK
    /\ \A i, j \in Used : conn[i].peer = conn[j].peer => i = j

\* A connection is ESTABLISHED only when its peer has acknowledged the sequence
\* number this very connection started with, not that of an earlier one
\* (tcp_process_frame: ack == c->snd_nxt, and tcp_next_isn moves on).
EstablishedWasConfirmed ==
    \A i \in Used : conn[i].st = "ESTABLISHED" => peer[conn[i].peer].rcv = conn[i].snd

\* Nothing is acknowledged that the peer has not sent: rcv_nxt stays between
\* the peer's SYN and what it sent last, in whatever order segments arrive.
AckedWasSent ==
    \A i \in Used :
        LET c == conn[i].peer
        IN  (conn[i].rcv - Iss[c]) % SeqMod \in 1 .. (peer[c].snd - Iss[c]) % SeqMod

\* A connection goes only when its own peer ends it, or in the first slot when
\* the table is full (tcp_alloc_conn); it never changes hands otherwise, and
\* its handshake is not undone.
OnlyPeersEndConnections ==
    [][\A i \in Used :
          \/ /\ conn'[i].st # "free" /\ conn'[i].peer = conn[i].peer
             /\ conn'[i].snd = conn[i].snd
             /\ conn[i].st = "ESTABLISHED" => conn'[i].st = "ESTABLISHED"
          \/ \E s \in net : s.from = conn[i].peer /\ s.flags \cap {"FIN", "RST"} # {}
          \/ i = 0 /\ Used = Slot]_vars

-----------------------------------------------------------------------------
(* The inductive invariant (Tcp_proofs).                                   *)

PeerStates == {"closed", "SYN_SENT", "open", "closing", "gone"}

Segment ==
    [from : Clients, flags : SUBSET {"SYN", "ACK", "FIN", "RST"},
     seq : 0 .. SeqMod - 1, ack : 0 .. SeqMod - 1, len : {0, 1}]

Peer ==
    [st : PeerStates, snd : 0 .. SeqMod - 1, una : 0 .. SeqMod - 1,
     rcv : 0 .. SeqMod - 1, data : 0 .. MaxData]

NetTypeOK ==
    /\ net \subseteq Segment
    /\ \A b \in back : b.seq \in 0 .. SeqMod - 1 /\ b.ack \in 0 .. SeqMod - 1
    /\ peer \in [Clients -> Peer]

\* A peer that has seen our SYN keeps the number it saw, and every segment of
\* it that can end a handshake carries that number.
SawOurSyn(c) == peer[c].st \notin {"closed", "SYN_SENT"}

AcksCarryOurSyn ==
    /\ \A s \in net : "ACK" \in s.flags => SawOurSyn(s.from) /\ s.ack = peer[s.from].rcv
    /\ \A i \in Used : conn[i].st = "ESTABLISHED" => SawOurSyn(conn[i].peer)

IInv ==
    /\ ConnsDistinct
    /\ NetTypeOK
    /\ AcksCarryOurSyn
    /\ EstablishedWasConfirmed

\* What a peer has sent so far: SYN, data and FIN count one each.
Sent(p) ==
    CASE p.st = "closed"  -> 0
      [] p.st = "closing" -> p.data + 2
      [] OTHER            -> p.data + 1

SentBy(c) == Sent(peer[c])

\* Where a segment lies among the numbers of its peer: it starts at the k-th,
\* at the first only if it is the SYN, and ends before what the peer sends next.
LiesAt(s, k, sent) ==
    /\ s.seq = Plus(Iss[s.from], k)
    /\ IF "SYN" \in s.flags THEN k = 0 /\ sent >= 1 ELSE k >= 1
    /\ k + Advance(s) <= sent

NumbersOfPeers ==
    /\ \A c \in Clients : /\ peer[c].snd = Plus(Iss[c], SentBy(c))
                          /\ peer[c].st = "closed" => peer[c].data = 0
    /\ \A s \in net : \E k \in 0 .. SentBy(s.from) : LiesAt(s, k, SentBy(s.from))
    /\ \A i \in Used :
          \E k \in 1 .. SentBy(conn[i].peer) : conn[i].rcv = Plus(Iss[conn[i].peer], k)
=============================================================================
