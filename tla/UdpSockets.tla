----------------------------- MODULE UdpSockets -----------------------------
(***************************************************************************)
(* The datagram side of the network stack: the receive ring of udp.c       *)
(* (UdpRing), the sockets of sockets.c, the address cache of arp.c (Arp),  *)
(* the polling of net.c and the shell's commands on them (sock, udp,       *)
(* udpecho, net poll, nettest).                                            *)
(*                                                                         *)
(* All of it runs in the shell's thread; the network card is only looked   *)
(* at when a command polls it.  A wait for a datagram is therefore some    *)
(* polls and one look at the ring.                                         *)
(***************************************************************************)
EXTENDS UdpRing, Arp

CONSTANTS
    SockMax,      \* SOCK_MAX
    EphBase,      \* SOCK_EPHEMERAL_BASE
    EphTop,       \* 65535
    BindPorts,    \* ports that the user binds, listens on and starts the echo service on
    StrayPorts,   \* ports that other machines write to
    MaxStray      \* bound on the frames of other machines

ASSUME UdpSocketsAssumption ==
    /\ SockMax \in Nat \ {0} /\ MaxStray \in Nat
    /\ EphBase \in Nat \ {0} /\ EphTop \in Nat /\ EphTop - EphBase >= SockMax
    /\ BindPorts \cup StrayPorts \subseteq 1 .. EphTop

VARIABLES
    ring,       \* udp_rx_queue, udp_rx_head, udp_rx_tail, udp_rx_count
    lapped,     \* a datagram was put where the ring's head still waited
    hung,       \* udp_recv_next_for_port loops
    sock,       \* local_port of each socket, 0 when it is not in_use
    ephemeral,  \* sock_next_ephemeral
    listen,     \* udp_listen_port, 0 when udp_listen_enabled is not set
    echo,       \* udpecho_fd
    cache,      \* arp_cache
    heard,      \* history: the MAC address last heard from each IP address
    strays      \* how many frames other machines sent (bound)

sockVars == <<ring, lapped, hung, sock, ephemeral, listen, echo, cache, heard, strays>>

Fds == 0 .. SockMax - 1
Off == -1

PortsTaken(s) == {s[f] : f \in {g \in Fds : s[g] # 0}}

SocketsInit ==
    /\ ring = RingInit /\ lapped = FALSE /\ hung = FALSE
    /\ sock = [f \in Fds |-> 0]
    /\ ephemeral = EphBase
    /\ listen = 0 /\ echo = Off
    /\ cache = ArpInit /\ heard = [h \in Hosts |-> NoEntry]
    /\ strays = 0

-----------------------------------------------------------------------------
(* sockets.c                                                               *)

PortAt(k) == EphBase + ((ephemeral - EphBase + k) % (EphTop - EphBase + 1))

\* The counter goes back to the lowest free port (for the mutants).
LowestPort(taken) == Min((EphBase .. EphTop) \ taken)

\* sock_allocate_ephemeral_port: the next port that no socket has.
NextPort(taken) == PortAt(Min({k \in 0 .. EphTop - EphBase : PortAt(k) \notin taken}))

\* sock_open_udp
OpenSocket ==
    IF \A f \in Fds : sock[f] # 0
    THEN [ok |-> FALSE, fd |-> Off, sock |-> sock, next |-> ephemeral]
    ELSE LET f == Min({g \in Fds : sock[g] = 0})
             p == NextPort(PortsTaken(sock))
         IN  [ok |-> TRUE, fd |-> f, sock |-> [sock EXCEPT ![f] = p],
              next |-> IF p = EphTop THEN EphBase ELSE p + 1]

\* sock_bind without the search for another socket with the port (for the mutants).
BindsAnyway(s, f, port) == f \in Fds /\ s[f] # 0

\* sock_bind
Binds(s, f, port) ==
    /\ f \in Fds /\ s[f] # 0
    /\ \A g \in Fds \ {f} : s[g] # port

\* sock_close: what waits for the socket's port is discarded, and the rest with it.
CloseIn(q, s, f) ==
    IF f \in Fds /\ s[f] # 0
    THEN [ring |-> Discard(q, s[f]), sock |-> [s EXCEPT ![f] = 0]]
    ELSE [ring |-> q, sock |-> s]

\* The outcome of udp_recv_next_for_port when something waits for the port.
Received(port) ==
    /\ ring' = TakeFor(ring, port).ring
    /\ hung' = TakeFor(ring, port).loops

-----------------------------------------------------------------------------
(* The frames that net_poll_once takes from the card.                      *)

\* udp_process_frame: the port is not looked up, so anything is queued.
ReceiveDatagram(d) ==
    /\ ring' = Push(ring, d)
    /\ lapped' = (lapped \/ Lapping(ring))
    /\ UNCHANGED <<hung, sock, ephemeral, listen, echo, cache, heard>>

\* arp_process_frame: whoever sends an ARP frame is remembered.
ReceiveArp(h, mac) ==
    /\ strays < MaxStray
    /\ strays' = strays + 1
    /\ cache' = Store(cache, h, mac)
    /\ heard' = [heard EXCEPT ![h] = mac]
    /\ UNCHANGED <<ring, lapped, hung, sock, ephemeral, listen, echo>>

\* A datagram of another machine.
ReceiveStray(port) ==
    /\ strays < MaxStray
    /\ strays' = strays + 1
    /\ ReceiveDatagram([dst |-> port, body |-> <<"stray", strays>>])

-----------------------------------------------------------------------------
(* Commands of the shell.                                                  *)

\* sock open udp
SockOpen ==
    /\ OpenSocket.ok
    /\ sock' = OpenSocket.sock /\ ephemeral' = OpenSocket.next
    /\ UNCHANGED <<ring, lapped, hung, listen, echo, cache, heard, strays>>

\* sock bind
SockBind(f, port) ==
    /\ Binds(sock, f, port)
    /\ sock' = [sock EXCEPT ![f] = port]
    /\ UNCHANGED <<ring, lapped, hung, ephemeral, listen, echo, cache, heard, strays>>

\* sock close; a socket of the echo service is closed like any other.
SockClose(f) ==
    /\ sock[f] # 0
    /\ ring' = CloseIn(ring, sock, f).ring /\ sock' = CloseIn(ring, sock, f).sock
    /\ UNCHANGED <<lapped, hung, ephemeral, listen, echo, cache, heard, strays>>

\* sock recv, the look at the ring
SockRecv(f) ==
    /\ sock[f] # 0 /\ Matching(ring, sock[f]) # {}
    /\ Received(sock[f])
    /\ UNCHANGED <<lapped, sock, ephemeral, listen, echo, cache, heard, strays>>

\* udp listen <port>, udp listen off
UdpListen(port) ==
    /\ listen' = port
    /\ UNCHANGED <<ring, lapped, hung, sock, ephemeral, echo, cache, heard, strays>>

\* udp recv
UdpRecv ==
    /\ \/ /\ listen # 0 /\ Matching(ring, listen) # {}
          /\ Received(listen)
       \/ /\ listen = 0 /\ ring.count > 0 /\ Valid(ring, ring.head)
          /\ ring' = TakeHead(ring).ring
          /\ hung' = hung
    /\ UNCHANGED <<lapped, sock, ephemeral, listen, echo, cache, heard, strays>>

\* udpecho start: the running service is closed first, and what fails is closed.
EchoStart(port) ==
    LET c == CloseIn(ring, sock, echo)
    IN  /\ UNCHANGED <<lapped, hung, listen, cache, heard, strays>>
        /\ \/ /\ \A f \in Fds : c.sock[f] # 0
              /\ ring' = c.ring /\ sock' = c.sock /\ echo' = Off
              /\ ephemeral' = ephemeral
           \/ LET free == {f \in Fds : c.sock[f] = 0}
                  f    == Min(free)
                  p    == NextPort(PortsTaken(c.sock))
                  s    == [c.sock EXCEPT ![f] = p]
              IN  /\ free # {}
                  /\ ephemeral' = IF p = EphTop THEN EphBase ELSE p + 1
                  /\ IF Binds(s, f, port)
                     THEN ring' = c.ring /\ echo' = f /\ sock' = [s EXCEPT ![f] = port]
                     ELSE /\ ring' = CloseIn(c.ring, s, f).ring
                          /\ echo' = Off /\ sock' = c.sock

\* udpecho step and run: a datagram for the service's socket is sent back.
EchoStep ==
    /\ echo # Off /\ sock[echo] # 0 /\ Matching(ring, sock[echo]) # {}
    /\ Received(sock[echo])
    /\ UNCHANGED <<lapped, sock, ephemeral, listen, echo, cache, heard, strays>>

\* udpecho stop
EchoStop ==
    /\ echo # Off
    /\ ring' = CloseIn(ring, sock, echo).ring /\ sock' = CloseIn(ring, sock, echo).sock
    /\ echo' = Off
    /\ UNCHANGED <<lapped, hung, ephemeral, listen, cache, heard, strays>>

\* nettest: a socket is opened and closed, the listening port set and restored.
NetTest ==
    /\ OpenSocket.ok
    /\ ephemeral' = OpenSocket.next
    /\ ring' = CloseIn(ring, OpenSocket.sock, OpenSocket.fd).ring
    /\ UNCHANGED <<lapped, hung, sock, listen, echo, cache, heard, strays>>

Shell ==
    \/ SockOpen
    \/ \E f \in Fds : SockClose(f) \/ SockRecv(f) \/ \E p \in BindPorts : SockBind(f, p)
    \/ \E p \in BindPorts \cup {0} : UdpListen(p)
    \/ UdpRecv
    \/ \E p \in BindPorts : EchoStart(p)
    \/ EchoStep \/ EchoStop
    \/ NetTest

Poll ==
    \/ \E p \in StrayPorts : ReceiveStray(p)
    \/ \E h \in Hosts, mac \in Macs : ReceiveArp(h, mac)

SocketsNext == ~hung /\ (Shell \/ Poll)

SocketsSpec == SocketsInit /\ [][SocketsNext]_sockVars

-----------------------------------------------------------------------------
(* Properties.                                                             *)

\* Types (part of PortsDistinct).
SocketsTypeOK ==
    /\ ring.slot \in [Index -> {NoDatagram} \cup {ring.slot[i] : i \in InUse(ring)}]
    /\ ring.head \in Index /\ ring.tail \in Index /\ ring.count \in 0 .. RingSize
    /\ lapped \in BOOLEAN /\ hung \in BOOLEAN
    /\ sock \in [Fds -> 0 .. EphTop]
    /\ ephemeral \in EphBase .. EphTop
    /\ listen \in BindPorts \cup {0} /\ echo \in Fds \cup {Off}
    /\ strays \in 0 .. MaxStray

\* Two open sockets never have the same port, so a datagram has one owner
\* (sockets.c: the search of sock_bind and of the ephemeral allocator).
PortsDistinct ==
    /\ SocketsTypeOK
    /\ \A f, g \in Fds : sock[f] # 0 /\ sock[f] = sock[g] => f = g

\* What the address cache says of a host is what the host said last, whatever
\* arrives in which order and however often entries are replaced: an address that
\* changes is not found under its old value (arp_cache_store, arp_lookup_mac).
LookupIsLatest == \A h \in Hosts : Known(cache, h) => MacOf(cache, h) = heard[h]

\* Before the ring was lapped the counter is never below what waits, a ring that
\* counts something holds something, and so the search for the next datagram of
\* udp_recv_next_for_port ends.
LoopsOnlyIfLapped ==
    /\ ring.count >= Cardinality(InUse(ring))
    /\ ~lapped => ring.count = Cardinality(InUse(ring)) /\ ~hung

\* The ring is a queue as long as it was not lapped: what is taken for a port is
\* its oldest datagram, nothing is lost but by a close that empties the ring
\* (udp.c as an implementation of DatagramQueue).
Queue == INSTANCE DatagramQueue WITH Size <- RingSize, waiting <- Contents(ring)

RingIsQueue == Queue!Init /\ [][Queue!Next \/ lapped']_(Contents(ring))

-----------------------------------------------------------------------------
(* The inductive invariant (UdpSockets_proofs).                            *)

Datagrams == [dst : StrayPorts, body : {<<"stray", n>> : n \in 0 .. MaxStray}]

Rings == [slot : [Index -> {NoDatagram} \cup Datagrams], head : Index, tail : Index,
          count : 0 .. RingSize]

\* How far b is ahead of a, going round the ring.
Ahead(a, b) == (b - a) % RingSize

\* What waits lies between the head and the tail, unless they have met.
BetweenHeadAndTail(q) ==
    q.tail # q.head => \A i \in InUse(q) : Ahead(q.head, i) < Ahead(q.head, q.tail)

RingSound ==
    /\ ring \in Rings
    /\ ~lapped => BetweenHeadAndTail(ring)

\* A host has one entry, and that is what it said last.
CacheSound ==
    /\ cache \in [entry : [0 .. ArpSize - 1 -> Entries \cup {NoEntry}], next : 0 .. ArpSize - 1]
    /\ heard \in [Hosts -> Macs \cup {NoEntry}]
    /\ \A i, j \in 0 .. ArpSize - 1 :
           /\ cache.entry[i] # NoEntry /\ cache.entry[j] # NoEntry
           /\ cache.entry[i].ip = cache.entry[j].ip
           => i = j
    /\ \A i \in 0 .. ArpSize - 1 :
           cache.entry[i] # NoEntry => cache.entry[i].mac = heard[cache.entry[i].ip]

IInv ==
    /\ PortsDistinct
    /\ RingSound
    /\ LoopsOnlyIfLapped
    /\ CacheSound
=============================================================================
