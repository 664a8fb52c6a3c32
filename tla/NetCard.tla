------------------------------- MODULE NetCard -------------------------------
(***************************************************************************)
(* The driver of the network card (rtl8139.c) and what its frames go       *)
(* through before UDP and TCP: the polling commands of arp.c, ipv4.c,      *)
(* icmp.c and net.c, each of which takes the next frame whatever it is.    *)
(*                                                                         *)
(* The card is external.  It writes a frame behind a header into the       *)
(* receive buffer; because the driver sets RCR_WRAP it goes on behind the  *)
(* end of the ring instead of at its start, into the RTL8139_RX_EXTRA      *)
(* bytes there.  It sends what a transmit buffer holds at the time it      *)
(* comes to it.  The buffer is counted in words of four bytes.             *)
(***************************************************************************)
EXTENDS Arp, Sequences, SequencesExt

CONSTANTS
    RingWords,   \* RTL8139_RX_BUFFER_SIZE
    ExtraWords,  \* RTL8139_RX_EXTRA
    Words,       \* how many words a frame of each kind has
    TxSlots,     \* RTL8139_TX_BUFFER_COUNT
    Addresses,   \* addresses that this machine may have
    BootAddress, \* the one it starts with
    MaxFrames,   \* bound on the frames that arrive
    MaxSent      \* bound on the frames the shell sends

Kinds == DOMAIN Words
Requests == {"arp_request", "echo_request"}
ArpKinds == {"arp_request", "arp_reply"}

ASSUME NetCardAssumption ==
    /\ RingWords \in Nat /\ ExtraWords \in Nat /\ TxSlots \in Nat \ {0}
    /\ ExtraWords + 1 < RingWords
    /\ MaxFrames \in Nat /\ MaxSent \in Nat
    /\ BootAddress \in Addresses
    /\ Kinds = Requests \cup {"arp_reply", "echo_reply", "other"}
    /\ \A k \in Kinds : Words[k] \in 1 .. ExtraWords

VARIABLES
    up,        \* rtl_status.initialized
    ip,        \* arp_local_ip, which is set from the start
    buffer,    \* rtl_rx_buffer
    wr,        \* where the card writes the next frame
    rd,        \* rtl_rx_offset, which the card knows from CAPR
    pending,   \* the frames the card has put into the buffer and nobody took
    frames,    \* how many arrived (bound)
    cache,     \* arp_cache
    txbuf,     \* rtl_tx_buffer
    txindex,   \* rtl_tx_index
    queued,    \* the transmit buffers the card was told to send, in order
    due,       \* what was to be sent, in order
    overrun,   \* a transmit buffer was filled while the card still had to send it
    sent       \* how many frames the shell sent (bound)

rxVars == <<buffer, wr, rd, pending, frames>>
txVars == <<txbuf, txindex, queued, due, overrun>>
vars   == <<up, ip, rxVars, cache, txVars, sent>>

Size(f) == 1 + Words[f.kind]
Span    == 0 .. RingWords + ExtraWords - 1
Blank   == [frame |-> 0, part |-> 0]

\* A frame in the buffer: its header, then its words.
Word(f, k) == [frame |-> f.id, part |-> k]
Body(f)    == [k \in 1 .. Words[f.kind] |-> Word(f, k)]

Nothing == [kind |-> "none"]

CardInit ==
    /\ buffer = [w \in Span |-> Blank] /\ wr = 0 /\ rd = 0 /\ pending = <<>>
    /\ txbuf = [t \in 0 .. TxSlots - 1 |-> Nothing] /\ txindex = 0
    /\ queued = <<>> /\ due = <<>> /\ overrun = FALSE

Init ==
    up = FALSE /\ ip = BootAddress /\ CardInit /\ frames = 0 /\ cache = ArpInit /\ sent = 0

-----------------------------------------------------------------------------
(* The card.                                                               *)

\* A frame comes in, from a host's two addresses and to an address (which matters
\* for requests only).  It is dropped when the ring would be full.
Arrive(kind, sender, addr) ==
    LET f    == [id |-> frames + 1, kind |-> kind, from |-> sender, to |-> addr]
        free == (rd - wr) % RingWords
    IN  /\ kind \notin Requests => addr = BootAddress
        /\ up /\ frames < MaxFrames /\ frames' = frames + 1
        /\ IF free # 0 /\ Size(f) >= free
           THEN UNCHANGED <<buffer, wr, pending>>
           ELSE /\ buffer' = [w \in Span |-> IF w - wr \in 0 .. Size(f) - 1
                                             THEN Word(f, w - wr) ELSE buffer[w]]
                /\ wr' = (wr + Size(f)) % RingWords
                /\ pending' = Append(pending, f)
        /\ UNCHANGED <<up, ip, rd, cache, txVars, sent>>

\* The oldest frame goes out, as the buffer holds it now.
Transmit ==
    /\ queued # <<>>
    /\ queued' = Tail(queued) /\ due' = Tail(due)
    /\ UNCHANGED <<up, ip, rxVars, cache, txbuf, txindex, overrun, sent>>

-----------------------------------------------------------------------------
(* rtl8139_poll_receive                                                    *)

\* The words the driver copies: it turns at the end of the ring.  The header is
\* always one it goes on: the card gives bad frames only where RCR says so, which
\* rtl8139_init does not, and InStep says that the offset is at a frame's header.
Read(f) == [k \in 1 .. Words[f.kind] |-> buffer[(rd + k) % RingWords]]

\* The next frame without its header (for the mutants).
NextBare(f) == (rd + Words[f.kind]) % RingWords

\* Where the frame after this one starts.
NextFrame(f) == (rd + Size(f)) % RingWords

\* The frame runs past the end of the ring, where the card goes straight on and
\* the driver turns.
Straddles(f) == rd + Size(f) > RingWords

Taken(f) ==
    /\ rd # wr
    /\ rd' = NextFrame(f) /\ pending' = Tail(pending)
    /\ UNCHANGED <<buffer, wr, frames>>

-----------------------------------------------------------------------------
(* rtl8139_send_frame                                                      *)

\* The same buffer every time (for the mutants).
SameSlot == txindex
NextSlot == (txindex + 1) % TxSlots

\* The buffer is filled whether the card has sent what it held or not.
SendFrame(f) ==
    /\ txbuf' = [txbuf EXCEPT ![txindex] = f]
    /\ queued' = Append(queued, txindex) /\ due' = Append(due, f)
    /\ overrun' = (overrun \/ Len(queued) >= TxSlots)
    /\ txindex' = NextSlot

-----------------------------------------------------------------------------
(* The handlers.                                                           *)

\* What the handlers make of a frame: who is remembered, and the answer to a
\* request for the address that the machine has by now.
Handle(s) ==
    /\ cache' = IF s.kind \in ArpKinds THEN Store(cache, s.from.ip, s.from.mac) ELSE cache
    /\ IF s.kind \in Requests /\ s.to = ip
       THEN SendFrame([kind |-> s.kind, to |-> s.from.ip]) ELSE UNCHANGED txVars

\* The frame as it was read.  What was read of one that straddles the end is
\* anybody's frame of any kind.
Seen(f) ==
    IF Straddles(f) THEN [kind : Kinds, from : Entries, to : Addresses]
    ELSE {[kind |-> f.kind, from |-> f.from, to |-> f.to]}

\* A poll that hands the frame to the protocols in "wanted" and drops it otherwise:
\* net_poll_once, arp_poll_once, icmp_poll_once, ipv4_poll_once, rtlrx.
Poll(wanted) ==
    /\ up /\ pending # <<>>
    /\ Taken(Head(pending))
    /\ \E s \in Seen(Head(pending)) :
          IF s.kind \in wanted THEN Handle(s) ELSE UNCHANGED <<cache, txVars>>
    /\ UNCHANGED <<up, ip, sent>>

NetPoll  == Poll(Kinds)
ArpPoll  == Poll(ArpKinds)
IcmpPoll == Poll({"echo_request", "echo_reply"})
IpPoll   == Poll({})     \* nothing but statistics
RtlRx    == Poll({})

-----------------------------------------------------------------------------
(* The shell.                                                              *)

\* arp whohas, and what nettest and the package client ask
WhoHas(h) == SendFrame([kind |-> "arp_request", to |-> h])

\* icmp_send_echo_request and udp_send_datagram, to a host that is known
Ping(h)    == Known(cache, h) /\ SendFrame([kind |-> "echo_request", to |-> h])
UdpSend(h) == Known(cache, h) /\ SendFrame([kind |-> "other", to |-> h])

\* rtltx sends a frame to everybody
RtlTx == \E h \in Hosts : SendFrame([kind |-> "other", to |-> h])

ShellSend ==
    /\ up /\ sent < MaxSent /\ sent' = sent + 1
    /\ RtlTx \/ \E h \in Hosts : WhoHas(h) \/ Ping(h) \/ UdpSend(h)
    /\ UNCHANGED <<up, ip, rxVars, cache>>

\* rtl8139_init, which the boot and every command that finds the card not ready
\* call: the device is there and comes out of its reset, or it does not and stays
\* down (result 0, -2, -3 or -4).
CardStart ==
    /\ ~up /\ up' = TRUE
    /\ rd' = 0 /\ wr' = 0 /\ txindex' = 0
    /\ UNCHANGED <<ip, buffer, pending, frames, cache, txbuf, queued, due, overrun, sent>>

\* arp setip
SetIp(addr) ==
    /\ ip' = addr
    /\ UNCHANGED <<up, rxVars, cache, txVars, sent>>

Next ==
    \/ CardStart
    \/ \E a \in Addresses : SetIp(a) \/ \E k \in Kinds, s \in Entries : Arrive(k, s, a)
    \/ Transmit
    \/ NetPoll \/ ArpPoll \/ IcmpPoll \/ IpPoll \/ RtlRx
    \/ ShellSend

Spec == Init /\ [][Next]_vars

-----------------------------------------------------------------------------
(* Properties.                                                             *)

\* Types (part of InStep).
TypeOK ==
    /\ up \in BOOLEAN /\ ip \in Addresses
    /\ wr \in 0 .. RingWords - 1 /\ rd \in 0 .. RingWords - 1
    /\ buffer \in [Span -> [frame : 0 .. MaxFrames, part : 0 .. ExtraWords]]
    /\ txindex \in 0 .. TxSlots - 1 /\ Len(queued) = Len(due)
    /\ frames \in 0 .. MaxFrames /\ sent \in 0 .. MaxSent

\* The driver's offset is at the header of the oldest frame nobody took, and
\* equals the card's exactly when there is none: no frame is skipped, read twice
\* or written over before it is read, and what the driver reads is the frame
\* that arrived, unless that runs past the end of the ring (rtl8139_poll_receive:
\* rtl_rx_offset, CAPR).
InStep ==
    /\ TypeOK
    /\ pending = <<>> <=> rd = wr
    /\ pending # <<>> =>
         /\ buffer[rd] = Word(Head(pending), 0)
         /\ ~Straddles(Head(pending)) => Read(Head(pending)) = Body(Head(pending))

\* What the card is about to send is what was given to rtl8139_send_frame, as
\* long as no more frames wait than there are buffers: the driver never asks.
SendsWhatWasGiven ==
    ~overrun => \A k \in 1 .. Len(queued) : txbuf[queued[k]] = due[k]

-----------------------------------------------------------------------------
(* The inductive invariant (NetCard_proofs).                               *)

RxFrames == [id : 1 .. MaxFrames, kind : Kinds, from : Entries, to : Addresses]
TxFrames == [kind : Kinds, to : Hosts]

\* A card that never came up has done nothing.
NothingBefore == ~up => pending = <<>> /\ queued = <<>> /\ rd = wr

\* The transmit buffers go round, and the last one filled is behind txindex.
BuffersInTurn ==
    /\ queued \in Seq(0 .. TxSlots - 1) /\ due \in Seq(TxFrames)
    /\ txbuf \in [0 .. TxSlots - 1 -> {Nothing} \cup TxFrames] /\ overrun \in BOOLEAN
    /\ ~overrun =>
         /\ Len(queued) <= TxSlots
         /\ \A k \in 1 .. Len(queued) :
               queued[k] = (txindex + TxSlots + k - 1 - Len(queued)) % TxSlots

\* The buffer holds a frame from word w on.
Holds(f, w) == \A k \in 0 .. Words[f.kind] : buffer[w + k] = Word(f, k)

\* The j-th frame that waits is at[j] words behind the driver's offset: they
\* follow one another, and end where the card goes on, before the offset again.
LaidOut(at) ==
    /\ at[1] = 0 /\ wr = (rd + at[Len(pending) + 1]) % RingWords
    /\ \A j \in 1 .. Len(pending) : /\ at[j + 1] = at[j] + Size(pending[j])
                                    /\ Holds(pending[j], (rd + at[j]) % RingWords)
    /\ \A i, j \in 1 .. Len(pending) + 1 : i <= j => at[i] <= at[j]

FramesInTurn ==
    /\ pending \in Seq(RxFrames)
    /\ \E at \in [1 .. Len(pending) + 1 -> 0 .. RingWords - 1] : LaidOut(at)

IInv ==
    /\ TypeOK
    /\ NothingBefore
    /\ BuffersInTurn /\ SendsWhatWasGiven
    /\ FramesInTurn
=============================================================================
