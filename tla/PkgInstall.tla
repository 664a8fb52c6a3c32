----------------------------- MODULE PkgInstall -----------------------------
(***************************************************************************)
(* The package manager: pkg install and pkg remove of commands.c, the      *)
(* exchange of one request for one reply over a fresh UDP socket           *)
(* (pkg_exchange), the server tools/pkg_server.py and a network that       *)
(* loses, repeats, delays and reorders datagrams.                          *)
(*                                                                         *)
(* A reply says how many bytes it carries and not which, so the client     *)
(* takes whatever reaches its socket for the answer.  A package is a       *)
(* sequence of bytes; a byte is <<file, position>>.  A request carries     *)
(* the name as typed or its other spelling (with or without ".bas"), the   *)
(* offset and PKG_CHUNK_SIZE.                                              *)
(***************************************************************************)
EXTENDS UdpSockets

CONSTANTS
    Server,       \* the package server's host
    Chunk,        \* PKG_CHUNK_SIZE
    MaxContent,   \* MAX_FILE_CONTENT - 1
    ArpTries,     \* the requests for an unknown address before giving up
    Catalogs,     \* what the server may hold: the size of the file behind each
                  \* spelling, or Missing
    Paths,        \* where packages are installed
    MaxInstalls   \* bound on the installations of a behaviour

Missing == -1
Spellings == 0 .. 1

ASSUME PkgInstallAssumption ==
    /\ Server \in Hosts
    /\ Chunk \in Nat \ {0} /\ MaxContent \in Nat \ {0} /\ ArpTries \in Nat /\ MaxInstalls \in Nat
    /\ Catalogs \subseteq [Spellings -> Nat \cup {Missing}]

VARIABLES
    catalog,   \* the files of the server
    requests,  \* what was ever sent to the server and may still arrive
    replies,   \* what the server ever answered and may still arrive
    cl,        \* handle_pkg_install_command and its pkg_exchange
    files,     \* the content of each path
    index,     \* the paths that /.pkgdb names
    installs   \* how many installations were started (bound)

pkgVars == <<catalog, requests, replies, cl, files, index, installs>>
vars == <<sockVars, pkgVars>>

\* Contents that are not from the server: nothing, a package found under
\* /packages or built in, and what a failed write leaves.
Absent  == <<>>
OnDisk  == <<<<2, 0>>>>
Damaged == <<<<3, 0>>>>

Bytes(v, from, n) == [i \in 1 .. n |-> <<v, from + i - 1>>]
Whole(v) == Bytes(v, 0, catalog[v])

Idle == [at |-> "idle", fd |-> Off, name |-> 0, tried |-> FALSE, tries |-> 0,
         got |-> <<>>, path |-> Off]

Init ==
    /\ SocketsInit
    /\ catalog \in Catalogs
    /\ requests = {} /\ replies = {}
    /\ cl = Idle
    /\ files = [p \in Paths |-> Absent]
    /\ index = {}
    /\ installs = 0

-----------------------------------------------------------------------------
(* The server: one reply per request, computed from the request alone.     *)

Request == [port |-> sock[cl.fd], name |-> cl.name, offset |-> Len(cl.got)]

\* resolve_payload and the GETCHUNK branch of main
Reply(r) ==
    LET size == catalog[r.name]
        n    == Min({Chunk, size - r.offset})
    IN  [dst |-> r.port,
         body |-> IF size = Missing THEN <<"ERR">>
                  ELSE IF r.offset >= size THEN <<"OK", 0, <<>>>>
                  ELSE <<"OK", n, Bytes(r.name, r.offset, n)>>]

Serve(r) ==
    /\ replies' = replies \cup {Reply(r)}
    /\ UNCHANGED <<sockVars, catalog, requests, cl, files, index, installs>>

-----------------------------------------------------------------------------
(* pkg_exchange                                                            *)

\* A failed first request is tried under the other spelling, once.
Fail ==
    cl' = IF cl.got = <<>> /\ ~cl.tried
          THEN [Idle EXCEPT !.at = "ask", !.name = 1 - cl.name, !.tried = TRUE, !.path = cl.path]
          ELSE Idle

CloseSocket ==
    /\ ring' = CloseIn(ring, sock, cl.fd).ring
    /\ sock' = CloseIn(ring, sock, cl.fd).sock

\* No socket is left: the exchange fails.
NoSocket ==
    /\ cl.at = "ask" /\ ~OpenSocket.ok
    /\ Fail
    /\ UNCHANGED <<sockVars, catalog, requests, replies, files, index, installs>>

\* sock_open_udp
Open ==
    /\ cl.at = "ask" /\ OpenSocket.ok
    /\ sock' = OpenSocket.sock /\ ephemeral' = OpenSocket.next
    /\ cl' = [cl EXCEPT !.at = "send", !.fd = OpenSocket.fd, !.tries = 0]
    /\ UNCHANGED <<ring, lapped, hung, listen, echo, cache, heard, strays>>
    /\ UNCHANGED <<catalog, requests, replies, files, index, installs>>

\* sock_sendto needs the server's address; while it is unknown it is asked for
\* and the card polled, ArpTries times before the first request and once before
\* the second, which is then waited for whether it was sent or not.
Send ==
    /\ cl.at \in {"send", "resend"}
    /\ UNCHANGED <<lapped, hung, ephemeral, listen, echo, cache, heard, strays>>
    /\ UNCHANGED <<catalog, replies, files, index, installs>>
    /\ LET known == Known(cache, Server)
           next  == IF cl.at = "send" THEN "wait" ELSE "wait again"
       IN  \/ /\ known
              /\ requests' = requests \cup {Request}
              /\ cl' = [cl EXCEPT !.at = next, !.tries = 0]
              /\ UNCHANGED <<ring, sock>>
           \/ /\ ~known /\ cl.tries < (IF cl.at = "send" THEN ArpTries ELSE 1)
              /\ cl' = [cl EXCEPT !.tries = @ + 1]
              /\ UNCHANGED <<requests, ring, sock>>
           \/ /\ ~known /\ cl.at = "send" /\ cl.tries = ArpTries
              /\ Fail /\ CloseSocket
              /\ UNCHANGED requests
           \/ /\ ~known /\ cl.at = "resend" /\ cl.tries = 1
              /\ cl' = [cl EXCEPT !.at = next, !.tries = 0]
              /\ UNCHANGED <<requests, ring, sock>>

Waits  == cl.at \in {"wait", "wait again"}
Comes  == Matching(ring, sock[cl.fd]) # {}

\* The request is sent again whenever nothing comes (for the mutants).
TimeoutAgain ==
    /\ Waits /\ ~Comes
    /\ UNCHANGED <<lapped, hung, ephemeral, listen, echo, cache, heard, strays>>
    /\ UNCHANGED <<catalog, requests, replies, files, index, installs>>
    /\ cl' = [cl EXCEPT !.at = "resend", !.tries = 0] /\ UNCHANGED <<ring, sock>>

\* sock_recvfrom gives up: the request is sent again, then the exchange fails.
Timeout ==
    /\ Waits /\ ~Comes
    /\ UNCHANGED <<lapped, hung, ephemeral, listen, echo, cache, heard, strays>>
    /\ UNCHANGED <<catalog, requests, replies, files, index, installs>>
    /\ IF cl.at = "wait"
       THEN cl' = [cl EXCEPT !.at = "resend", !.tries = 0] /\ UNCHANGED <<ring, sock>>
       ELSE Fail /\ CloseSocket

\* What the install does with the body of a reply.  pkg_parse_chunk_reply wants
\* six bytes, which "OK 0" and its newline are not; anything but a chunk that
\* fits ends the command.
Chunked(body) ==
    /\ body[1] = "OK" /\ body[2] > 0
    /\ Len(cl.got) + body[2] <= MaxContent

\* A full chunk is taken for the last one (for the mutants).
StopEarly(body) ==
    IF ~Chunked(body) THEN Idle
    ELSE LET got == cl.got \o body[3]
         IN  [cl EXCEPT !.fd = Off, !.got = got,
                        !.at = IF body[2] <= Chunk \/ Len(got) >= MaxContent THEN "store" ELSE "ask"]

AfterReply(body) ==
    IF ~Chunked(body) THEN Idle
    ELSE LET got == cl.got \o body[3]
         IN  [cl EXCEPT !.fd = Off, !.got = got,
                        !.at = IF body[2] < Chunk \/ Len(got) >= MaxContent THEN "store" ELSE "ask"]

\* The reply is taken from the ring and the socket closed.
TakeReply ==
    /\ Waits /\ Comes
    /\ LET t == TakeFor(ring, sock[cl.fd])
       IN  IF t.loops
           THEN hung' = TRUE /\ ring' = t.ring /\ UNCHANGED <<sock, cl>>
           ELSE /\ hung' = FALSE
                /\ ring' = CloseIn(t.ring, sock, cl.fd).ring
                /\ sock' = CloseIn(t.ring, sock, cl.fd).sock
                /\ cl' = AfterReply(t.got.body)
    /\ UNCHANGED <<lapped, ephemeral, listen, echo, cache, heard, strays>>
    /\ UNCHANGED <<catalog, requests, replies, files, index, installs>>

-----------------------------------------------------------------------------
(* pkg install and pkg remove                                              *)

Install(path) ==
    /\ cl = Idle /\ installs < MaxInstalls
    /\ installs' = installs + 1
    /\ \/ cl' = [Idle EXCEPT !.at = "ask", !.path = path]
       \/ cl' = [Idle EXCEPT !.at = "store", !.got = OnDisk, !.path = path]
    /\ UNCHANGED <<sockVars, catalog, requests, replies, files, index>>

\* pkg_db_set_entry and pkg_db_remove_entry: /.pkgdb is read, changed and
\* written again.  A path stands for the package that is installed there.
SetEntry(path) == index \cup {path}
RemoveEntry(path) == index \ {path}

\* The file is written, then the index; either write may fail, and a failed
\* write has truncated the file.
StoreFile ==
    /\ cl.at = "store"
    /\ cl' = Idle
    /\ \E content \in {cl.got, Damaged}, indexed \in BOOLEAN :
        /\ indexed => content = cl.got
        /\ files' = [files EXCEPT ![cl.path] = content]
        /\ index' = IF indexed THEN SetEntry(cl.path) ELSE index
    /\ UNCHANGED <<sockVars, catalog, requests, replies, installs>>

\* The file is unlinked, then the index rewritten.
Remove(path) ==
    /\ cl = Idle /\ path \in index
    /\ files[path] # Absent
    /\ files' = [files EXCEPT ![path] = Absent]
    /\ index' \in {index, RemoveEntry(path)}
    /\ UNCHANGED <<sockVars, catalog, requests, replies, cl, installs>>

-----------------------------------------------------------------------------
\* net_poll_once, by the shell or while the client waits.
NetPoll ==
    /\ \/ cl = Idle
       \/ cl.at \in {"send", "resend"} /\ cl.tries > 0
       \/ Waits /\ ~Comes
    /\ UNCHANGED pkgVars
    /\ \/ Poll
       \/ \E d \in replies : ReceiveDatagram(d) /\ UNCHANGED strays

Client == NoSocket \/ Open \/ Send \/ Timeout \/ TakeReply \/ StoreFile

Next ==
    /\ ~hung
    /\ \/ \E r \in requests : Serve(r)
       \/ Client
       \/ \E p \in Paths : Install(p) \/ Remove(p)
       \/ NetPoll

\* The waits of the client count their polls, so they end; nothing is assumed of
\* the network, the server or the user.
Fairness == WF_vars(~hung /\ Client)

Spec == Init /\ [][Next]_vars /\ Fairness

-----------------------------------------------------------------------------
(* Properties.                                                             *)

\* Types (part of FilesWhole).
TypeOK ==
    /\ SocketsTypeOK
    /\ catalog \in Catalogs
    /\ cl.at \in {"idle", "ask", "send", "wait", "resend", "wait again", "store"}
    /\ cl.fd \in Fds \cup {Off} /\ cl.tries \in 0 .. ArpTries + 1
    /\ index \subseteq Paths /\ installs \in 0 .. MaxInstalls

\* A file that was installed is a whole package of the server, whatever replies
\* were lost, repeated or late: the chunks come from one spelling, in order,
\* none is missing and none is taken twice (handle_pkg_install_command over
\* pkg_exchange).  Only a write that fails leaves something else.
FilesWhole ==
    /\ TypeOK
    /\ \A p \in Paths :
           files[p] \in {Absent, Damaged, OnDisk} \cup
                        {Whole(v) : v \in {u \in Spellings : catalog[u] # Missing}}

\* What the client has so far is the beginning of one file, and while it waits
\* its socket is open and nobody else's.
FetchIsPrefix ==
    /\ cl.at \in {"ask", "send", "wait", "resend", "wait again"} =>
          cl.got = Bytes(cl.name, 0, Len(cl.got)) /\ Len(cl.got) < MaxContent
    /\ cl.fd # Off => /\ sock[cl.fd] \in EphBase .. EphTop
                      /\ \A f \in Fds \ {cl.fd} : sock[f] # sock[cl.fd]

\* Every installation ends, with the package or without it, unless the receive
\* loop does not: the retries under another spelling and the waits are bounded.
InstallEnds == cl.at # "idle" ~> (cl.at = "idle" \/ hung)

-----------------------------------------------------------------------------
(* The inductive invariant (UdpSockets_proofs).                            *)

\* What a fetch needs that nothing in the exchange of datagrams ensures: nobody else
\* writes to its ports, the longest content is no whole number of chunks (2047 and
\* 384), and the ports do not come round, if rounds requests make the longest fetch
\* and one more finds that the first spelling is unknown.
Careful(rounds) ==
    /\ StrayPorts \cap (EphBase .. EphTop) = {}
    /\ \A n \in Nat : n * Chunk # MaxContent
    /\ MaxContent <= rounds * Chunk
    /\ MaxInstalls * (rounds + 1) <= EphTop - EphBase

Wholes == {Whole(v) : v \in {u \in Spellings : catalog[u] # Missing}}

Fetching  == cl.at \in {"ask", "send", "wait", "resend", "wait again"}
Exchanges == cl.fd # Off

CallSound ==
    /\ cl \in [at : {"idle", "ask", "send", "wait", "resend", "wait again", "store"},
               fd : Fds \cup {Off}, name : Spellings, tried : BOOLEAN,
               tries : 0 .. ArpTries + 1, got : Seq({0, 1, 2} \X Nat), path : Paths \cup {Off}]
    /\ Exchanges <=> cl.at \in {"send", "wait", "resend", "wait again"}
    /\ cl.at # "idle" => cl.path \in Paths
    /\ cl.at = "send" => cl.tries <= ArpTries
    /\ cl.at = "resend" => cl.tries <= 1
    /\ cl.at = "store" => cl.got \in Wholes \cup {OnDisk}
    /\ Fetching => cl.got = Bytes(cl.name, 0, Len(cl.got)) /\ Len(cl.got) < MaxContent

\* The client's socket is the only one, and its port is newer than any other's.
SockSound ==
    /\ sock \in [Fds -> 0 .. EphTop] /\ ephemeral \in EphBase .. EphTop
    /\ \A f \in Fds \ {cl.fd} : sock[f] = 0
    /\ Exchanges => sock[cl.fd] \in EphBase .. ephemeral - 1

\* Whatever is under way was asked for from a port that was used before, and what was
\* asked for from the client's is what it asks for now.
RequestsSound ==
    \A r \in requests :
        /\ r.port \in EphBase .. ephemeral - 1 /\ r.name \in Spellings /\ r.offset \in Nat
        /\ Exchanges /\ r.port = sock[cl.fd] => r.name = cl.name /\ r.offset = Len(cl.got)

RingOf(D) ==
    [slot : [Index -> {NoDatagram} \cup D], head : Index, tail : Index, count : 0 .. RingSize]

RepliesSound ==
    /\ replies \subseteq {Reply(r) : r \in requests}
    /\ ring \in RingOf(replies \cup Datagrams)

RestSound ==
    /\ lapped \in BOOLEAN /\ hung \in BOOLEAN
    /\ listen \in BindPorts \cup {0} /\ echo \in Fds \cup {Off} /\ strays \in 0 .. MaxStray
    /\ catalog \in Catalogs /\ index \subseteq Paths /\ installs \in 0 .. MaxInstalls
    /\ files \in [Paths -> {Absent, Damaged, OnDisk} \cup Wholes]

\* The requests that an installation may still make after n chunks.
Left(rounds, n) ==
    IF ~Fetching THEN 0
    ELSE (rounds - n) + (IF cl.got = <<>> /\ ~cl.tried THEN 1 ELSE 0) - (IF Exchanges THEN 1 ELSE 0)

PortsLeft(rounds) ==
    \E n \in Nat :
        /\ Fetching => Len(cl.got) = n * Chunk
        /\ ephemeral + Left(rounds, n) <= EphBase + installs * (rounds + 1)

FetchSound(rounds) ==
    /\ CallSound /\ SockSound /\ RequestsSound /\ RepliesSound /\ RestSound
    /\ PortsLeft(rounds)
=============================================================================
