------------------------------- MODULE VfsFds -------------------------------
(***************************************************************************)
(* Open files as src/myos/filesystem_vfs.c keeps them: a VFS descriptor    *)
(* names a mount's backend and a descriptor in that backend's own table    *)
(* (fd_table for the disk and for /tmp, proc_open_files, dev_open_files),  *)
(* and both are given back by a close, by the death of their owner         *)
(* (process_kill) or, when the owner exited by itself, by a later timer    *)
(* tick (process_reap_exited).                                             *)
(*                                                                         *)
(* Who runs when.  timer_handler switches away from a process only in user *)
(* mode, so a process's vfs_open or vfs_close is one step here.  The shell *)
(* is not a process (current_process is -1) and is switched away from at   *)
(* any point: each of its calls is cut wherever it has looked at a slot    *)
(* and not yet taken it, or has cleared "used" and not yet the rest.       *)
(* Processes and the reaper run in between and may take the same slot;     *)
(* raced and shared record which entries and numbers that has happened to. *)
(***************************************************************************)
EXTENDS Integers, FiniteSets

CONSTANTS
  NVfd,    \* MAX_VFS_OPEN_FILES (256)
  Size,    \* entries of each backend's table (256, 16, 16)
  NProcs,  \* MAX_PROCESSES
  MaxRaced \* bound: the shell starts no call once more entries have been raced for

Backend == {"disk", "proc", "dev"}

ASSUME VfsAssumption ==
  /\ NVfd \in Nat /\ NProcs \in Nat /\ MaxRaced \in Nat
  /\ Size \in [Backend -> Nat]

VFd == 0 .. NVfd - 1
Slot(k) == 0 .. Size[k] - 1
Pid == 0 .. NProcs - 1
Shell == -1
Actor == Pid \cup {Shell}

VARIABLES
  vfd,    \* vfs_open_files
  open,   \* the used entries of each backend's table
  own,    \* fd_table[].owner_pid, for the used entries of the disk's table
  st,     \* the process table: "unused", "live", "exited" until its resources
          \* are released, then "released"; "forgotten" when nobody will
  sh,     \* how far the shell's call is, and on what
  raced,  \* history: entries the shell and another have handled at once
  shared  \* history: descriptor numbers given to the shell and to another

vars == <<vfd, open, own, st, sh, raced, shared>>

\* vfs_fd_reset, and what is left when its last stores fall on a descriptor
\* that was taken after the first.
Closed == [k |-> "none", b |-> -1, owner |-> -1]
Wiped == [k |-> "wiped", b |-> -1, owner |-> -1]
File(k, b, a) == [k |-> k, b |-> b, owner |-> a]

\* The shell's call: p is the process it kills, again whether the slot of p
\* has been given to a new process since.
Call(step, k, b, v, p, again) ==
  [step |-> step, k |-> k, b |-> b, v |-> v, p |-> p, again |-> again]
Idle == Call("idle", "none", -1, -1, Shell, FALSE)

Used(v) == vfd[v] # Closed

Init ==
  /\ vfd = [v \in VFd |-> Closed]
  /\ open = [k \in Backend |-> {}]
  /\ own = [b \in Slot("disk") |-> -1]
  /\ st = [p \in Pid |-> "unused"]
  /\ sh = Idle
  /\ raced = {}
  /\ shared = {}

IsLowest(x, S) == x \in S /\ \A y \in S : x <= y

\* The backend's open: fs_fd_open, vfs_proc_open or vfs_dev_open take entry b.
TakeEntry(a, k, b) ==
  /\ open' = [open EXCEPT ![k] = @ \cup {b}]
  /\ own' = IF k = "disk" THEN [own EXCEPT ![b] = a] ELSE own

\* The backends' closes, for the entries C.
GiveEntries(C) ==
  /\ open' = [k \in Backend |-> {b \in open[k] : <<k, b>> \notin C}]
  /\ own' = [b \in Slot("disk") |-> IF <<"disk", b>> \in C THEN -1 ELSE own[b]]

Entry(v) == <<vfd[v].k, vfd[v].b>>

FreeVfds == {v \in VFd : ~Used(v)}

\* The descriptor the shell is closing: its entry is gone already.
Closing(v) ==
  sh.step \in {"closed", "reset"} /\ sh.v = v /\ Entry(v) = <<sh.k, sh.b>>

\* Descriptors that lead to their file.
Current(v) == Used(v) /\ vfd[v] # Wiped /\ ~Closing(v)

-----------------------------------------------------------------------------
\* vfs_open by a process: a backend entry, then a VFS descriptor, and the
\* entry given back if there is none.
OpenVfd(p, k) ==
  /\ st[p] = "live"
  /\ \E b \in Slot(k) :
       /\ IsLowest(b, Slot(k) \ open[k])
       /\ \/ \E v \in VFd :
               /\ IsLowest(v, FreeVfds)
               /\ TakeEntry(p, k, b)
               /\ vfd' = [vfd EXCEPT ![v] = File(k, b, p)]
          \/ FreeVfds = {} /\ UNCHANGED <<vfd, open, own>>
  /\ UNCHANGED <<st, sh, raced, shared>>

\* vfs_close by a process.  No owner is checked, and a forked child goes on
\* using its parent's numbers, so it may be any process's descriptor.  A program
\* is assumed to use numbers it was given, hence never the shell's, unless
\* both were given the same one.
MayClose(v) == Used(v) /\ (vfd[v].owner \in Pid \/ v \in shared)

\* Mutant: the descriptor stays in use.
CloseVfdKeeps(p, v) ==
  /\ st[p] = "live"
  /\ MayClose(v)
  /\ GiveEntries({Entry(v)})
  /\ UNCHANGED <<vfd, st, sh, raced, shared>>

CloseVfd(p, v) ==
  /\ st[p] = "live"
  /\ MayClose(v)
  /\ GiveEntries({Entry(v)})
  /\ vfd' = [vfd EXCEPT ![v] = Closed]
  /\ raced' = raced \cup {e \in {Entry(v)} : Closing(v)}
  /\ UNCHANGED <<st, sh, shared>>

-----------------------------------------------------------------------------
\* The shell starts a call.  MaxRaced bounds the history a run goes through.
Starts == sh = Idle /\ Cardinality(raced) <= MaxRaced

\* The shell's vfs_open.  The backend's scan finds an entry unused, ...
ShellOpen(k) ==
  /\ Starts
  /\ \E b \in Slot(k) \ open[k] : sh' = Call("found", k, b, -1, Shell, FALSE)
  /\ UNCHANGED <<vfd, open, own, st, raced, shared>>

\* ... takes it, whoever has it by now, ...
ShellTake ==
  /\ sh.step = "found"
  /\ TakeEntry(Shell, sh.k, sh.b)
  /\ raced' = raced \cup {e \in {<<sh.k, sh.b>>} : sh.b \in open[sh.k]}
  /\ sh' = [sh EXCEPT !.step = "opened"]
  /\ UNCHANGED <<vfd, st, shared>>

\* ... vfs_alloc_fd finds a descriptor unused, or vfs_open gives the entry
\* back, ...
\* Mutant: a full VFS table keeps the backend's entry.
ShellAllocFdKeeps ==
  /\ sh.step = "opened"
  /\ \/ \E v \in FreeVfds : sh' = [sh EXCEPT !.step = "slot", !.v = v]
     \/ FreeVfds = {} /\ sh' = Idle
  /\ UNCHANGED <<vfd, open, own, st, raced, shared>>

ShellAllocFd ==
  /\ sh.step = "opened"
  /\ \/ \E v \in FreeVfds : sh' = [sh EXCEPT !.step = "slot", !.v = v] /\ UNCHANGED <<open, own>>
     \/ /\ FreeVfds = {}
        /\ GiveEntries({<<sh.k, sh.b>>})
        /\ sh' = [sh EXCEPT !.step = "closed"]
  /\ UNCHANGED <<vfd, st, raced, shared>>

\* ... and takes it, whoever has it by now.
ShellTakeFd ==
  /\ sh.step = "slot"
  /\ vfd' = [vfd EXCEPT ![sh.v] = File(sh.k, sh.b, Shell)]
  /\ IF Used(sh.v)
       THEN raced' = raced \cup {Entry(sh.v), <<sh.k, sh.b>>} /\ shared' = shared \cup {sh.v}
       ELSE UNCHANGED <<raced, shared>>
  /\ sh' = Idle
  /\ UNCHANGED <<open, own, st>>

\* vfs_close for the shell, and for each descriptor of a process it kills.
\* The backend's close clears "used", ...
CloseBackend(v, p, again) ==
  /\ GiveEntries({Entry(v)})
  /\ sh' = Call("closed", vfd[v].k, vfd[v].b, v, p, again)
  /\ UNCHANGED <<vfd, st, raced, shared>>

ShellClose(v) ==
  /\ Starts
  /\ Used(v) /\ vfd[v] # Wiped
  /\ vfd[v].owner = Shell \/ v \in shared
  /\ CloseBackend(v, Shell, FALSE)

\* ... then the entry's other fields, whoever has it by now, ...
ShellWipe ==
  /\ sh.step = "closed"
  /\ IF sh.b \in open[sh.k]
       THEN /\ own' = IF sh.k = "disk" THEN [own EXCEPT ![sh.b] = -1] ELSE own
            /\ raced' = raced \cup {<<sh.k, sh.b>>}
       ELSE UNCHANGED <<own, raced>>
  /\ sh' = IF sh.v = -1 THEN Idle ELSE [sh EXCEPT !.step = "reset"]
  /\ UNCHANGED <<vfd, open, st, shared>>

\* ... vfs_fd_reset clears "used" of the descriptor, ...
ShellReset ==
  /\ sh.step = "reset"
  /\ vfd' = [vfd EXCEPT ![sh.v] = Closed]
  /\ raced' = raced \cup {e \in {Entry(sh.v)} : Current(sh.v)}
  /\ sh' = Call("wiped", "none", -1, sh.v, sh.p, sh.again)
  /\ UNCHANGED <<open, own, st, shared>>

\* ... and the rest of it, whoever has it by now.
ShellWipeFd ==
  /\ sh.step = "wiped"
  /\ IF Used(sh.v)
       THEN /\ vfd' = [vfd EXCEPT ![sh.v] = Wiped]
            /\ raced' = raced \cup {Entry(sh.v)}
            /\ shared' = shared \cup {sh.v}
       ELSE UNCHANGED <<vfd, raced, shared>>
  /\ sh' = IF sh.p = Shell THEN Idle
           ELSE Call("sweep", "none", -1, sh.v + 1, sh.p, sh.again)
  /\ UNCHANGED <<open, own, st>>

-----------------------------------------------------------------------------
\* process_create: the first slot that is unused or whose process exited,
\* whether or not its resources have been released.
FreeSlot(p) == IsLowest(p, {q \in Pid : st[q] # "live"})

Create(p) ==
  /\ FreeSlot(p)
  /\ st' = [st EXCEPT ![p] = "live"]
  /\ sh' = [sh EXCEPT !.again = @ \/ sh.p = p]
  /\ UNCHANGED <<vfd, open, own, raced, shared>>

\* It fails for want of memory and leaves the slot unused, with all that an
\* exited process still had: the reaper looks at exited slots only.
CreateFails(p) ==
  /\ FreeSlot(p)
  /\ st[p] = "exited"
  /\ st' = [st EXCEPT ![p] = "forgotten"]
  /\ UNCHANGED <<vfd, open, own, sh, raced, shared>>

\* process_exit keeps everything for the reaper.
Exit(p) ==
  /\ st[p] = "live"
  /\ st' = [st EXCEPT ![p] = "exited"]
  /\ UNCHANGED <<vfd, open, own, sh, raced, shared>>

\* Mutant: only the VFS table is cleared.
ReleaseVfsOnly(P) ==
  /\ vfd' = [v \in VFd |-> IF vfd[v].owner \in P THEN Closed ELSE vfd[v]]
  /\ st' = [p \in Pid |-> IF p \in P THEN "released" ELSE st[p]]
  /\ UNCHANGED <<open, own, sh, raced, shared>>

\* process_release_resources, for the processes P: vfs_close_for_pid, then
\* fs_fd_close_for_pid for the disk entries that are left.
OwnedBy(P) == {v \in VFd : Used(v) /\ vfd[v].owner \in P}

DiskOwnedBy(P) == {<<"disk", b>> : b \in {c \in Slot("disk") : own[c] \in P}}

Release(P) ==
  /\ vfd' = [v \in VFd |-> IF v \in OwnedBy(P) THEN Closed ELSE vfd[v]]
  /\ GiveEntries({Entry(v) : v \in OwnedBy(P)} \cup DiskOwnedBy(P))
  /\ raced' = raced \cup {Entry(v) : v \in {w \in OwnedBy(P) : Closing(w)}}
  /\ st' = [p \in Pid |-> IF p \in P THEN "released" ELSE st[p]]
  /\ UNCHANGED <<sh, shared>>

\* process_kill by a process, of another.
Kill(a, p) ==
  /\ st[a] = "live" /\ st[p] = "live" /\ p # a
  /\ Release({p})

\* process_kill by the shell: the state first, ...
ShellKill(p) ==
  /\ Starts
  /\ st[p] = "live"
  /\ st' = [st EXCEPT ![p] = "exited"]
  /\ sh' = Call("sweep", "none", -1, 0, p, FALSE)
  /\ UNCHANGED <<vfd, open, own, raced, shared>>

\* ... then the descriptors of p, one by one, ...
Ahead == {v \in OwnedBy({sh.p}) : sh.v <= v}

ShellSweep ==
  /\ sh.step = "sweep"
  /\ \E v \in Ahead : IsLowest(v, Ahead) /\ CloseBackend(v, sh.p, sh.again)

\* ... then the disk entries it still owns, and its memory: an exited slot is
\* not looked at by the reaper after that.
ShellSwept ==
  /\ sh.step = "sweep" /\ Ahead = {}
  /\ GiveEntries(DiskOwnedBy({sh.p}))
  /\ raced' = raced \cup DiskOwnedBy({sh.p})
  /\ st' = [st EXCEPT ![sh.p] = IF @ # "exited" THEN @
                                ELSE IF sh.again THEN "forgotten" ELSE "released"]
  /\ sh' = Idle
  /\ UNCHANGED <<vfd, shared>>

\* process_reap_exited on a timer tick.
\* Mutant: the scan misses the first slot.
ExitedButFirst == {p \in Pid \ {0} : st[p] = "exited"}

Exited == {p \in Pid : st[p] = "exited"}

Reap == Exited # {} /\ Release(Exited)

Next ==
  \/ \E p \in Pid, k \in Backend : OpenVfd(p, k)
  \/ \E p \in Pid, v \in VFd : CloseVfd(p, v)
  \/ \E k \in Backend : ShellOpen(k)
  \/ ShellTake
  \/ ShellAllocFd
  \/ ShellTakeFd
  \/ \E v \in VFd : ShellClose(v)
  \/ ShellWipe
  \/ ShellReset
  \/ ShellWipeFd
  \/ \E p \in Pid : Create(p)
  \/ \E p \in Pid : CreateFails(p)
  \/ \E p \in Pid : Exit(p)
  \/ \E a, p \in Pid : Kill(a, p)
  \/ \E p \in Pid : ShellKill(p)
  \/ ShellSweep
  \/ ShellSwept
  \/ Reap

Spec == Init /\ [][Next]_vars

\* Ticks never stop.
FairSpec == Spec /\ WF_vars(Reap)

-----------------------------------------------------------------------------
TypeOK ==
  /\ vfd \in [VFd -> [k : Backend, b : Nat, owner : Actor] \cup {Closed, Wiped}]
  /\ open \in [Backend -> SUBSET Nat]
  /\ \A k \in Backend : open[k] \subseteq Slot(k)
  /\ own \in [Slot("disk") -> Actor]
  /\ st \in [Pid -> {"unused", "live", "exited", "released", "forgotten"}]
  /\ sh \in [step : {"idle", "found", "opened", "slot", "closed", "reset", "wiped", "sweep"},
             k : Backend \cup {"none"}, b : Nat \cup {-1}, v : Nat \cup {-1},
             p : Actor, again : BOOLEAN]
  /\ raced \subseteq (Backend \X Nat) \cup {<<"wiped", -1>>}
  /\ shared \subseteq VFd

\* A descriptor leads to an entry that is open, and to one no other descriptor
\* leads to: a read or write never reaches a file somebody else opened, nor a
\* close a file that is still in use, whoever died or was switched to meanwhile.
\* When the shell and another have handled one slot at once, the damage stays
\* with the entries of that slot.
DescriptorsDistinct ==
  \A v \in VFd : Current(v) /\ Entry(v) \notin raced =>
    /\ vfd[v].b \in open[vfd[v].k]
    /\ \A w \in VFd \ {v} : Current(w) => Entry(v) # Entry(w)

\* Every open entry of a backend can be reached by a descriptor, so some close
\* or some death gives it back: the small tables of /proc and /dev would
\* otherwise be used up for good.  Only an entry the shell and another have
\* handled at once may be lost.
NoOrphans ==
  \A k \in Backend : \A b \in open[k] :
    \/ \E v \in VFd : Current(v) /\ Entry(v) = <<k, b>>
    \/ sh.step \in {"opened", "slot"} /\ sh.k = k /\ sh.b = b
    \/ <<k, b>> \in raced

\* A released process owns nothing, in either table.
ReleasedOwnNothing ==
  \A p \in Pid : st[p] \in {"unused", "released"} =>
    /\ \A v \in VFd : vfd[v].owner # p
    /\ \A b \in Slot("disk") : own[b] # p

\* Again and again no exited process has anything open: a tick closes what it
\* had.  A slot whose creation failed is unused, not exited, and keeps it.
ExitedAreReleased ==
  []<>(\A p \in Pid : st[p] = "exited" => OwnedBy({p}) = {})

\* What makes the properties inductive.  The entry of the shell's unfinished
\* call is its own.  An entry of the disk's table has the same owner as the
\* descriptor that leads to it.  The shell's sweep leaves nothing behind it
\* unless the slot changed hands.
ShellCall ==
  /\ sh.step \in {"found", "opened", "slot"} => sh.k \in Backend /\ sh.b \in Slot(sh.k)
  /\ sh.step \in {"closed", "reset"} => sh.k \in Backend /\ sh.b \in Nat
  /\ sh.step \in {"opened", "slot"} =>
       \/ <<sh.k, sh.b>> \in raced
       \/ /\ sh.b \in open[sh.k]
          /\ sh.k = "disk" => own[sh.b] = Shell
          /\ \A v \in VFd : Current(v) => Entry(v) # <<sh.k, sh.b>>
  /\ sh.step \in {"closed", "reset"} /\ sh.v # -1 => Closing(sh.v) \/ <<sh.k, sh.b>> \in raced
  /\ sh.step \in {"slot", "reset", "wiped"} => sh.v \in VFd
  /\ sh.step \in {"found", "opened"} => sh.v = -1
  /\ sh.step = "closed" => sh.v \in VFd \cup {-1}
  /\ sh.step = "sweep" => sh.v \in Nat /\ sh.p \in Pid
  /\ sh.step \notin {"sweep", "closed", "reset", "wiped"} => sh.p = Shell

SweptBehind ==
  sh.p \in Pid /\ ~sh.again =>
    /\ st[sh.p] # "live"
    /\ \A v \in VFd : v < sh.v => vfd[v].owner # sh.p
    /\ sh.step = "wiped" => vfd[sh.v].owner # sh.p

OwnersAgree ==
  /\ \A v \in VFd : Current(v) /\ vfd[v].k = "disk" /\ Entry(v) \notin raced =>
       own[vfd[v].b] = vfd[v].owner
  /\ \A b \in Slot("disk") \ open["disk"] : own[b] = -1

IInv ==
  /\ TypeOK
  /\ DescriptorsDistinct
  /\ NoOrphans
  /\ ReleasedOwnNothing
  /\ ShellCall
  /\ SweptBehind
  /\ OwnersAgree

=============================================================================
