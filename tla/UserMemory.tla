----------------------------- MODULE UserMemory -----------------------------
(***************************************************************************)
(* The memory of processes: process.c (stacks, creation, release),         *)
(* memory.c (page directories), syscall.c (brk, mmap, munmap, fork,        *)
(* execve) and the page-fault handler of interrupts.c, on top of the       *)
(* frame allocator of Buddy.                                               *)
(*                                                                         *)
(* A process's pages are named by their virtual page, which the kernel     *)
(* makes equal to the frame it allocates (identity mapping); only a copied *)
(* page differs.  The fault handler runs with interrupts off and is        *)
(* atomic.  Commands and system calls are not: a tick between two calls of *)
(* the allocator reaps what it could have reaped before or after them      *)
(* (ReleaseSlot), and one in the middle of a call of the allocator finds   *)
(* its lists half changed (Reenter).                                       *)
(***************************************************************************)
EXTENDS Buddy

CONSTANTS
    Procs,       \* slots of process_table
    Slots,       \* mmap_regions of a process
    Tables,      \* mapped_pde_count, page tables of a page directory
    BrkOrder,    \* order of the brk area
    MmapOrders,  \* orders that programs ask mmap for
    MaxCalls,    \* bound on the calls, faults and deaths of a behaviour
    UsableSets   \* the sets of frames that the boot loader may report usable

ASSUME UserMemoryAssumption ==
    /\ Procs \subseteq Nat /\ Slots \subseteq Nat
    /\ Tables \in Nat \ {0} /\ MaxCalls \in Nat
    /\ BrkOrder \in Nat /\ MmapOrders \subseteq Nat
    /\ UsableSets \subseteq SUBSET Frame

VARIABLES
    mem,     \* the allocator
    proc,    \* process_table: what each process holds
    pt,      \* its page tables: the frame behind each page
    user,    \* its pages with PAGE_FLAG_USER
    ro,      \* its pages without PAGE_FLAG_RW
    cow,     \* its pages with PAGE_FLAG_COW
    stale,   \* history: pages that were given back and left to the program
    lost,    \* references nobody will give up: reserved frames, and those of slots
             \* that were taken before they were reaped
    wild,    \* the address of a copied page was taken for its frame, a page was
             \* copied that had been given back, or the allocator was re-entered
    panicked,\* kernel_panic stopped the machine
    calls    \* how many steps were taken (bound)

pageVars == <<pt, user, ro, cow, stale>>
vars == <<mem, proc, pageVars, lost, wild, panicked, calls>>

Unused == [st |-> "unused", kstack |-> {}, pd |-> <<>>, stack |-> {}, brk |-> {},
           maps |-> [s \in Slots |-> {}]]

Regions(r) == r.brk \cup UNION {r.maps[s] : s \in Slots}
Pages(r)   == r.stack \cup Regions(r)
Live       == {p \in Procs : proc[p].st = "live"}
Vacant     == {p \in Procs : proc[p].st # "live"}

Identity == [v \in Frame |-> v]

Init ==
    /\ \E usable \in UsableSets : mem = BuddyInit(usable)
    /\ proc = [p \in Procs |-> Unused]
    /\ pt = [p \in Procs |-> Identity]
    /\ user = [p \in Procs |-> {}] /\ stale = [p \in Procs |-> {}]
    /\ ro = [p \in Procs |-> {}] /\ cow = [p \in Procs |-> {}]
    /\ lost = mem.refs
    /\ wild = FALSE
    /\ panicked = FALSE
    /\ calls = 0

-----------------------------------------------------------------------------
(* Page directories and kernel stacks.                                     *)

\* destroy_process_directory_internal: the page tables, then the directory.
FreeDirectory(m, pd) ==
    IF pd = <<>> THEN m ELSE FreeSeq(m, Append(Tail(pd), Head(pd)))

\* n calls of alloc_page that are undone when one of them fails.
Grab(m, n) ==
    LET taken[k \in 0 .. n] ==
            IF k = 0 THEN [ok |-> TRUE, got |-> <<>>, mem |-> m]
            ELSE LET s == taken[k - 1]
                     a == AllocPages(s.mem, 0)
                 IN  IF ~s.ok THEN s
                     ELSE IF a.ok
                     THEN [ok |-> TRUE, got |-> Append(s.got, Min(a.got)), mem |-> a.mem]
                     ELSE [ok |-> FALSE, got |-> <<>>, mem |-> FreeDirectory(s.mem, s.got)]
    IN  taken[n]

\* paging_create_process_directory: a directory and its page tables, a copy of
\* the kernel's identity mapping.
CreateDirectory(m) == Grab(m, 1 + Tables)

\* The memory part of process_create: a guard page and a kernel stack, a page
\* directory; without the latter the stack goes back.
ProcessCreate(m) ==
    LET k == AllocPages(m, 1)
        d == CreateDirectory(k.mem)
    IN  IF ~k.ok THEN [ok |-> FALSE, kstack |-> {}, pd |-> <<>>, mem |-> m]
        ELSE IF d.ok THEN [ok |-> TRUE, kstack |-> k.got, pd |-> d.got, mem |-> d.mem]
        ELSE [ok |-> FALSE, kstack |-> {}, pd |-> <<>>, mem |-> FreePages(d.mem, k.got, 1)]

\* The loops of process_release_user_mappings and release_proc_user_allocations
\* over the mmap regions: page by page, by address.
FreeMaps(m, r) == FoldLeft(LAMBDA acc, s : FreeEach(acc, r.maps[s]), m, Upwards(Slots))

\* The memory part of process_release_resources.  The page directory goes
\* before the user stack is looked up in it, so the stack too is freed by its
\* address.
Release(m, r) ==
    LET m1 == FreeDirectory(FreeMaps(FreeEach(m, r.brk), r), r.pd)
        m2 == IF r.kstack = {} THEN m1 ELSE FreePages(m1, r.kstack, 1)
    IN  FreeEach(m2, r.stack)

\* Pages among S that p no longer has where their address says.
Copied(p, S) == {v \in S : pt[p][v] # v}

\* References a slot holds: to the frames behind its pages and to its own.
RefsOf(p, f) ==
    Cardinality({v \in Pages(proc[p]) : pt[p][v] = f})
        + (IF f \in proc[p].kstack \cup ToSet(proc[p].pd) THEN 1 ELSE 0)

\* A slot taken whatever its state (for the mutants).
TakeAnySlot(p) == lost' = [f \in Frame |-> lost[f] + RefsOf(p, f)]

\* process_create overwrites the slot: what an exited process still held is
\* no longer reachable.
TakeSlot(p) ==
    /\ p \in Vacant /\ p = Min(Vacant)
    /\ lost' = [f \in Frame |-> lost[f] + RefsOf(p, f)]

Set(p, r) == proc' = [proc EXCEPT ![p] = r]

\* A new page directory, in which the pages of S are marked for the program.
FreshMapping(p, S) ==
    /\ pt' = [pt EXCEPT ![p] = Identity]
    /\ user' = [user EXCEPT ![p] = S]
    /\ ro' = [ro EXCEPT ![p] = {}] /\ cow' = [cow EXCEPT ![p] = {}]
    /\ stale' = [stale EXCEPT ![p] = {}]

\* paging_mark_user_range: a block that was allocated is the program's.
MarkUser(p, S) ==
    /\ user' = [user EXCEPT ![p] = @ \cup S]
    /\ stale' = [stale EXCEPT ![p] = @ \ S]
    /\ UNCHANGED <<pt, ro, cow>>

Exited == [Unused EXCEPT !.st = "exited"]

-----------------------------------------------------------------------------
(* Creation and death.                                                     *)

\* process_spawn_ring3_demo: process_create, a user stack, and a page
\* directory that replaces the first one.  When a step fails the process is
\* killed, which releases what it has.
Spawn(p) ==
    LET c == ProcessCreate(mem)
        s == AllocPages(c.mem, 0)
        d == CreateDirectory(s.mem)
        r == [Unused EXCEPT !.st = "live", !.kstack = c.kstack, !.pd = c.pd]
    IN  /\ TakeSlot(p)
        /\ \/ ~c.ok /\ mem' = c.mem /\ Set(p, Unused)
           \/ c.ok /\ ~s.ok /\ mem' = Release(c.mem, r) /\ Set(p, Exited)
           \/ /\ c.ok /\ s.ok /\ ~d.ok
              /\ mem' = Release(FreeEach(d.mem, s.got), r) /\ Set(p, Exited)
           \/ /\ c.ok /\ s.ok /\ d.ok
              /\ mem' = FreeDirectory(d.mem, c.pd)
              /\ Set(p, [r EXCEPT !.pd = d.got, !.stack = s.got])
        /\ FreshMapping(p, IF c.ok /\ s.ok /\ d.ok THEN s.got ELSE {})
        /\ UNCHANGED wild

\* process_exit: the memory stays until the process is reaped.
Exit(p) ==
    /\ Set(p, [proc[p] EXCEPT !.st = "exited"])
    /\ UNCHANGED <<mem, pageVars, lost, wild>>

\* process_kill of another process, or a tick that reaps an exited one.
ReleaseSlot(p) ==
    /\ proc[p].st # "unused" /\ proc[p] # Exited
    /\ mem' = Release(mem, proc[p])
    /\ wild' = (wild \/ Copied(p, Pages(proc[p])) # {})
    /\ Set(p, Exited)
    /\ FreshMapping(p, {})
    /\ UNCHANGED lost

-----------------------------------------------------------------------------
(* System calls.                                                           *)

\* linux_do_brk: the first call allocates the whole area; without memory it
\* fails.  Later calls only move brk_current inside it.
Brk(p) ==
    LET a == AllocPages(mem, BrkOrder)
    IN  /\ proc[p].brk = {} /\ a.ok
        /\ mem' = a.mem
        /\ Set(p, [proc[p] EXCEPT !.brk = a.got])
        /\ wild' = (wild \/ Copied(p, a.got) # {})
        /\ MarkUser(p, a.got)
        /\ UNCHANGED lost

\* What linux_do_munmap and a linux_do_mmap that finds no slot leave of a region
\* whose frames they free: the pages stay present and the program's.
LeftBehind(p, S) ==
    /\ user' = [user EXCEPT ![p] = @ \cup S]
    /\ stale' = [stale EXCEPT ![p] = @ \cup S]
    /\ UNCHANGED <<pt, ro, cow>>

\* linux_do_mmap: the block comes first; it goes back when no slot is free.
Mmap(p, order) ==
    LET vacant == {s \in Slots : proc[p].maps[s] = {}}
        a == AllocPages(mem, order)
    IN  /\ a.ok
        /\ IF vacant = {}
           THEN /\ mem' = FreePages(a.mem, a.got, order)
                /\ LeftBehind(p, a.got)
                /\ UNCHANGED <<proc, wild>>
           ELSE /\ mem' = a.mem
                /\ Set(p, [proc[p] EXCEPT !.maps[Min(vacant)] = a.got])
                /\ wild' = (wild \/ Copied(p, a.got) # {})
                /\ MarkUser(p, a.got)
        /\ UNCHANGED lost

\* linux_do_munmap: page by page, by address; the page tables stay as they are.
Munmap(p, s) ==
    LET region == proc[p].maps[s]
    IN  /\ region # {}
        /\ mem' = FreeEach(mem, region)
        /\ wild' = (wild \/ Copied(p, region) # {})
        /\ Set(p, [proc[p] EXCEPT !.maps[s] = {}])
        /\ LeftBehind(p, region)
        /\ UNCHANGED lost

\* linux_do_fork: process_create, a second page directory in its place, then
\* clone_user_mappings: pages of brk and mmap become read-only and copy on
\* write in both, the stack only read-only.
LinuxFork(p, q) ==
    LET c == ProcessCreate(mem)
        d == CreateDirectory(c.mem)
        pages == Pages(proc[p])
    IN  /\ TakeSlot(q)
        /\ \/ ~c.ok /\ mem' = c.mem /\ Set(q, Unused) /\ FreshMapping(q, {})
           \/ /\ c.ok /\ ~d.ok
              /\ mem' = Release(d.mem, [Unused EXCEPT !.kstack = c.kstack, !.pd = c.pd])
              /\ Set(q, Exited) /\ FreshMapping(q, {})
           \/ /\ c.ok /\ d.ok
              /\ mem' = IncRefs(FreeDirectory(d.mem, c.pd), {pt[p][v] : v \in pages})
              /\ Set(q, [proc[p] EXCEPT !.kstack = c.kstack, !.pd = d.got])
              /\ pt' = [pt EXCEPT ![q] = [v \in Frame |-> IF v \in pages
                                                          THEN pt[p][v] ELSE v]]
              /\ user' = [user EXCEPT ![q] = pages] /\ stale' = [stale EXCEPT ![q] = {}]
              /\ ro' = [ro EXCEPT ![p] = @ \cup pages, ![q] = pages]
              /\ cow' = [cow EXCEPT ![p] = @ \cup Regions(proc[p]),
                                    ![q] = Regions(proc[p]) \cup (cow[p] \cap pages)]
        /\ UNCHANGED wild

\* linux_do_execve: the new directory first; then everything of the old
\* program goes, and a new stack is allocated.  When the file cannot be loaded
\* the stack is freed, but stays the program's page, and the call returns to a
\* program that has none.
LinuxExecve(p, loaded) ==
    LET d == CreateDirectory(mem)
        m1 == FreeEach(d.mem, {pt[p][v] : v \in proc[p].stack})
        m2 == FreeDirectory(FreeEach(FreeMaps(m1, proc[p]), proc[p].brk), proc[p].pd)
        s == AllocPages(m2, 0)
        r == [Unused EXCEPT !.st = "live", !.kstack = proc[p].kstack, !.pd = d.got]
    IN  /\ d.ok
        /\ IF s.ok /\ loaded
           THEN mem' = s.mem /\ Set(p, [r EXCEPT !.stack = s.got])
           ELSE mem' = FreeEach(s.mem, s.got) /\ Set(p, r)
        /\ wild' = (wild \/ Copied(p, Regions(proc[p])) # {})
        /\ pt' = [pt EXCEPT ![p] = Identity]
        /\ user' = [user EXCEPT ![p] = s.got]
        /\ ro' = [ro EXCEPT ![p] = {}] /\ cow' = [cow EXCEPT ![p] = {}]
        /\ stale' = [stale EXCEPT ![p] = IF loaded THEN {} ELSE s.got]
        /\ UNCHANGED lost

\* Has a frame other references?  The second form is a mutant.
SharedByMany(f) == mem.refs[f] > 2
IsShared(f) == mem.refs[f] > 1

\* A program writes to a page that is read-only: handle_page_fault.  It takes
\* for the error code what the program had in EAX, so it may also find a bit
\* missing ("known" is FALSE); what it does not handle ends in kernel_panic.
\* A frame with other references is copied, else the page becomes writable.  A
\* page that was given back is treated like any other.
PageFault(p, v, known) ==
    LET frame == pt[p][v]
        shared == IsShared(frame)
        a == AllocPages(mem, 0)
    IN  /\ v \in ro[p] \cap user[p]
        /\ IF ~known \/ v \notin cow[p] \/ (shared /\ ~a.ok)
           THEN panicked' = TRUE /\ UNCHANGED <<mem, pt, ro, cow, wild>>
           ELSE /\ IF shared
                   THEN /\ mem' = [a.mem EXCEPT !.refs[frame] = @ - 1]
                        /\ pt' = [pt EXCEPT ![p][v] = Min(a.got)]
                   ELSE UNCHANGED <<mem, pt>>
                /\ wild' = (wild \/ (shared /\ v \in stale[p]))
                /\ ro' = [ro EXCEPT ![p] = @ \ {v}]
                /\ cow' = [cow EXCEPT ![p] = @ \ {v}]
                /\ UNCHANGED panicked
        /\ UNCHANGED <<proc, user, stale, lost>>

\* The shell's memtest command: allocates and frees a page twice
\* (memory_smoke_test), then two pages and a page directory, and gives back
\* what it got.
MemTest ==
    LET s == Grab(mem, 1)
        t == Grab(FreeSeq(s.mem, s.got), 2)
        d == CreateDirectory(t.mem)
    IN  /\ mem' = IF t.ok THEN FreeSeq(FreeDirectory(d.mem, d.got), t.got) ELSE t.mem
        /\ UNCHANGED <<proc, pageVars, lost, wild>>

\* A tick in the middle of a call of the allocator, by a command or a system call:
\* it reaps or respawns (process_maintenance_tick), and in a command of the shell
\* it lets a process run, so the allocator is entered again while its lists and
\* counts are half changed.  What they are then is left open: nothing is claimed
\* of what follows.
Reenter ==
    /\ wild' = TRUE
    /\ UNCHANGED <<mem, proc, pageVars, lost>>

Next ==
    /\ ~panicked
    /\ calls < MaxCalls /\ calls' = calls + 1
    /\ \/ /\ \/ \E p \in Procs : Spawn(p) \/ ReleaseSlot(p)
             \/ MemTest \/ Reenter
             \/ \E p \in Live :
                   \/ Exit(p)
                   \/ Brk(p)
                   \/ \E o \in MmapOrders : Mmap(p, o)
                   \/ \E s \in Slots : Munmap(p, s)
                   \/ \E q \in Procs \ {p} : LinuxFork(p, q)
                   \/ \E loaded \in BOOLEAN : LinuxExecve(p, loaded)
          /\ UNCHANGED panicked
       \/ \E p \in Live, v \in Frame, known \in BOOLEAN : PageFault(p, v, known)

Spec == Init /\ [][Next]_vars

-----------------------------------------------------------------------------
(* Properties.  They hold until a page that was copied is freed by its     *)
(* address, one that was given back is copied, or the allocator is entered *)
(* while it is in use ("wild"): see the README.                            *)

\* Types (part of FreeListsSound).
TypeOK ==
    /\ mem \in [free : [Orders -> Seq(Frame)], refs : [Frame -> Nat]]
    /\ proc \in [Procs -> [st : {"unused", "live", "exited"},
                           kstack : SUBSET Frame, pd : Seq(Frame),
                           stack : SUBSET Frame, brk : SUBSET Frame,
                           maps : [Slots -> SUBSET Frame]]]
    /\ \A p \in Procs :
          /\ Cardinality(proc[p].kstack) \in {0, 2}
          /\ Len(proc[p].pd) \in {0, 1 + Tables}
          /\ Cardinality(proc[p].stack) \in {0, 1}
          /\ Cardinality(proc[p].brk) \in {0, 2^BrkOrder}
    /\ pt \in [Procs -> [Frame -> Frame]]
    /\ \A f \in {user, ro, cow, stale} : f \in [Procs -> SUBSET Frame]
    /\ lost \in [Frame -> Nat]
    /\ wild \in BOOLEAN /\ panicked \in BOOLEAN /\ calls \in 0 .. MaxCalls

\* The free lists are exactly the frames without a reference, each in one
\* block, and no two buddies of one order are both free: merging missed
\* nothing and merged nothing that was in use (buddy_free_block).
FreeListsSound ==
    /\ TypeOK
    /\ wild \/
       /\ \A x \in FreeBlocks(mem.free), y \in FreeBlocks(mem.free) :
             x # y => Span(x[1], x[2]) \cap Span(y[1], y[2]) = {}
       /\ \A k \in Orders : IsInjective(mem.free[k])
       /\ FreeFrames(mem) = Frame \ Used(mem)
       /\ \A k \in Orders \ {TopOrder} :
             \A b \in ToSet(mem.free[k]) : ~Contains(mem.free[k], BuddyOf(b, k))

\* The count of a frame is the number of regions' pages, stacks and directories
\* that refer to it, through failed calls, forks, copies and deaths: nothing is
\* freed while a process holds it, and what nobody holds is free.  Pages that
\* munmap leaves in the page tables hold nothing.
RefsExact ==
    wild \/
    \A f \in Frame :
        mem.refs[f] = lost[f] + MapThenSumSet(LAMBDA p : RefsOf(p, f), Procs)

\* A page that a program may write without a fault is behind no page that another
\* program may use, and is no kernel stack and no page table: a fork's sharing
\* is never visible through what programs write.  The pages that munmap and failed
\* calls leave to a program are not claimed to be so, and neither is what the
\* kernel writes for a program: CR0.WP is never set (memory.c:862).
WritableIsPrivate ==
    wild \/
    \A p \in Live : \A v \in user[p] \ (ro[p] \cup stale[p]) :
        /\ \A q \in Procs : pt[p][v] \notin proc[q].kstack \cup ToSet(proc[q].pd)
        /\ \A q \in Live \ {p} : \A w \in user[q] \ stale[q] : pt[q][w] # pt[p][v]

\* Frames a process refers to.
Holds == [p \in Procs |-> proc[p].kstack \cup ToSet(proc[p].pd)
                              \cup {pt[p][v] : v \in Pages(proc[p])}]

\* Every call keeps the promise made to processes (up to a "wild" step).
Abstract == INSTANCE AddressSpaces WITH Frames <- Frame, alive <- Live, holds <- Holds
ProcessesApart == Abstract!Init /\ [][Abstract!Next \/ wild']_(Abstract!vars)
=============================================================================
