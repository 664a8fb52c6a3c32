# Smiggles OS: a verification development

`src/myos` is Smiggles OS, a 32-bit x86 kernel in C: a shell that runs in
kernel mode, preemptible processes with a subset of the Linux system calls, a
block file system behind a VFS, a small network stack, a BASIC interpreter and
a text editor.  This directory holds TLA+ modules of its parts, the TLC
configurations that check them on small instances, and TLAPS proofs about them.

Contents: [the system](#the-system), [modules](#the-modules),
[runs](#the-runs), [proofs](#the-proofs), [what the code does
wrong](#where-code-and-documentation-differ), [limits](#what-is-not-shown),
[plan](#plan).

## The system

Everything runs on one CPU.  Concurrency comes from interrupts: the timer
(`interrupts.c: timer_handler`) reaps dead processes and switches between
processes; the keyboard and mouse handlers fill buffers.  A process is switched
away from only in user mode (`interrupts.c:242-247`), so its system calls are
atomic for other processes; but a call made with interrupts enabled can be cut
by a tick, which reaps, and the *shell*, which is not a process
(`current_process == -1`), is switched away from wherever it is.

| Component | State | Operations | Talks to | Hard behaviour | What makes it correct |
|---|---|---|---|---|---|
| allocator (`filesystem_disk.c`) | two bitmaps, superblock counters, two dirty flags; their copies on disk | allocate and free a block or an inode, flush, mount | disk driver | failing writes in a flush, power failure between its writes | counters agree with bitmaps; what is not dirty is on the disk |
| inodes, directories, paths (`filesystem_disk.c`, `filesystem_inode.c`) | inode table and data blocks, written through | read and write an inode, map a block index, read and write a directory, create, mkdir, delete, resolve | allocator | an error in the middle of a multi-block update, and its rollback; two inodes in one sector; first index past the direct pointers | no block in two files or free while used; nothing leaked; records name live inodes |
| files (`filesystem_fileio.c`) | `fd_table` | open with flags, read, write, close, flush | the two above | full table after a truncation, open files deleted or truncated | a call changes its own file only |
| VFS (`filesystem_vfs.c`) | mounts, `vfs_open_files`, tables of /proc and /dev | open, close, read, write, readdir, close all of a pid | files; processes' death | the shell preempted between two tables, or between test and taking of a slot; a full table | descriptors are distinct and lead to open entries; none is lost |
| boot (`syscall.c:33-62`, `kernel.c`) | formatted or not | probe, format, mount, create the standard directories | all of the file system | read error at boot, crash in a format | a valid image is never formatted |
| processes (`process.c`, `interrupts.c`, `kernel_entry.asm`) | `process_table`, `current_process`, saved stacks | create, fork, exit, kill, yield, tick, switch, reap | memory manager, VFS | ticks inside `schedule`, a slot used again before it was reaped | a process that runs has its stack; a ready one runs |
| memory (`memory.c`, `interrupts.c:292`) | buddy lists, frame reference counts, page tables, slabs | allocate, free, map, copy on write | processes | merging of buddies, a frame shared by two address spaces | a frame is free or used, never both; counts are the number of mappings |
| system calls (`syscall.c`) | `brk` and mmap regions of a process | brk, mmap, munmap, fork, execve, file calls | memory, processes, VFS | failure half-way | regions do not overlap, and are given back |
| input (`interrupts.c`) | ring of 256 scancodes, mouse packet | interrupt puts, reader takes | shell, BASIC, read of stdin | producer interrupts consumer, full ring | keys come out in order, none twice |
| UDP, sockets (`udp.c`, `sockets.c`) | ring of 8 datagrams, 8 sockets | receive, take by port, discard by port, bind, close | driver, package client | holes in the ring, wrapped port counter | a datagram is delivered once, to its port, in order |
| TCP (`tcp.c`) | table of 8 connections | SYN, ACK, data, FIN | driver | lost and repeated segments, table full | sequence numbers advance by what was accepted |
| ARP, IPv4, ICMP (`arp.c`, `ipv4.c`, `icmp.c`, `net.c`) | address cache, counters | process a frame, answer, look up | driver | cache full, addresses that change | a lookup finds the latest address |
| driver, PCI, ATA (`rtl8139.c`, `pci.c`, `ata.c`) | receive ring offset, send slot | poll, send, read and write a sector | hardware | wrap of the ring | |
| logger (`logger.c`) | file `/.klog` | write, trim, list, clear | files | truncated before it is written again | the newest lines are kept |
| shell (`commands.c`, `kernel.c`) | variables, history, current directory, redirections, package list | the commands; line editing | everything | nested pipes, late answers of the package server | |
| BASIC, editor, clipboard, display, calculator | program lines and stacks; text and cursor; scrollback | | shell, files | stacks and buffers at their limits | indices stay in their buffers |
| package server (`tools/pkg_server.py`) | files | answer a UDP request | package client | lost, late and repeated datagrams | a package arrives whole |

`docs/` holds a vendored emulator and disk images, `packages/` sample programs.

## The modules

| Module | Models |
|---|---|
| `FsBitmap` | the allocator's operations as operators on a record |
| `FsAlloc` | the life of that record and of its copy on the disk |
| `DiskFS` | inodes, directories, files, descriptors, on top of `FsBitmap` |
| `VfsFds` | descriptors of the VFS and its backends, and the death of processes |
| `Sched` | the process table, `schedule` and the timer tick |
| `Buddy` | the buddy allocator and frame reference counts, as operators |
| `UserMemory` | what processes do with frames: creation, fork, brk, mmap, execve, faults, death, over `Buddy` |
| `AddressSpaces` | abstract: who may hold which frames; `UserMemory` implements it |
| `UdpRing` | the receive ring of `udp.c`, as operators |
| `Arp` | the address cache of `arp.c`, as operators |
| `UdpSockets` | sockets, ports, the ring and the shell's network commands, over `UdpRing` and `Arp` |
| `DatagramQueue` | abstract: a queue shared by ports; `UdpSockets` implements it |
| `PkgInstall` | package client, package server and a lossy network, over `UdpSockets` |
| `Tcp` | the TCP responder and its peers |
| `NetCard` | the RTL8139 driver, the card, and the commands that poll it |
| `Screen` | page, scrollback, snapshot and mouse pointer |
| `ShellLine` | the shell's command line, history and completion, over `Screen` |
| `TextEditor` | the editor's buffer, cursor, view and clipboard |
| `TextBuffer` | abstract: a text and a place in it; `TextEditor` implements it |
| `Console` | keys and mouse go to `ShellLine` or to `TextEditor` |
| `FsBitmap_proofs`, `FsAlloc_proofs`, `DiskFS_proofs`, `VfsFds_proofs`, `Sched_proofs`, `Tcp_proofs`, `UdpSockets_proofs`, `NetCard_proofs` | proofs |
| `MC*` | constants for TLC, with one `.cfg` for each run |

### FsBitmap and FsAlloc

A bitmap is the set of its set bits; a record `m` holds both bitmaps, the two
counters and the two dirty flags.  `AllocateBlock(m)` is the state after
`disk_allocate_block` (the number it returned is `FreeBlockNo(m)`), and so on.
`FsAlloc` adds the disk's copy and makes one action of each call and of each
write of `disk_fs_flush`, which may fail; a power failure is `Remount`, at any
moment.  Two history variables remember what failed: `stale` (parts whose last
write failed) and `torn` (a mount loaded an image left behind by an interrupted
or failed flush).

### DiskFS

One call at a time, as a sequence of steps with at most one disk write each
(`pc` is the step, `loc` the call's local variables, with its copy of the inode
and the original for the rollback).  A step takes `ok`: whether its disk access
succeeded.  Files are counted in blocks, directories in records; a block is the
records a directory read finds in it and the value a file read finds in it.
Two peculiarities of the code shape the model: an `FInode` is 260 bytes in a
256-byte slot, so an inode in memory has a `tail`, its odd neighbour's mode; and
`inode_get_block` past the direct pointers reads block 0 as an indirect block,
so `GetBlock` returns the words of the root's first directory block there.
`image` remembers whether the disk image may be behind memory; after a mount
of such an image ("torn") the model makes no more calls.

### VfsFds

`vfd` is `vfs_open_files`, `open[k]` the used entries of backend `k`, `own` the
`owner_pid` column of `fd_table`.  A process's call is one step: no
other context enters the kernel before it returns, and a tick that reaps in the middle of it
only gives slots back, as it would right after it.  The shell's calls are cut
wherever it has looked at a slot and not yet taken it, or has cleared `used` and
not yet the rest, and anything may run in between: `vfs_open` is `ShellOpen`
(the backend's scan), `ShellTake`, `ShellAllocFd` (the scan of `vfs_alloc_fd`, or
the way back), `ShellTakeFd`; `vfs_close` is `ShellClose`, `ShellWipe`,
`ShellReset`, `ShellWipeFd`; `process_kill` is `ShellKill`, a close for each
descriptor (`ShellSweep`), `ShellSwept`.  A tick's reap is one step (`Reap`):
`Release` is `process_release_resources`, `vfs_close_for_pid` and then
`fs_fd_close_for_pid`.

The code has no lock, so the shell and a process can get the same slot.  `raced`
records the entries and `shared` the descriptor numbers to which that happened,
and the properties say that the damage ends there: every *other* descriptor
leads to an open entry of its own, and every other entry to a descriptor.
`CreateFails` is `process_create` out of memory (`process.c:254-281`): it turns
an exited slot that was not reaped into an unused one, which nobody sweeps
("forgotten").  So does a kill whose slot was taken meanwhile (`again`).
Programs are assumed to close descriptors they were given (also inherited by
fork), never the shell's.

### Sched

The CPU is on the stack of a process or of the shell (`cpu`), which is no
process: `current_process` (`cur`) is -1 there and its frame is at
`kernel_idle_esp` (`idle`).  `built` says whether a slot has a kernel stack, a
frame and a page directory, `kind` whether it runs a demo loop in kernel mode or
a user program.  Neither `schedule` nor
`process_create` nor `process_kill` disables interrupts, so each is cut into steps and
ticks come between any two of them.  A call of `schedule`, kept per context in
`at`, chooses (`Yield`, `Exit`), changes the states (`Mark`), sets
`current_process` (`Commit`) and switches stacks (`Switch`).  The shell's
`process_create` finds a slot (`ShellFind`), makes it READY (`ShellTake`) and completes
or undoes it, together with the spawn function around it (`ShellBuild`);
its `process_kill` changes the state (`Kill`) and releases (`ShellFree`).  `Tick`
is `timer_handler`: with interrupts off it reaps,
spawns a demo process if one is due, and schedules if it found the shell
(`current_process` is -1) or user mode.  `linux_do_fork` is one step, because a
tick that finds a process in kernel mode switches to nobody, and so is
everything else a process does in one call but `schedule`.

Some ticks break the scheduler.  `cut` becomes true at those, and the properties
and theorems claim everything up to them, so they say that there are no others:

- `TickHarms`, in `process_create` between the slot's READY and its stack
  (`process.c:244-327`): the tick switches to a process without a frame (item 5
  [below](#where-code-and-documentation-differ));
- in `process_kill`, between EXITED and the release: the tick's
  `process_reap_exited` releases the same process, and both free its memory;
- in `process_exit`, on the way to the shell after `current_process` was set to
  -1: the tick frees the stack the CPU is on and takes the process for the shell
  (item 6);
- in `process_exit` at any step, if a demo process is due: its
  `process_create` takes the exiting slot (`process.c:241`), and the exit's
  `context_switch` then saves the old `esp` over the new one's;
- `StaleChoice`: the shell is switched away from after its choice, the process
  it chose ends, and the shell makes it RUNNING all the same.

Every other tick in the middle of these calls is harmless, which is not obvious of
one between `Mark` and `Commit`, or of one that finds a process which gave way
to the shell, while it still lives, at `current_process` -1.  One loss breaks none of the
properties: between `ShellFind` and `ShellTake` a process may fork into
the slot that was found, and is overwritten.

Signals are left out: `process_send_signal` has no caller and `process_kill`
raises one only for a process it ends, or for the caller itself, which no
program can ask for (the Linux call table has no `kill`).  So are blocked
processes: nothing sets that state.

### Buddy and UserMemory

`Buddy` works on a record: `free[k]` is the free list of order `k`, in the
code's order (the list heads are stacks), and `refs` the reference counts.
`Reach` is the loop of `buddy_free_block` that climbs through free buddies;
`FreeEach` frees page by page, as the callers do.

`UserMemory` has one record per slot of `process_table` with the frames it
holds, and its page tables as a function `pt` from pages to frames with two sets
of pages, `ro` (not writable) and `cow` (marked copy on write).  A page's name is
the frame it was allocated in, because the kernel maps user pages at their own
address; only a copied page lies elsewhere.  Each call is one action with all
its failures: `Spawn`, `LinuxFork` and `LinuxExecve` give back what they took
when memory runs out on the way.  An execve frees the mmap regions and then brk,
as `release_proc_user_allocations` does.  `user` has the pages a program can
reach.  `lost` counts references nobody can give up
any more (`process_create` took the slot of a process that was not reaped).

Three peculiarities of the code are in the actions.  `handle_page_fault` reads
the word that holds the program's EAX as its error code (`interrupts.c:296`: the
stub pushed `cr2` and `esp` first), so whether it accepts a copy-on-write fault
depends on the program (`known`); what it does not accept ends in
`kernel_panic`.  A forked stack is read-only without the copy-on-write mark
(`syscall.c:162`), so the next write to it panics.  And `munmap`, `execve` and
the release of a process free a region by its *addresses*: once a page was
copied, that frees another frame than the one it has.  `wild` remembers the
first time this happens; nothing is claimed afterwards.

Two more are about what stays behind.  `munmap` (and `mmap` without a free
region) frees the frames and leaves the pages in the page table, present and
writable (`syscall.c:269-288`): `stale` names them, the program may go on
writing to them (`PageFault` takes them too), and `WritableIsPrivate` is about
all pages but these.  And `CR0.WP` is never set (`memory.c:862`), so what the
kernel writes for a program, in a `read` for instance, goes into shared
copy-on-write frames without a fault: the property is about what *programs*
write.

Commands and system calls run with interrupts on.  A tick that reaps between
two calls of the allocator has the effect of one before or after both, since
neither keeps anything of the lists; a tick in the middle of *one* call finds
the lists half changed (`Reenter`, which ends in `wild`).  So one call of the
allocator is one step in all that is claimed.  ELF images (pages in the program's
own range) and the demo processes, which map nothing, have no actions.

### UdpRing, Arp, UdpSockets

`ring` has the slots, head, tail and counter.  `Push` is `udp_queue_push`,
`TakeFor` is `udp_recv_next_for_port`, which takes the oldest datagram of a port
from wherever it is and may leave a hole; `Discard` is `udp_discard_for_port`,
which empties the whole ring once one datagram is discarded.  The tail goes on
over a hole to a slot that is still waiting if the counter has room
(`lapped`); the loop over invalid entries at the head then need not end
(`hung`), after which nothing happens.

The address cache is a set of entries keyed by the IP address, each with the MAC
that `arp_cache_store` overwrites; hosts may change their MAC at any time.
`heard` remembers what each said last.

All of this runs in the shell's thread, and frames are only looked at when a
command polls the card; so each command is an action and so is each frame that a
poll takes.  A wait for a datagram is some polls and a look at the ring.

### PkgInstall

The client's `cl.at` is the line of `pkg_exchange` it is at; one exchange is
`Open`, `Send` (with the requests for the server's address), `Timeout`,
`TakeReply`.  `requests` and `replies` are what was ever sent and may still
arrive, once, often or never.  A reply has no offset in it: the client takes
whatever reaches its socket.  What keeps an old reply out is that every exchange
has a fresh port.  The instance has as many ports as its installations can use:
where they come round, an answer as old as that reaches the fetch of another
package (`MCUdpSockets` has the wrap of the counter).  Two datagrams of another
machine may come at any time, to a port that is not ephemeral.  The file is stored with the index in one action that may
fail in each of its two writes.

### Tcp

`conn` is the table of connections; `ProcessFrame` is `tcp_process_frame`, on
any segment ever sent.  Peers are ordinary clients, each at one address and
port, that connect, confirm, send, close, reset or fall silent.  They never
reuse a port.  The answer to a SYN can fail to be sent (`tcp.c:306-314`) only on
a card that was never initialised, which receives no SYN either.

### NetCard

The receive buffer is modelled word by word, because the offsets are what could
be wrong: the card writes a header and the frame, straight on past the ring's
end (the driver sets `RCR_WRAP`); the driver reads with `% RX_BUFFER_SIZE`.  A
frame that straddles the end is therefore garbage when it is read, and `Seen`
makes it any frame.  Each polling command takes the next frame whatever it is,
and drops it if it is not its own.  The branch for a malformed header
(`rtl8139.c:190`) is not there: the driver does not set the bits with which
the card would accept bad frames (`rtl8139.c:131`).

### Screen, ShellLine, TextEditor, Console

A cell is its character.  `term` holds the page, the rows that scrolled off and
the command line with its place on the page, because the code changes them
together; the snapshot, scroll offset and mouse pointer are apart.  A key is one
action, from the pointer's removal to its being drawn again.  `lost` marks the
states in which the code itself lost track of the line: it is longer than the
page; `line_start` was not updated after a completion; an old snapshot was
put back (`display.c:178`: a turn of the wheel at the live screen restores the
last snapshot, and arrow keys do not take one); or Enter was pressed on an upper
row of a wrapped line, whose rest then stays behind the next prompt
(`kernel.c:914`), until a line is ended below it.  `drawn` remembers that something was
drawn which no snapshot has; only then, and only by that turn of the wheel, may
the mouse change the live screen.

`Console` adds the editor, whose loops over `buf` are recursive functions, and
the two readers' ideas of Ctrl.  There are two Ctrl keys.  The shell takes both,
the right one as a prefix and a code (`kernel.c:683`), whose prefix can swallow the
next plain key (`ext`); the editor knows the left one only.  At its end the
editor drains the keyboard (`editor.c:495`), so the Ctrl keys may have moved
unseen (`EditorReturns`); a drain that ends between the prefix and its
code is left out.  The editor's text is `TextBuffer`'s through the
mapping `text <- Text(ebuf, elen)`.


## The runs

All properties are stated, with the code they are about, in the modules; every
run is expected to pass.

| Run | Question | Bounds |
|---|---|---|
| `MCFsAlloc` | allocator, flush, failing writes, power failures | 3 blocks, 4 inodes (2 reserved): every bitmap, every order |
| `MCDiskFS_files` | files on a disk that fills up, power failure at any step | 6 blocks (3 taken by format), 5 inodes (3 taken), 2 descriptors, 2 values: blocks and descriptors run out |
| `MCDiskFS_tree` | directories, with duplicate names and deletion of non-empty ones | 7 blocks, 6 inodes, 3 records per directory: inodes and records run out |
| `MCDiskFS_io` | an error at any disk access of open, write and close | 6 blocks, 5 inodes |
| `MCVfsFds` | descriptors, process death, a shell preempted anywhere in its calls | 2 descriptors, tables of 2 and 1 entries, 2 processes: every table fills up; the shell starts no call once an entry was raced for (`MaxRaced` 0), all others go on |
| `MCSched` | is the scheduler right wherever ticks come, and fair? | 3 processes: one running, one READY and a free slot; a wrap-around of the search |
| `MCUserMemory` | is memory shared, copied and given back correctly, also when it runs out? | 17 frames with one reserved, 2 slots, 1 page table, 1 region, 7 calls: fork, copy, death and a slot taken again |
| `MCUdpSockets` | is the ring a queue, and have ports one owner? | ring of 3, 2 sockets, 3 ephemeral ports, one of which may be bound explicitly, 4 datagrams, 3 hosts with 2 hardware addresses and a cache of 2: the ring is lapped, the ports wrap, the cache is full |
| `MCPkgInstall` | does a package arrive whole, and does an installation end? | chunks of 2, files of a chunk and a rest, of one chunk, of one byte and longer than a file may be, 7 ports, 2 installations, 2 datagrams of others, every loss and repetition |
| `MCTcp` | are connections told apart over a lossy network? | 2 slots, 3 peers, sequence numbers modulo 8 that wrap, 4 connections: the table is full |
| `MCNetCard` | do driver and card stay in step? | ring of 7 words, frames of 2 to 4 with their header, 2 send slots, 3 frames in, 2 commands |
| `MCConsole` | does the page show the line, and is the editor's array a text? | page of 3 rows of 5, 2 characters, a command of 6 that wraps, history of 2, 5 keys, of which 3 in the editor; the mouse at any time |

Why these bounds are enough.  The allocator and the tables treat their indices
alike but for "the lowest free one", and each interaction in the code is
between at most two blocks, inodes, records or descriptors; the instances have
room for two and a limit that is reached.  Paths have at most three names and
directories at most two blocks of records (`PerBlock` 2, `MaxEntries` 3), so a
record moves from the second block to the first when one is removed.
`MCDiskFS_files` takes the two values up to symmetry (`ValueSymmetry`): they are
model values that nothing tells apart, and it checks no liveness.
`MaxOffset` keeps the files within the direct pointers, where the code is right.
`CHECK_DEADLOCK FALSE` in the `DiskFS` runs: with `Calls` restricted, a full
disk and closed descriptors leave nothing to do.  With `Shared = FALSE` nobody
truncates or deletes a file that is open, because truncation leaks the blocks
behind a hole.

In the other runs a bound on calls, keys or frames ends every behaviour, hence
their `CHECK_DEADLOCK FALSE`.  The numbers are such that the cases the
properties are about happen: each property is violated by its mutant within
them.  `MCUserMemory` stops where `wild` becomes true.  The peers of `Tcp` never
reuse a port and the package server's files do not change: both are conditions
of the properties.  `SendsWhatWasGiven` exempts a transmit buffer that is filled
again before the card sent it, and `OnlyPeersEndConnections` the first connection
of a full table (item 8): the code does both.

Fairness.  `VfsFds` assumes weak fairness of `Reap` alone: timer ticks go on for
ever and each one scans the whole table (`process.c:595`).  No fairness is
assumed of programs or of the shell.

`FairSpec` of `Sched` assumes that ticks go on, infinitely often in the shell or
in user mode if the CPU is infinitely often there (strong fairness of
`PreemptingTick`: an interrupt
that comes while they are off is kept by the controller); that the demo process
on the CPU yields again or exits (its loop does nothing else); and that a call
of `schedule` goes on (weak fairness of `Mark`, `Commit` and `Switch`).  Nothing is
assumed of user programs
or of the shell.  A program that waits for the keyboard in a system call spins in
kernel mode and starves everyone: the assumption about user mode excludes it.
`ReadyRuns` says nothing of the shell, which runs only when no process is READY.

`Spec` of `PkgInstall` assumes that the client goes on while `hung` is false:
its waits count their polls (`commands.c:1900`, `sockets.c:94`) and nothing else
runs in the shell's thread.  It also assumes that the shell gets the CPU, which
it does only while there are moments with no process READY: a user program that
never ends keeps it from the shell for ever.  Nothing is assumed of the server or
the network.

Every property of a passing run comes with a mutant: an operator with the same
parameters as a definition of the model, changed as a plausible bug would
(`RollbackAll` frees the blocks a failed write had found already, and so on),
under which the run finds the property violated.

## The proofs

Each proof module has one inductive invariant `IInv` with `Init => IInv` and one
lemma per action, and takes its theorems from it.  TLC found no violation of
each `IInv` on the runs' instances before it was proved.

- `FsBitmap_proofs`: what each allocator operation does to the counters and
  bitmaps, for every size.  `LowestExists` (a non-empty set of numbers has a
  least element) makes the loops that look for the first free one total.
- `FsAlloc_proofs`: `TypeCorrect`, `CountersAreExact`, `CleanPartsAreOnDisk`.
  The properties are not inductive alone: a mount makes memory what the disk is,
  so the *disk* must be exact between flushes; and in a flush the parts it has
  passed must be on the disk already while the flags are not yet clear.
- `DiskFS_proofs`: `CountersExactHolds` and `TypeCorrect` through all the steps
  of all calls, with I/O errors and power failures at each.  `IInv` has four
  parts besides the property: `Typed` (pointers are block numbers, chains fit the
  sizes, records name inodes, and only dot records name a reserved one);
  `CallSound` (what each step relies on: an inode that is being created, and
  would be given back, is none of the reserved ones); `FlagsMissNothing` (what no
  dirty flag covers is on the disk, without which a mount could make the
  counters wrong); and that the reserved inodes are never given back.  Counters
  stay exact even where a block is freed twice; that blocks have one owner is
  *not* used.  Facts about every record of a chain go from one block to the next
  by the least counterexample (`UpTo`).

  `BlocksDistinctHolds` and `RecordsValidHolds` rest on a second invariant,
  `Tree` (`TreeHolds`), which unlike them also says what holds *within* a call:
  `BlocksSound` (every inode in use owns its blocks alone, and what a call under
  way has allocated belongs to nobody), `CopySound` (its copy of an inode differs
  from the disk by those blocks only, so that writing it back takes nothing from
  anyone), `DirsLaid` (a directory's records lie in its blocks without gaps; an
  overwritten block takes effect record by record), `RecordsSound` (records name
  inodes in use, each inode once, and "." and ".." the right ones),
  `FilesSound`, `CreationSound`, `RemovalSound` and `WritingSound` (a new inode is
  named by nobody before its record, the one being deleted by that record
  alone, and what was written of a directory is what is to be written).  The
  hypothesis `Careful` is about the paths and calls, and each part of it is a
  place where the code goes wrong otherwise or may: no file is truncated or
  deleted while open (`Shared`; item 3 below); none reaches the last direct
  pointer (item 2); no disk error comes in a deletion or truncation, which free
  blocks before the inode that points to them is written; and no name is opened
  as a file that is made as a directory or is "tmp" (opening a directory for
  writing overwrites its records).  All three `MCDiskFS` runs satisfy it.  `Tree` is
  larger than what it is needed for and TLC takes too long for it on the runs'
  instances; it was checked on smaller ones (fewer blocks, inodes or descriptors), where it
  is violated when `Rollback` frees too much.

  `IsolationHolds` and `NothingLeakedHolds` take `Plain` for `Careful`: besides,
  no directories are made.  Both are false with them, as they are of the code: a
  directory with an odd number becomes a file when the inode before it is
  created (item 1), and deleting a directory leaves what is in it in use and
  without a name.  The runs that check the two, of files and of disk errors,
  satisfy `Plain`.  `Isolation` needs besides `Tree` that the only directories are
  format's, that no file passes its direct pointers, so that no call writes a
  block it does not own, and that no file has the inode of /tmp or the root's neighbour
  (`Small`).  `NothingLeaked` needs the same facts in every step of a call
  (`Owned`): every block marked used is some inode's or among those the call
  has allocated; every inode but the root is named by a record, or is the one
  being created, which has no blocks yet that its rollback could lose; and, where no
  disk error is possible, a file has exactly the blocks below its size
  (`FilesFilled`), since a truncation stops at the first hole (item 3).
- `VfsFds_proofs`: `TypeCorrect`, `DescriptorsStayDistinct`,
  `NoEntryIsOrphaned`, `TheReleasedOwnNothing`, for tables of every size and any
  number of processes, the shell preempted anywhere and any number of races.
  `IInv` adds `ShellCall` (the entry the shell took for
  the descriptor it is about to get is its own, and the descriptor it is closing
  is still its, unless raced for), `SweptBehind` (behind a kill's sweep nothing is
  the victim's, unless its slot changed hands) and `OwnersAgree` (a disk entry's
  owner is the owner of the
  descriptor that leads to it): without the last the second sweep of
  `process_release_resources`, over `fd_table`, could close entries of others.
- `Sched_proofs`: `TypeCorrect`, `StacksStayHeld`, `CurrentIsRight`, for every
  number of processes and ticks anywhere.  Up to a tick that does harm, `IInv` adds
  `CallsAgree` (only the context on the CPU is in a call, and the shell in one that
  a tick cut; what the local variables say of the process chosen still holds,
  those of a shell that was switched away from excepted) and `MarkedWaits` (a process
  such a shell made RUNNING is not the one that runs meanwhile).  `NextReadyIsReady` shows that the loop of
  `schedule` finds a READY process.
- `Tcp_proofs`: `ConnsDistinctHolds`, `EstablishedWasConfirmedHolds`,
  `OnlyPeersEndConnectionsHolds` and `AckedWasSentHolds`, for any table, peers
  and initial numbers.  `IInv` ties the three places where our initial number is
  kept: a peer that saw our SYN-ACK, the segments in the network that can end
  the handshake, and the table.  For `AckedWasSent` it is joined by
  `NumbersOfPeers`, which counts what a peer sent without wrapping; hypothesis:
  `MaxData + 2 < SeqMod`, a peer sends less than one round of sequence numbers.
  Without it the property is false, as it is of the code.
- `UdpSockets_proofs`: `PortsDistinctHolds`, `LookupIsLatestHolds`
  (a cache of any size, hosts that change their address at any time),
  `LoopsOnlyIfLappedHolds`.  For the ring, what waits lies between head and tail
  and its counter is exact until the tail laps the head (`udp.c` looks at the
  slot, not at the counter, when it takes a datagram in), which is the only way
  into the loop of `udp.c:267` that does not end.

  `RingIsQueueHolds` is the refinement of `DatagramQueue`, step by step: until the
  tail has lapped the head, what is taken for a port is the oldest datagram that
  waits for it, what is accepted goes behind all others, and nothing else
  disappears but by a close.  What waits is a recursive function of the scan from
  the head (`Met`); that two scans which agree on a stretch meet the same
  datagrams there is shown by the least place where they do not.

  `FilesWholeHolds` and `FetchIsPrefixHolds` are about `PkgInstall`, with
  every loss, repetition and delay.  `FetchSound` says that each request ever
  sent came from a port that is used up, and that those from the client's
  current port ask for what it is asking for now; so whatever answer reaches
  that port brings the next bytes of the file, and the chunk is short exactly at
  its end.  The hypothesis is `Careful(rounds)` for some number of rounds that
  the longest fetch takes: nobody else writes to the ephemeral ports; 2047, the
  longest content, is no multiple of 384 (if it were, a longer package would be
  cut there and stored as if whole); and the ports do not come round, for which
  the 16384 of `sockets.c` are enough for 2340 installations (6 rounds, and one
  request for the first spelling of the name).
- `NetCard_proofs`: `InStepHolds` and `SendsWhatWasGivenHolds`.  `IInv` says that
  the frames nobody took lie one behind the other from the driver's offset to
  the card's, modulo the ring, and that the card's next transmit descriptor
  follows the driver's by the number of frames not yet sent.

Assumptions are those of the modules, which TLC evaluates in the runs:
`SizeAssumption` (format reserves two inodes), `VfsAssumption` (table sizes are
natural numbers), `SchedAssumption` (at least one slot), `TcpAssumption`,
`UdpRingAssumption` and `ArpAssumption` (tables are not empty),
`UdpSocketsAssumption` (ports are below the end of the ephemeral range),
`NetCardAssumption` (the largest frame and its header fit the ring),
`PkgInstallAssumption` (a chunk and the longest content are not empty), and
`DiskFSAssumption`: the fixed inodes and blocks of format are on the disk,
a block has room for the two records format writes, where disk errors are
possible files and directories do not reach the last direct pointer (past it
`inode_get_block` would take a read error for a missing indirect block,
`filesystem_disk.c:396`), and the paths of calls have no dot parts, because `path_resolve` hands every path to
`fs_path_normalize` first.

Only model-checked, and why:

- `EditorIsText` and `ProcessesApart`, two refinements: the first compares
  arrays that move over themselves with sequences, the second needs the counts of
  the next item.
- `FreeListsSound`, `RefsExact`, `WritableIsPrivate`: `Buddy` frees and counts
  by folds over lists and rests on powers of two; both need induction over data.
- `ShowsLine`: what is on the screen is a fold over the characters of the line.
- `CtrlIsHeld` and `LiveScreenKept` of `Console`: see the plan.
- Every liveness property.

## Where code and documentation differ

1. An inode is not "256 bytes" (`filesystem_new.h:47`) but 260, and writing one
   does not "preserve the other inode" (`filesystem_disk.c:362`): a directory
   with an odd number becomes a file when its even neighbour is created.
2. Block indices past the twelve direct pointers do not use "single
   indirection" (`filesystem_disk.c:383`): `inode_get_block` takes words of block
   0 for block numbers, so byte 49152 of any file is the first byte of /tmp.
3. Truncation frees blocks up to the first hole, not "all existing blocks"
   (`filesystem_fileio.c:162`).
4. A process that yields or is preempted while no other is READY stays RUNNING
   and is never "scheduled again" (`process.c:454`).
5. A slot is READY before `process_create` has built the frame "that
   context_switch_asm will pop on the first switch" (`process.c:237`), and a tick
   in the shell switches to it.
6. The tick does not "avoid switching away while a process is in kernel mode"
   (`interrupts.c:243`) when the process is in `schedule` on its way to the shell:
   `current_process` is -1 there.  It does lasting harm when the process has exited,
   whose stack the tick frees.
7. A receive does not end after "~32 ms max wait" (`sockets.c:94`) when the loop
   of `udp.c:267` meets a ring whose counter says more than its slots.
8. `tcp_alloc_conn` does not "Replace oldest slot" (`tcp.c:124`) but the first.
9. The server logs `OK 0` as the end of a package (`pkg_server.py:229`); the
   client takes no reply under six bytes (`commands.c:1947`), so a package whose
   size is a multiple of 384 cannot be installed.

The models say more, in definitions the runs use:

- `Exact` (`FsBitmap`): `free_inodes` is two more than the "Number of free
  inodes" (`filesystem_new.h:37`), because format does not count the reserved two.
- `raced`, `CreateFails` (`VfsFds`), `cut`, `ShellTake` (`Sched`): what a shell
  preempted between a test and an assignment, and a creation that fails, do to tables.
- `stale` (`FsAlloc`): a flush that failed clears the dirty flags, so no later
  flush does "Flush all dirty data to disk" (`filesystem_disk.c:564`).
- `ChainBlocks` (`DiskFS`): for the reason of item 2, deleting a file of twelve
  blocks or more frees blocks 1 and 46 of others.
- `PageFault`, `LinuxFork`, `LinuxExecve` (`UserMemory`): a fault is judged by
  the program's EAX; a forked stack cannot be written; an execve that fails
  leaves a process without a stack; munmap leaves its pages to the program.
- `Discard` (`UdpRing`): closing one socket empties the ring for all.
  `EchoStep` (`UdpSockets`): `sock close` of the echo service's socket leaves
  `udpecho_fd` to whoever gets that socket next.
- `Damaged` (`PkgInstall`): a write that fails has truncated the installed file;
  the index may name a file that is gone.
- `InHandshake`, `InConnection` (`Tcp`): a SYN-ACK is never repeated, data is
  acknowledged across gaps, and RST does not end an established connection.
- `Seen`, `SendFrame` (`NetCard`): a frame that straddles the ring's end is
  garbled; a transmit buffer is filled whether it was sent or not.
- `Tab`, `InsertChar`, `Wheel`, `NewPrompt` (`ShellLine`, `Screen`): the ways in which the
  shell loses track of its line (`lost`).
- `EnterAgain` (`Console`): the first Enter after the editor is swallowed.
  `Leaves`: a save that fails leaves the editor all the same.

## What is not shown

- Names and contents are abstract; parsing of paths is left out.
- `DiskFS` runs one call at a time.  Calls that overlap because the shell is
  preempted inside the file system, or because a tick reaps a process and
  flushes, would need the steps of two calls interleaved; one call's steps
  already give millions of states on the smallest disk.
- After an I/O error in the middle of a deletion, after a mount of a torn image,
  after a page that was copied is freed by its address or the allocator is
  re-entered, after a tick that does harm to the scheduler, after the receive loop
  hangs: nothing is claimed.
- 4096 inodes do not fit in the inode table's 2000 sectors; the model gives
  every inode a slot.
- Properties of memory are about frames, not about what is in them.
- The network modules leave out headers and checksums, and `PkgInstall` a
  server whose files change during an installation (which gives a mixture).
- Liveness and the refinements of the editor and of processes stay with TLC.

Not modelled, and why: the BASIC interpreter, the calculator, hashes and string
functions are sequential functions on text with no state shared with anything;
most shell commands are string handling between two file calls; boot, format,
PCI, ATA and segment set-up run once or are port I/O; the logger rewrites one
file; the interrupt side of keyboard and mouse fills rings that `Console` starts
behind; `kmalloc` has no caller and no code sends a signal.

## Plan

Done: the file system, descriptors, scheduler, memory, network, package manager
and console, with the proofs above.  Left, in the order of importance:

1. `CtrlIsHeld` of `Console` as a theorem; `Isolation` and `NothingLeaked` with
   directories, stated for the inodes that the neighbour's write spares.
2. An abstract file system (a map from paths to contents) that `DiskFS`
   implements while files are small.
3. The scancode ring as a queue of one producer and one consumer, and the log
   file as a bounded list of lines.
