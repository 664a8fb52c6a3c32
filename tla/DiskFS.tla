------------------------------- MODULE DiskFS -------------------------------
(***************************************************************************)
(* The block file system: src/myos/filesystem_disk.c (inodes and blocks on *)
(* the disk), filesystem_inode.c (directories, paths, create, delete) and  *)
(* filesystem_fileio.c (descriptors, open, read, write, close).            *)
(*                                                                         *)
(* One call runs at a time.  A call is a sequence of steps that ends at    *)
(* pc = "idle", and a step contains at most one write of an inode, a block *)
(* or a bitmap: those are the points where an I/O error or a power failure *)
(* may strike.  Inodes and blocks are written through, while the bitmaps   *)
(* and the superblock stay in memory until disk_fs_flush.                  *)
(*                                                                         *)
(* Abstractions.  Sizes and offsets are counted in whole blocks for files  *)
(* and in 260-byte records for directories.  A block is described by what  *)
(* a directory read and a file read make of it.  No inode ever has an      *)
(* indirect block: inode_set_block allocates one only at a block index     *)
(* where inode_get_block returned 0 or could not read.  Without a seek,    *)
(* which nothing calls, a descriptor cannot pass the second index after    *)
(* the direct ones, where every write fails (see GetBlock); and where      *)
(* reads may fail no index past the direct ones is asked for               *)
(* (DiskFSAssumption).                                                     *)
(***************************************************************************)
EXTENDS FsBitmap, Sequences, SequencesExt

CONSTANTS
  NDirect,       \* direct block pointers of an inode (12)
  PerBlock,      \* directory records in a block (15)
  MaxEntries,    \* records inode_read_directory's callers have room for (128)
  NFds,          \* MAX_OPEN_FDS (256)
  FilePaths,     \* the paths opened as files: sequences of names
  DirPaths,      \* the paths made as directories
  Flags,         \* the flag sets open is called with, subsets of RWCTA
  Values,        \* what is written to a file, one value per block
  MaxWrite,      \* blocks per write call
  MaxOffset,     \* bound: a descriptor past this block is not written
  Faults,        \* subset of {"io", "power"}
  Calls,         \* the calls the environment makes
  Shared,        \* are files truncated or deleted while a descriptor has them open?
  DotWord        \* first four name bytes of the record ".": 46

\* The names that path_normalize takes out of every path.
Dots == {".", ".."}

ASSUME DiskFSAssumption ==
  /\ NDirect \in Nat \ {0} /\ PerBlock \in Nat \ {0, 1} /\ MaxEntries \in Nat
  /\ MaxEntries <= NDirect * PerBlock
  /\ NBlocks > 3 /\ NInodes > 3 /\ NFds \in Nat
  /\ MaxWrite \in Nat \ {0} /\ MaxOffset \in Nat /\ DotWord \in Nat \ {0}
  /\ Faults \subseteq {"io", "power"}
  /\ "io" \in Faults => MaxOffset < NDirect /\ MaxEntries <= (NDirect - 1) * PerBlock
  /\ Calls \subseteq {"open", "close", "read", "write", "mkdir", "unlink"}
  /\ FilePaths \cup DirPaths \subseteq Seq(STRING)
  /\ \A p \in FilePaths \cup DirPaths : Len(p) <= 3 /\ ToSet(p) \cap Dots = {}
  /\ Flags \subseteq SUBSET {"R", "W", "C", "T", "A"}
  /\ Shared \in BOOLEAN

VARIABLES
  mem,    \* bitmaps and cached superblock (FsBitmap)
  dsk,    \* their copies on the disk
  itab,   \* the inode table on the disk
  blk,    \* the data blocks on the disk
  fdt,    \* fd_table of filesystem_fileio.c
  pc,     \* the step the running call is at, "idle" between calls
  loc,    \* the running call's local variables
  image   \* history: "good"; "stale" once a failed flush left the disk behind
          \* memory; "torn" once a mount loaded an image that was behind

vars == <<mem, dsk, itab, blk, fdt, pc, loc, image>>

Root == 1
Tmp == 2
Fd == 0 .. NFds - 1

-----------------------------------------------------------------------------
\* Inodes.  An FInode in memory is 260 bytes while its slot on the disk is
\* 256: the last four bytes of the inode in an even slot are the mode and the
\* owner of its odd neighbour.  A copy in memory carries them as "tail".
FreshInode(mode) ==
  [mode |-> mode, size |-> 0, direct |-> [k \in 0 .. NDirect - 1 |-> 0], tail |-> "file"]

HasNeighbour(i) == i % 2 = 0 /\ i + 1 \in Inode

ReadInode(i) ==
  [mode |-> itab[i].mode, size |-> itab[i].size, direct |-> itab[i].direct,
   tail |-> IF HasNeighbour(i) THEN itab[i + 1].mode ELSE "file"]

WriteInode(i, node) ==
  itab' = [j \in Inode |->
    IF j = i THEN [mode |-> node.mode, size |-> node.size, direct |-> node.direct]
    ELSE IF HasNeighbour(i) /\ j = i + 1 THEN [itab[j] EXCEPT !.mode = node.tail]
    ELSE itab[j]]

\* inode_get_block.  Past the direct pointers the code reads indirect_block
\* even when that is 0, so it reads block 0, which format gave to the root
\* directory and which holds its "." record for ever: inode number 1, then
\* rec_len, name_len and type (no block number), then the name, then zeros.
BadBlock == NBlocks
GetBlock(node, k) ==
  IF k < NDirect THEN node.direct[k]
  ELSE CASE k - NDirect = 0 -> Root
         [] k - NDirect = 1 -> BadBlock
         [] k - NDirect = 2 -> DotWord
         [] OTHER -> 0

SetBlock(node, k, b) == [node EXCEPT !.direct[k] = b]

\* The blocks a truncation or a deletion frees: up to the first 0 pointer.
ChainBlocks(node) ==
  {GetBlock(node, k) : k \in {j \in 0 .. NDirect + 2 :
                                \A h \in 0 .. j : GetBlock(node, h) # 0}}

\* Mutant: the counter is incremented once for all blocks.
FreeBlocksCountedOnce(m, B) ==
  IF B \cap m.bmap = {} THEN m
  ELSE [m EXCEPT !.bmap = @ \ B, !.freeB = @ + 1, !.bmDirty = TRUE, !.sbDirty = TRUE]

\* The same disk_free_block calls for every block of a set.
FreeBlocks(m, B) ==
  LET used == B \cap m.bmap
  IN  IF used = {} THEN m
      ELSE [m EXCEPT !.bmap = @ \ used,
                     !.freeB = IF @ + Cardinality(used) < NBlocks
                                 THEN @ + Cardinality(used) ELSE NBlocks,
                     !.bmDirty = TRUE, !.sbDirty = TRUE]

\* Mutants: a rollback that frees everything the copy points to, and none.
RollbackAll(m, orig, node) ==
  FreeBlocks(m, {node.direct[k] : k \in 0 .. NDirect - 1} \ {0})
RollbackNothing(m, orig, node) == m

\* rollback_directory_write and rollback_file_write: free what was linked to
\* the copy and was not linked before.
Rollback(m, orig, node) ==
  FreeBlocks(m, {node.direct[k] : k \in {j \in 0 .. NDirect - 1 :
                                           orig.direct[j] = 0 /\ node.direct[j] # 0}})

-----------------------------------------------------------------------------
\* Blocks.  File data read as a directory gives no records: the model's
\* payloads have zeros where a record keeps its length.
ZeroBlock == [ents |-> <<>>, data |-> "zero"]
DirBlock(es) == [ents |-> es, data |-> "records"]
DataBlock(v) == [ents |-> <<>>, data |-> v]

Rec(n, i) == [name |-> n, ino |-> i]

IsDir(i) == itab[i].mode = "dir"

\* The direct pointers before the first zero one.
Linked(ptr) ==
  CHOOSE k \in 0 .. NDirect :
    (\A j \in 0 .. k - 1 : ptr[j] # 0) /\ (k = NDirect \/ ptr[k] = 0)

\* The records in the first of these blocks, one after the other.
Records(B, ptr) ==
  LET upTo[k \in 0 .. NDirect] == IF k = 0 THEN <<>> ELSE upTo[k - 1] \o B[ptr[k - 1]].ents
  IN  upTo

\* inode_read_directory, which is an error (-1) on anything but a directory:
\* the records up to the size, the first zero pointer and the caller's room.
DirectoryOf(slot, B) ==
  LET all == Records(B, slot.direct)[Linked(slot.direct)]
  IN  SubSeq(all, 1, Min({Len(all), slot.size, MaxEntries}))
ReadDirectory(i) == DirectoryOf(itab[i], blk)

\* The positions of a name in a directory; lookups and removals take the first.
Positions(i, name) ==
  IF ~IsDir(i) THEN {}
  ELSE LET es == ReadDirectory(i) IN {k \in DOMAIN es : es[k].name = name}

\* Mutant: the last record of that name.
FindEntryLast(i, name) ==
  LET at == Positions(i, name)
  IN  IF at = {} THEN None ELSE ReadDirectory(i)[Max(at)].ino

\* inode_find_entry.
FindEntry(i, name) ==
  LET at == Positions(i, name)
  IN  IF at = {} THEN None ELSE ReadDirectory(i)[Min(at)].ino

\* path_resolve: a lookup after another until one fails.
LookUp(i, name) == IF i = None THEN None ELSE FindEntry(i, name)
Walk(p) ==
  LET walk[k \in 0 .. Len(p)] == IF k = 0 THEN Root ELSE LookUp(walk[k - 1], p[k])
  IN  walk
Resolve(p) == Walk(p)[Len(p)]

\* path_resolve_parent: the root has no name.
ResolveParent(p) == IF p = <<>> THEN None ELSE Resolve(Front(p))

NoFd == [ino |-> None, off |-> 0, flags |-> {}]

NoCall ==
  [op |-> "none", path |-> <<>>, flags |-> {}, fd |-> None, ino |-> None, par |-> None,
   dir |-> None, node |-> FreshInode("file"), orig |-> FreshInode("file"),
   ents |-> <<>>, k |-> 0, left |-> 0, val |-> "none"]

Reload == mem' = Load(dsk)

\* disk_fs_format and its flush: block 0 went to the root directory, whose
\* pointer 0 means "no block", then block 1 to /tmp and block 2 to the root.
FormattedMem ==
  [Load(Formatted) EXCEPT !.imap = {0, Root, Tmp}, !.bmap = {0, 1, 2},
                          !.freeI = @ - 1, !.freeB = @ - 3]

Init ==
  /\ mem = FormattedMem
  /\ dsk = [imap |-> mem.imap, bmap |-> mem.bmap, freeI |-> mem.freeI, freeB |-> mem.freeB]
  /\ LET slot(node) == [mode |-> node.mode, size |-> node.size, direct |-> node.direct]
     IN  itab = [i \in Inode |->
           slot(CASE i = Root -> [SetBlock(FreshInode("dir"), 0, 2) EXCEPT !.size = 1]
                  [] i = Tmp -> [SetBlock(FreshInode("dir"), 0, 1) EXCEPT !.size = 2]
                  [] OTHER -> FreshInode("file"))]
  /\ blk = [b \in Block |->
       CASE b = 0 -> DirBlock(<<Rec(".", Root), Rec("..", Root)>>)
         [] b = 1 -> DirBlock(<<Rec(".", Tmp), Rec("..", Root)>>)
         [] b = 2 -> DirBlock(<<Rec("tmp", Tmp)>>)
         [] OTHER -> ZeroBlock]
  /\ fdt = [f \in Fd |-> NoFd]
  /\ pc = "idle" /\ loc = NoCall /\ image = "good"

\* Does this step's disk access succeed?
Outcome(ok) == ok \/ "io" \in Faults

\* The call named op begins / goes on at another step / returns.  Nothing is
\* claimed of a torn image, so the model makes no calls on one.
Begin(op) == pc = "idle" /\ op \in Calls /\ image # "torn"
Goto(step, l) == pc' = step /\ loc' = l
Return == pc' = "idle" /\ loc' = NoCall

\* Mutant: the inode is not given back.
FailKeepsInode(m) == mem' = m /\ Return

\* The failure returns of a create, a mkdir or an unlink once an inode is
\* involved: the first two free the inode they allocated, but not the block a
\* new directory already has.
Fail(m) ==
  /\ mem' = IF loc.op = "unlink" THEN m ELSE FreeInode(m, loc.ino)
  /\ Return

-----------------------------------------------------------------------------
\* inode_create_file and inode_create_directory begin by allocating an inode.
Allocated(op, p, fl) ==
  /\ FreeInodeNo(mem) # None
  /\ mem' = AllocateInode(mem)
  /\ Goto("newInode",
          [NoCall EXCEPT !.op = op, !.path = p, !.flags = fl, !.ino = FreeInodeNo(mem)])

\* fs_fd_open up to the resolved or the allocated inode.  A path whose lookup
\* failed on a read error counts as absent.
Open(p, fl, ok) ==
  /\ Begin("open") /\ Outcome(ok)
  /\ fl \cap {"R", "W"} # {}
  /\ LET i == IF ok THEN Resolve(p) ELSE None
     IN  \/ /\ i = None /\ "C" \in fl
            /\ Allocated("open", p, fl)
         \/ /\ i # None
            /\ "T" \in fl => Shared \/ \A f \in Fd : fdt[f].ino # i
            /\ Goto("opened", [NoCall EXCEPT !.op = "open", !.path = p, !.flags = fl,
                                             !.ino = i, !.node = ReadInode(i)])
            /\ UNCHANGED mem
  /\ UNCHANGED <<dsk, itab, blk, fdt, image>>

\* fs_mkdir: nothing asks whether the path exists.
Mkdir(p) ==
  /\ Begin("mkdir")
  /\ Allocated("mkdir", p, {})
  /\ UNCHANGED <<dsk, itab, blk, fdt, image>>

\* The rest of the creation up to the first inode write.
NewInode(ok) ==
  /\ pc = "newInode" /\ Outcome(ok)
  /\ LET par == ResolveParent(loc.path)
         node == FreshInode(IF loc.op = "mkdir" THEN "dir" ELSE "file")
         self == <<Rec(".", loc.ino), Rec("..", par)>>
     IN  IF par = None \/ ~ok
           THEN Fail(mem) /\ UNCHANGED itab
           ELSE /\ WriteInode(loc.ino, node)
                /\ IF loc.op = "mkdir"
                     THEN Goto("wdBlock", [loc EXCEPT !.par = par, !.dir = loc.ino, !.ents = self,
                                                      !.node = node, !.orig = node])
                     ELSE Goto("entry", [loc EXCEPT !.par = par])
                /\ UNCHANGED mem
  /\ UNCHANGED <<dsk, blk, fdt, image>>

\* inode_add_entry and inode_remove_entry: when they go on to write, and what.
EntryPossible ==
  IF loc.op = "unlink" THEN Positions(loc.par, Last(loc.path)) # {}
  ELSE IsDir(loc.par) /\ Len(ReadDirectory(loc.par)) < MaxEntries

\* Mutant: a removal shortens the directory without shifting its records.
NewEntriesUnshifted ==
  IF loc.op = "unlink"
    THEN Front(ReadDirectory(loc.par))
    ELSE Append(ReadDirectory(loc.par), Rec(Last(loc.path), loc.ino))

NewEntries ==
  IF loc.op = "unlink"
    THEN RemoveAt(ReadDirectory(loc.par), Min(Positions(loc.par, Last(loc.path))))
    ELSE Append(ReadDirectory(loc.par), Rec(Last(loc.path), loc.ino))

Entry(ok) ==
  /\ pc = "entry" /\ Outcome(ok)
  /\ IF ~EntryPossible \/ ~ok
       THEN Fail(mem)
       ELSE /\ Goto("wdBlock", [loc EXCEPT !.dir = loc.par, !.ents = NewEntries, !.k = 0,
                                           !.node = ReadInode(loc.par),
                                           !.orig = ReadInode(loc.par)])
            /\ UNCHANGED mem
  /\ UNCHANGED <<dsk, itab, blk, fdt, image>>

\* inode_write_directory, one block of records.
Chunk == SubSeq(loc.ents, loc.k * PerBlock + 1,
                Min({(loc.k + 1) * PerBlock, Len(loc.ents)}))

WriteDirBlock(ok) ==
  /\ pc = "wdBlock" /\ Outcome(ok)
  /\ loc.k * PerBlock < Len(loc.ents)
  /\ LET old == GetBlock(loc.node, loc.k)
         b == IF old = 0 THEN FreeBlockNo(mem) ELSE old
         m == IF old = 0 THEN AllocateBlock(mem) ELSE mem
         node == SetBlock(loc.node, loc.k, b)
     IN  CASE b = None -> Fail(Rollback(mem, loc.orig, loc.node)) /\ UNCHANGED blk
           [] b # None /\ ~ok -> Fail(Rollback(m, loc.orig, node)) /\ UNCHANGED blk
           [] OTHER -> /\ mem' = m
                       /\ blk' = [blk EXCEPT ![b] = DirBlock(Chunk)]
                       /\ Goto("wdBlock", [loc EXCEPT !.node = node, !.k = @ + 1])
  /\ UNCHANGED <<dsk, itab, fdt, image>>

\* inode_write_directory, the inode, and what its caller does next.  A new
\* directory is then entered in its parent, a new file is opened (and its
\* inode read back, which may fail), a deleted file's inode is freed.
WriteDirInode(ok) ==
  /\ pc = "wdBlock" /\ Outcome(ok)
  /\ loc.k * PerBlock >= Len(loc.ents)
  /\ IF ~ok
       THEN Fail(Rollback(mem, loc.orig, loc.node)) /\ UNCHANGED itab
       ELSE /\ WriteInode(loc.dir, [loc.node EXCEPT !.size = Len(loc.ents)])
            /\ mem' = IF loc.op = "unlink" THEN FreeInode(mem, loc.ino) ELSE mem
            /\ CASE loc.op = "open" -> Goto("created", loc)
                 [] loc.op = "mkdir" /\ loc.dir = loc.ino -> Goto("entry", loc)
                 [] OTHER -> Return
  /\ UNCHANGED <<dsk, blk, fdt, image>>

ReadBack(ok) ==
  /\ pc = "created" /\ Outcome(ok)
  /\ IF ok THEN Goto("opened", [NoCall EXCEPT !.op = "open", !.path = loc.path,
                                              !.flags = loc.flags, !.ino = loc.ino,
                                              !.node = ReadInode(loc.ino)])
           ELSE Return
  /\ UNCHANGED <<mem, dsk, itab, blk, fdt, image>>

-----------------------------------------------------------------------------
\* fs_fd_open, the truncation: the blocks are freed first, and stay freed when
\* the inode cannot be written and so keeps pointing to them.
Truncates == {"T", "W"} \subseteq loc.flags

Truncate(ok) ==
  /\ pc = "opened" /\ Truncates /\ Outcome(ok)
  /\ mem' = FreeBlocks(mem, ChainBlocks(loc.node))
  /\ LET node == [FreshInode(loc.node.mode) EXCEPT !.tail = loc.node.tail]
     IN  IF ok THEN /\ WriteInode(loc.ino, node)
                    /\ Goto("truncated", [loc EXCEPT !.node = node])
               ELSE Return /\ UNCHANGED itab
  /\ UNCHANGED <<dsk, blk, fdt, image>>

\* fs_fd_open, the descriptor: the lowest free one, or the -7 return, which
\* undoes neither a creation nor a truncation.
OpenFd ==
  /\ pc = "truncated" \/ (pc = "opened" /\ ~Truncates)
  /\ LET free == {f \in Fd : fdt[f] = NoFd}
         fd == Min(free)
     IN  fdt' = IF free = {} THEN fdt
                ELSE [fdt EXCEPT ![fd] =
                        [ino |-> loc.ino, flags |-> loc.flags,
                         off |-> IF "A" \in loc.flags THEN loc.node.size ELSE 0]]
  /\ Return
  /\ UNCHANGED <<mem, dsk, itab, blk, image>>

\* The indices ahead of a descriptor where the file has block b.
Among(fd, b) ==
  {k \in fdt[fd].off .. itab[fdt[fd].ino].size - 1 : GetBlock(ReadInode(fdt[fd].ino), k) = b}

\* fs_fd_read of n blocks, up to the end of the file or a hole: only the offset
\* changes, and a read error leaves it.
Read(fd, n) ==
  /\ Begin("read")
  /\ fdt[fd] # NoFd /\ "R" \in fdt[fd].flags
  /\ fdt[fd].off < itab[fdt[fd].ino].size
  /\ LET end == Min({fdt[fd].off + n, itab[fdt[fd].ino].size} \cup Among(fd, 0))
     IN  /\ Among(fd, BadBlock) \cap 0 .. end - 1 = {}
         /\ fdt' = [fdt EXCEPT ![fd].off = end]
  /\ UNCHANGED <<mem, dsk, itab, blk, pc, loc, image>>

-----------------------------------------------------------------------------
\* fs_fd_write of n blocks of v.
Write(fd, n, v) ==
  /\ Begin("write")
  /\ fdt[fd] # NoFd /\ "W" \in fdt[fd].flags
  /\ fdt[fd].off + n <= MaxOffset
  /\ LET node == ReadInode(fdt[fd].ino)
     IN  Goto("wrBlock", [NoCall EXCEPT !.op = "write", !.fd = fd, !.ino = fdt[fd].ino,
                                        !.node = node, !.orig = node, !.k = fdt[fd].off,
                                        !.left = n, !.val = v])
  /\ UNCHANGED <<mem, dsk, itab, blk, fdt, image>>

\* One round of its loop: get or allocate the block, then write it.
WriteBlock(ok) ==
  /\ pc = "wrBlock" /\ loc.left > 0 /\ Outcome(ok)
  /\ LET old == GetBlock(loc.node, loc.k)
         b == IF old = 0 THEN FreeBlockNo(mem) ELSE old
         m == IF old = 0 THEN AllocateBlock(mem) ELSE mem
         node == IF old = 0 THEN SetBlock(loc.node, loc.k, b) ELSE loc.node
     IN  CASE b \in {None, BadBlock} ->
                mem' = Rollback(mem, loc.orig, loc.node) /\ Return /\ UNCHANGED blk
           [] b \notin {None, BadBlock} /\ ~ok ->
                mem' = Rollback(m, loc.orig, node) /\ Return /\ UNCHANGED blk
           [] OTHER ->
                /\ mem' = m
                /\ blk' = [blk EXCEPT ![b] = DataBlock(loc.val)]
                /\ Goto("wrBlock", [loc EXCEPT !.node = node, !.k = @ + 1, !.left = @ - 1])
  /\ UNCHANGED <<dsk, itab, fdt, image>>

\* After the loop the offset is moved, then the inode is written: if that
\* fails the blocks are given back, but the offset has moved.
WriteEnd(ok) ==
  /\ pc = "wrBlock" /\ loc.left = 0 /\ Outcome(ok)
  /\ fdt' = [fdt EXCEPT ![loc.fd].off = loc.k]
  /\ IF ok THEN /\ WriteInode(loc.ino, [loc.node EXCEPT !.size = Max({@, loc.k})])
                /\ Goto("flSuper", [NoCall EXCEPT !.op = "write", !.fd = loc.fd])
                /\ UNCHANGED mem
           ELSE /\ mem' = Rollback(mem, loc.orig, loc.node)
                /\ Return /\ UNCHANGED itab
  /\ UNCHANGED <<dsk, blk, image>>

\* fs_fd_close flushes, whatever the flush returns, then forgets the slot.
Close(fd) ==
  /\ Begin("close") /\ fdt[fd] # NoFd
  /\ Goto("flSuper", [NoCall EXCEPT !.op = "close", !.fd = fd])
  /\ UNCHANGED <<mem, dsk, itab, blk, fdt, image>>

\* disk_fs_flush, as in FsAlloc, and the end of the call that made it.
Flushed ==
  /\ fdt' = IF loc.op = "close" THEN [fdt EXCEPT ![loc.fd] = NoFd] ELSE fdt
  /\ Return

FlushSuper(ok) ==
  /\ pc = "flSuper" /\ Outcome(ok)
  /\ ok \/ mem.sbDirty
  /\ dsk' = IF mem.sbDirty /\ ok THEN [dsk EXCEPT !.freeI = mem.freeI, !.freeB = mem.freeB]
                                 ELSE dsk
  /\ image' = IF ok \/ image = "torn" THEN image ELSE "stale"
  /\ mem' = [mem EXCEPT !.sbDirty = FALSE]
  /\ IF mem.bmDirty THEN Goto("flImap", loc) /\ UNCHANGED fdt ELSE Flushed
  /\ UNCHANGED <<itab, blk>>

FlushInodeBitmap(ok) ==
  /\ pc = "flImap" /\ Outcome(ok)
  /\ image' = IF ok \/ image = "torn" THEN image ELSE "stale"
  /\ IF ok THEN /\ dsk' = [dsk EXCEPT !.imap = mem.imap]
                /\ Goto("flBmap", loc) /\ UNCHANGED <<mem, fdt>>
           ELSE /\ mem' = [mem EXCEPT !.bmDirty = FALSE]
                /\ Flushed /\ UNCHANGED dsk
  /\ UNCHANGED <<itab, blk>>

\* Mutant: only the inode bitmap is saved.
FlushBlockBitmapSkipped(ok) ==
  /\ pc = "flBmap" /\ Outcome(ok)
  /\ mem' = [mem EXCEPT !.bmDirty = FALSE]
  /\ Flushed
  /\ UNCHANGED <<dsk, itab, blk, image>>

\* Its second sector has no bits of existing blocks, so it is one write.
FlushBlockBitmap(ok) ==
  /\ pc = "flBmap" /\ Outcome(ok)
  /\ image' = IF ok \/ image = "torn" THEN image ELSE "stale"
  /\ dsk' = IF ok THEN [dsk EXCEPT !.bmap = mem.bmap] ELSE dsk
  /\ mem' = [mem EXCEPT !.bmDirty = FALSE]
  /\ Flushed
  /\ UNCHANGED <<itab, blk>>

-----------------------------------------------------------------------------
\* inode_delete_file, for files and directories alike: the blocks are freed
\* before the record is removed, and a directory need not be empty.
Unlink(p) ==
  /\ Begin("unlink")
  /\ LET i == Resolve(p)
         par == ResolveParent(p)
     IN  /\ i # None /\ par # None
         /\ Shared \/ \A f \in Fd : fdt[f].ino # i
         /\ mem' = FreeBlocks(mem, ChainBlocks(ReadInode(i)))
         /\ Goto("entry", [NoCall EXCEPT !.op = "unlink", !.path = p, !.ino = i, !.par = par])
  /\ UNCHANGED <<dsk, itab, blk, fdt, image>>

\* Power fails at any step and the image is mounted again.  The image is
\* torn if the failure hit a call or left anything unflushed.
PowerFailure ==
  /\ "power" \in Faults
  /\ Reload
  /\ fdt' = [f \in Fd |-> NoFd]
  /\ Return
  /\ image' = IF pc # "idle" \/ mem.sbDirty \/ mem.bmDirty \/ image # "good" THEN "torn" ELSE "good"
  /\ UNCHANGED <<dsk, itab, blk>>

Next ==
  \/ \E fl \in Flags, p \in FilePaths, ok \in BOOLEAN : Open(p, fl, ok)
  \/ \E p \in DirPaths : Mkdir(p)
  \/ \E p \in FilePaths \cup DirPaths : Unlink(p)
  \/ \E fd \in Fd, n \in 1 .. MaxWrite : Read(fd, n)
  \/ \E fd \in Fd, n \in 1 .. MaxWrite, v \in Values : Write(fd, n, v)
  \/ \E fd \in Fd : Close(fd)
  \/ OpenFd
  \/ PowerFailure
  \/ \E ok \in BOOLEAN :
       \/ NewInode(ok) \/ Entry(ok) \/ WriteDirBlock(ok) \/ WriteDirInode(ok)
       \/ ReadBack(ok) \/ Truncate(ok) \/ WriteBlock(ok) \/ WriteEnd(ok)
       \/ FlushSuper(ok) \/ FlushInodeBitmap(ok) \/ FlushBlockBitmap(ok)

Spec == Init /\ [][Next]_vars

InodeSlot == [mode : {"file", "dir"}, size : Nat, direct : [0 .. NDirect - 1 -> Block]]

\* Types (part of RecordsValid).  In particular every pointer on the disk is the number of a block.
TypeOK ==
  /\ mem \in Allocator /\ dsk \in Image
  /\ itab \in [Inode -> InodeSlot]
  /\ \A b \in Block : \A e \in DOMAIN blk[b].ents : blk[b].ents[e].ino \in Inode
  /\ \A f \in Fd : fdt[f] = NoFd \/ (fdt[f].ino \in Inode /\ fdt[f].off \in Nat)
  /\ pc \in {"idle", "newInode", "entry", "wdBlock", "created", "opened", "truncated",
             "wrBlock", "flSuper", "flImap", "flBmap"}
  /\ DOMAIN loc = DOMAIN NoCall /\ loc.node.size \in Nat
  /\ image \in {"good", "stale", "torn"}

InodeBlocks(i) == {itab[i].direct[k] : k \in 0 .. NDirect - 1} \ {0}

\* The inodes that records name, from the root down.  The paths of the callers
\* have at most three names, and so have the paths to anything they made.
Children(S) ==
  UNION {LET es == ReadDirectory(i) IN {es[k].ino : k \in DOMAIN es} : i \in {j \in S : IsDir(j)}}

Reachable ==
  LET first == Children({Root})
      second == Children(first)
      third == Children(second)
  IN  {Root} \cup first \cup second \cup third

Settled == pc = "idle" /\ image # "torn"

\* No block belongs to two files, or twice to one, and none that is in use is
\* free for the next allocation: otherwise a write to one file shows up in
\* another.  Between calls, for the inodes in use.
BlocksDistinct ==
  Settled =>
    /\ \A i \in mem.imap :
         /\ InodeBlocks(i) \subseteq mem.bmap
         /\ \A j, k \in 0 .. NDirect - 1 :
              itab[i].direct[j] = itab[i].direct[k] /\ j # k => itab[i].direct[j] = 0
    /\ \A i, j \in mem.imap : i # j => InodeBlocks(i) \cap InodeBlocks(j) = {}

\* Every block that is marked used belongs to an inode in use (but for block 0,
\* which format lost), and every such inode can be reached by a path: no path
\* of a call, and above all none of its error paths, leaks what it allocated.
NothingLeaked ==
  Settled =>
    /\ mem.bmap \subseteq {0} \cup UNION {InodeBlocks(i) : i \in mem.imap}
    /\ mem.imap \subseteq {0} \cup Reachable

\* A record never names a free inode, which the next creation would hand to
\* another path, and no two records name the same file.
RecordsValid ==
  /\ TypeOK
  /\ Settled =>
      /\ Reachable \subseteq mem.imap
      /\ \A d1, d2 \in Reachable :
           IsDir(d1) /\ IsDir(d2) =>
             LET es1 == ReadDirectory(d1)
                 es2 == ReadDirectory(d2)
             IN  \A j \in DOMAIN es1, k \in DOMAIN es2 :
                   es1[j].ino = es2[k].ino /\ {es1[j].name, es2[k].name} \cap {".", ".."} = {}
                     => d1 = d2 /\ j = k

\* The counters stay exact through all of it.
CountersExact == image # "torn" => Exact(mem)

\* What a read of file i from its start returns.
FileView(i) ==
  [k \in 0 .. itab[i].size - 1 |->
     LET b == GetBlock(ReadInode(i), k)
     IN  IF b \in Block /\ b # 0 THEN blk[b].data ELSE "none"]

\* A call leaves every other file as it is: its contents, size and whether it
\* is a directory.  "Other" is any inode in use the call was not made for; the
\* contents of directories apart, which a call does change in a parent.
Isolation ==
  [][\A i \in (mem.imap \cap mem'.imap) \ {loc.ino, loc'.ino} :
       /\ itab'[i].mode = itab[i].mode
       /\ itab[i].mode = "file" => FileView(i)' = FileView(i)]_vars

-----------------------------------------------------------------------------
(* The inductive invariant (DiskFS_proofs).                                *)

Modes == {"file", "dir"}
Names == {"tmp"} \cup UNION {ToSet(p) : p \in FilePaths \cup DirPaths}

Pointers == [0 .. NDirect - 1 -> Block]
Copies == [mode : Modes, size : Nat, direct : Pointers, tail : Modes]

\* No record but "." and ".." names an inode that format reserved.
SoundRecs ==
  {r \in [name : Names \cup Dots, ino : Inode] : r.ino \in Reserved => r.name \in Dots}

OpenFds == [ino : Inode, off : Nat, flags : SUBSET {"R", "W", "C", "T", "A"}]

CallTypes ==
  [op : {"none", "open", "mkdir", "unlink", "write", "close"},
   path : FilePaths \cup DirPaths \cup {<<>>}, flags : SUBSET {"R", "W", "C", "T", "A"},
   fd : Fd \cup {None}, ino : Inode \cup {None}, par : Inode \cup {None},
   dir : Inode \cup {None}, node : Copies, orig : Copies, ents : Seq(SoundRecs),
   k : Nat, left : Nat, val : Values \cup {"none"}]

Typed ==
  /\ mem \in Allocator /\ dsk \in Image
  /\ itab \in [Inode -> InodeSlot]
  /\ DOMAIN blk = Block /\ \A b \in Block : blk[b].ents \in Seq(SoundRecs)
  /\ fdt \in [Fd -> {NoFd} \cup OpenFds]
  /\ loc \in CallTypes
  /\ image \in {"good", "stale", "torn"}

\* What the steps of a call rely on: an inode that is given back is none of the
\* reserved ones.
CallSound ==
  /\ pc \in {"idle", "newInode", "entry", "wdBlock", "created", "opened", "truncated",
             "wrBlock", "flSuper", "flImap", "flBmap"}
  /\ pc \in {"newInode", "entry", "wdBlock"} => loc.ino \in Inode \ Reserved
  /\ pc \in {"entry", "wdBlock"} => loc.par \in Inode /\ loc.path # <<>>
  /\ pc = "wdBlock" => loc.dir \in Inode
  /\ pc \in {"created", "opened", "truncated"} => loc.ino \in Inode
  /\ pc = "wrBlock" => loc.ino \in Inode /\ loc.fd \in Fd /\ fdt[loc.fd] # NoFd

\* What no dirty flag covers is on a good image.
FlagsMissNothing ==
  image = "good" =>
    /\ ~mem.sbDirty => dsk.freeI = mem.freeI /\ dsk.freeB = mem.freeB
    /\ ~mem.bmDirty => dsk.imap = mem.imap /\ dsk.bmap = mem.bmap
    /\ pc = "flBmap" => dsk.imap = mem.imap

IInv ==
  /\ Typed /\ CallSound
  /\ Reserved \subseteq mem.imap /\ Reserved \subseteq dsk.imap
  /\ CountersExact
  /\ FlagsMissNothing

-----------------------------------------------------------------------------
(* What BlocksDistinct and RecordsValid rest on, through whole calls.      *)

\* The conditions they hold under: no file is deleted or truncated while it is
\* open, none reaches the last direct pointer (ChainBlocks goes on to block 1 from
\* there), a deletion or truncation meets no disk error, and no path that is
\* opened as a file ends like one that is made as a directory.
FileNames == {Last(p) : p \in FilePaths}

Careful ==
  /\ ~Shared
  /\ MaxOffset < NDirect /\ 2 <= MaxEntries /\ MaxEntries <= (NDirect - 1) * PerBlock
  /\ "io" \in Faults =>
       "unlink" \notin Calls /\ \A fl \in Flags : ~ ({"T", "W"} \subseteq fl)
  /\ <<>> \notin FilePaths /\ "tmp" \notin FileNames
  /\ \A q \in DirPaths : q # <<>> => Last(q) \notin FileNames

Creating == pc = "newInode" \/ (loc.op # "unlink" /\ pc \in {"entry", "wdBlock"})
Removing == loc.op = "unlink" /\ pc \in {"entry", "wdBlock"}

\* The inodes in use but for the one being deleted, or not yet written.
Live == mem.imap \ (IF pc = "newInode" \/ Removing THEN {loc.ino} ELSE {})
LiveDirs == {i \in Live : IsDir(i)}

\* The records of a directory, as a removal under way will leave them.
Shifting(i) == pc = "wdBlock" /\ loc.op = "unlink" /\ i = loc.dir
Entries(i) == IF Shifting(i) THEN loc.ents ELSE ReadDirectory(i)

Distinct(ptr) ==
  \A j, k \in 0 .. NDirect - 1 : ptr[j] = ptr[k] /\ j # k => ptr[j] = 0

\* The blocks of a call that no inode on the disk points to yet.
NewBlocks ==
  IF pc \in {"wdBlock", "wrBlock"}
    THEN {loc.node.direct[k] : k \in {j \in 0 .. NDirect - 1 :
                                        loc.orig.direct[j] = 0 /\ loc.node.direct[j] # 0}}
    ELSE {}

\* The inode a call will write back.
Target == IF pc = "wdBlock" THEN loc.dir ELSE loc.ino

BlocksSound ==
  /\ \A i \in Live :
       /\ InodeBlocks(i) \subseteq mem.bmap /\ InodeBlocks(i) \cap NewBlocks = {}
       /\ Distinct(itab[i].direct) /\ itab[i].direct[NDirect - 1] = 0
  /\ \A i, j \in Live : i # j => InodeBlocks(i) \cap InodeBlocks(j) = {}
  /\ NewBlocks \cup {0} \subseteq mem.bmap

\* A copy of an inode agrees with the disk but for the new blocks.
CopySound ==
  pc \in {"wdBlock", "wrBlock", "opened"} =>
    /\ Target \in Live
    /\ loc.node.mode = itab[Target].mode
    /\ HasNeighbour(Target) /\ loc.node.tail = "dir" => itab[Target + 1].mode = "dir"
    /\ Distinct(loc.node.direct) /\ loc.node.direct[NDirect - 1] = 0
    /\ pc = "opened" => loc.node.direct = itab[Target].direct
    /\ pc # "opened" =>
         /\ loc.orig.direct = itab[Target].direct
         /\ \A k \in 0 .. NDirect - 1 :
              itab[Target].direct[k] # 0 => loc.node.direct[k] = itab[Target].direct[k]

\* Does block k of these pointers begin with its share of these records?
HoldsAt(B, ptr, es, k) ==
  /\ ptr[k] # 0
  /\ \A r \in 1 .. PerBlock :
       k * PerBlock + r <= Len(es) =>
         r <= Len(B[ptr[k]].ents) /\ B[ptr[k]].ents[r] = es[k * PerBlock + r]

Holds(B, ptr, es) ==
  \A k \in 0 .. NDirect - 1 : k * PerBlock < Len(es) => HoldsAt(B, ptr, es, k)

\* Directories lie in their blocks without gaps.
DirsLaid ==
  /\ \A b \in Block : Len(blk[b].ents) <= PerBlock
  /\ \A i \in LiveDirs : ~Shifting(i) =>
       /\ Len(ReadDirectory(i)) = itab[i].size
       /\ Holds(blk, itab[i].direct, ReadDirectory(i))

\* Does record k of directory d, not a dot, name inode i?
NamedBy(d, k, i) ==
  k \in DOMAIN Entries(d) /\ Entries(d)[k].name \notin Dots /\ Entries(d)[k].ino = i

\* Is every dot record of i right, if d is its parent?
DotsRight(es, i, d) ==
  \A k \in DOMAIN es : es[k].name \in Dots => es[k].ino = IF es[k].name = "." THEN i ELSE d

RecordsSound ==
  /\ Root \in LiveDirs => \A k \in DOMAIN Entries(Root) : Entries(Root)[k].name \notin Dots
  /\ \A d \in LiveDirs, i \in Inode : \A k \in DOMAIN Entries(d) :
       NamedBy(d, k, i) =>
         /\ i \in mem.imap /\ i # d
         /\ IsDir(i) => Entries(d)[k].name \notin FileNames
         /\ i \in LiveDirs => DotsRight(Entries(i), i, d)
  /\ \A d1, d2 \in LiveDirs : \A i \in Inode :
       \A j \in DOMAIN Entries(d1), k \in DOMAIN Entries(d2) :
         NamedBy(d1, j, i) /\ NamedBy(d2, k, i) => d1 = d2 /\ j = k

\* Open files are files in use.
FilesSound ==
  /\ \A f \in Fd : fdt[f] # NoFd => fdt[f].ino \in Live /\ ~IsDir(fdt[f].ino)
  /\ pc \in {"created", "opened", "truncated"} =>
       loc.op = "open" /\ loc.ino \in Live /\ ~IsDir(loc.ino)
  /\ pc = "wrBlock" => loc.ino = fdt[loc.fd].ino /\ loc.k + loc.left <= MaxOffset

\* No record names a new inode before its own, and no record but the one to be
\* removed names one that is being deleted.
CreationSound ==
  Creating =>
    /\ loc.op \in {"open", "mkdir"} /\ loc.ino \in mem.imap
    /\ (pc = "newInode" => loc.k = 0)
    /\ loc.path \in IF loc.op = "open" THEN FilePaths ELSE DirPaths
    /\ \A d \in LiveDirs : \A k \in DOMAIN Entries(d) : ~NamedBy(d, k, loc.ino)
    /\ \A f \in Fd : fdt[f] # NoFd => fdt[f].ino # loc.ino
    /\ pc # "newInode" => loc.par \in Live /\ loc.par # loc.ino
    /\ pc # "newInode" /\ loc.op = "open" => ~IsDir(loc.ino)
    /\ (pc = "entry" \/ (pc = "wdBlock" /\ loc.dir = loc.par)) /\ IsDir(loc.ino) =>
           /\ \A k \in DOMAIN Entries(loc.ino) : Entries(loc.ino)[k].name \in Dots
           /\ DotsRight(Entries(loc.ino), loc.ino, loc.par)
    /\ pc = "wdBlock" =>
         \/ /\ loc.op = "mkdir" /\ loc.dir = loc.ino
            /\ loc.ents = <<Rec(".", loc.ino), Rec("..", loc.par)>>
            /\ itab[loc.ino].size = 0
         \/ /\ loc.dir = loc.par /\ IsDir(loc.par)
            /\ loc.ents = Append(ReadDirectory(loc.par), Rec(Last(loc.path), loc.ino))

RemovalSound ==
  Removing =>
    /\ "unlink" \in Calls /\ loc.par \in LiveDirs
    /\ \A f \in Fd : fdt[f] # NoFd => fdt[f].ino # loc.ino
    /\ pc = "entry" =>
         /\ Last(loc.path) \notin Dots
         /\ FindEntry(loc.par, Last(loc.path)) = loc.ino
    /\ pc = "wdBlock" =>
         /\ loc.dir = loc.par
         /\ \A d \in LiveDirs : \A k \in DOMAIN Entries(d) : ~NamedBy(d, k, loc.ino)
         /\ \A k \in 0 .. NDirect - 1 :
              k * PerBlock < Len(loc.ents) => loc.orig.direct[k] # 0

\* The blocks of records that were written so far.
WritingSound ==
  pc = "wdBlock" =>
    /\ Len(loc.ents) <= MaxEntries
    /\ \A k \in 0 .. NDirect - 1 :
         k < loc.k => HoldsAt(blk, loc.node.direct, loc.ents, k)

TreeSound ==
  /\ BlocksSound /\ CopySound /\ DirsLaid /\ RecordsSound
  /\ FilesSound /\ CreationSound /\ RemovalSound /\ WritingSound
  /\ loc.op = "open" => loc.flags \in Flags

\* In every step of every call: each inode in use owns its blocks alone, each
\* directory's records lie in its blocks in order and name inodes in use, once
\* each, and a call under way holds what it took and no more.
Tree == image # "torn" => TreeSound

-----------------------------------------------------------------------------
(* What Isolation rests on besides.                                        *)

\* No directories are made: one with an odd number becomes a file when the inode
\* before it is created (see WriteInode), and deleting one loses what is in it.
Plain == Careful /\ DirPaths = {}

\* The inodes in use whose slot on the disk was written.
Written == mem.imap \ (IF pc = "newInode" THEN {loc.ino} ELSE {})

\* The only directories are those of format, and no file passes its direct pointers.
FilesSmall ==
  /\ \A i \in Written : IsDir(i) <=> i \in {Root, Tmp}
  /\ \A i \in Written : ~IsDir(i) => itab[i].size <= MaxOffset
  /\ pc = "wrBlock" => loc.node.size <= MaxOffset

\* The inodes of format are no file's: neither inode 0, the root's neighbour, nor /tmp's.
FormatKept ==
  /\ Tmp \in Written
  /\ pc \in {"newInode", "entry", "wdBlock"} => loc.ino # Tmp
  /\ \A f \in Fd : fdt[f].ino # 0
  /\ pc \in {"created", "opened", "truncated", "wrBlock"} => loc.ino # 0

Small == image # "torn" => FilesSmall /\ FormatKept

-----------------------------------------------------------------------------
(* What NothingLeaked rests on besides.                                    *)

\* What is marked used is an inode's, or on its way to be.
BlocksOwned == mem.bmap \subseteq {0} \cup NewBlocks \cup UNION {InodeBlocks(i) : i \in Live}

\* Every inode has its record, but for the root and for one that is being created.
Named(i) == \E d \in {Root, Tmp} : \E k \in DOMAIN Entries(d) : NamedBy(d, k, i)
InodesNamed == \A i \in Live \ {0, Root} : Named(i) \/ (Creating /\ i = loc.ino)

\* A file that has no record yet has no blocks that its inode could lose.
NewFileEmpty ==
  Creating /\ pc # "newInode" => \A k \in 0 .. NDirect - 1 : itab[loc.ino].direct[k] = 0

\* Without disk errors, files have the blocks below their size and no others, and a
\* descriptor is never past the end of its file.
FilesFilled ==
  /\ \A i \in Live : ~IsDir(i) =>
       \A k \in 0 .. NDirect - 1 : itab[i].direct[k] # 0 <=> k < itab[i].size
  /\ \A f \in Fd : fdt[f] # NoFd => fdt[f].off <= itab[fdt[f].ino].size
  /\ pc \in {"opened", "truncated", "wrBlock"} => loc.node.size = itab[loc.ino].size
  /\ pc = "created" \/ (pc = "opened" /\ "T" \in loc.flags) =>
       \A f \in Fd : fdt[f] # NoFd => fdt[f].ino # loc.ino
  /\ pc = "wrBlock" =>
       \A k \in 0 .. NDirect - 1 :
         loc.node.direct[k] # 0 <=> (k < loc.node.size \/ k < loc.k)

OwnSound ==
  /\ BlocksOwned /\ InodesNamed /\ NewFileEmpty
  /\ "io" \notin Faults => FilesFilled

\* In every step of every call: nothing is used that no path and no call leads to.
Owned == image # "torn" => OwnSound
=============================================================================
