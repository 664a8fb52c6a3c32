------------------------------ MODULE FsBitmap ------------------------------
(***************************************************************************)
(* The block and inode allocators of src/myos/filesystem_disk.c as pure    *)
(* operators on the allocator's state.                                     *)
(*                                                                         *)
(* The C file keeps that state in static variables: the two bitmaps, the   *)
(* cached superblock (of which only the two free counters change after     *)
(* format) and two dirty flags.  Here it is one record m:                  *)
(*                                                                         *)
(*   m.imap, m.bmap   inode_bitmap, block_bitmap, as the set of set bits   *)
(*   m.freeI, m.freeB cached_superblock.free_inodes, .free_blocks          *)
(*   m.bmDirty        bitmap_dirty                                         *)
(*   m.sbDirty        superblock_dirty                                     *)
(***************************************************************************)
EXTENDS Integers, FiniteSets

CONSTANTS
  NBlocks,   \* FS_TOTAL_BLOCKS (2048)
  NInodes    \* FS_TOTAL_INODES (4096)

\* Format reserves inodes 0 and 1, so a file system has at least those two.
ASSUME SizeAssumption == NBlocks \in Nat /\ NInodes \in Nat /\ NInodes >= 2

Block == 0 .. NBlocks - 1
Inode == 0 .. NInodes - 1

\* The -1 the allocators return when nothing is free.
None == -1

\* Inodes 0 and 1 are marked used by format and never freed.
Reserved == {0, 1}

Allocator ==
  [imap : SUBSET Inode, bmap : SUBSET Block,
   freeI : 0 .. NInodes, freeB : 0 .. NBlocks,
   bmDirty : BOOLEAN, sbDirty : BOOLEAN]

\* What disk_fs_flush writes and disk_fs_init reads back.
Image ==
  [imap : SUBSET Inode, bmap : SUBSET Block,
   freeI : 0 .. NInodes, freeB : 0 .. NBlocks]

\* bitmap_find_free: the lowest clear bit, or -1.
FindFree(used, bits) ==
  IF bits \subseteq used
    THEN None
    ELSE CHOOSE x \in bits \ used : \A y \in bits \ used : x <= y

FreeBlockNo(m) == FindFree(m.bmap, Block)
FreeInodeNo(m) == FindFree(m.imap, Inode)

\* disk_allocate_block: the state after the call that returns FreeBlockNo(m).
AllocateBlock(m) ==
  IF FreeBlockNo(m) = None
    THEN m
    ELSE [m EXCEPT !.bmap = @ \cup {FreeBlockNo(m)},
                   !.freeB = IF @ > 0 THEN @ - 1 ELSE @,
                   !.bmDirty = TRUE, !.sbDirty = TRUE]

\* Mutant: a free that does not look whether the bit is set.
FreeBlockUnchecked(m, b) ==
  IF b \in Block
    THEN [m EXCEPT !.bmap = @ \ {b},
                   !.freeB = IF @ < NBlocks THEN @ + 1 ELSE @,
                   !.bmDirty = TRUE, !.sbDirty = TRUE]
    ELSE m

\* disk_free_block: freeing a free or an out-of-range block does nothing.
FreeBlock(m, b) ==
  IF b \in Block /\ b \in m.bmap
    THEN [m EXCEPT !.bmap = @ \ {b},
                   !.freeB = IF @ < NBlocks THEN @ + 1 ELSE @,
                   !.bmDirty = TRUE, !.sbDirty = TRUE]
    ELSE m

\* Mutant: the bitmap is not marked dirty.
AllocateInodeClean(m) ==
  IF FreeInodeNo(m) = None
    THEN m
    ELSE [m EXCEPT !.imap = @ \cup {FreeInodeNo(m)},
                   !.freeI = IF @ > 0 THEN @ - 1 ELSE @, !.sbDirty = TRUE]

\* inode_allocate: the state after the call that returns FreeInodeNo(m).
AllocateInode(m) ==
  IF FreeInodeNo(m) = None
    THEN m
    ELSE [m EXCEPT !.imap = @ \cup {FreeInodeNo(m)},
                   !.freeI = IF @ > 0 THEN @ - 1 ELSE @,
                   !.bmDirty = TRUE, !.sbDirty = TRUE]

\* inode_free: freeing a free or an out-of-range inode does nothing.
FreeInode(m, i) ==
  IF i \in Inode /\ i \in m.imap
    THEN [m EXCEPT !.imap = @ \ {i},
                   !.freeI = IF @ < NInodes THEN @ + 1 ELSE @,
                   !.bmDirty = TRUE, !.sbDirty = TRUE]
    ELSE m

\* disk_fs_init: the static variables after loading an image from disk.
Load(d) ==
  [imap |-> d.imap, bmap |-> d.bmap, freeI |-> d.freeI, freeB |-> d.freeB,
   bmDirty |-> FALSE, sbDirty |-> FALSE]

\* disk_fs_format, its allocator part: both counters start at the totals and
\* the two reserved inode bits are set without decrementing free_inodes.
Formatted ==
  [imap |-> Reserved, bmap |-> {}, freeI |-> NInodes, freeB |-> NBlocks]

\* Does a counter pair agree with a bitmap pair?  free_blocks counts the clear
\* bits; free_inodes counts them plus the two reserved inodes, which format
\* marks used without decrementing it.
Exact(m) ==
  /\ m.freeB = Cardinality(Block \ m.bmap)
  /\ m.freeI = Cardinality(Inode \ m.imap) + Cardinality(Reserved)

=============================================================================
