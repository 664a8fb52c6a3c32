------------------------------ MODULE FsAlloc ------------------------------
(***************************************************************************)
(* The life of the allocator state of src/myos/filesystem_disk.c: callers  *)
(* allocate and free blocks and inodes in memory, disk_fs_flush writes the *)
(* superblock and the two bitmaps back one sector group at a time, any of  *)
(* those writes may fail, and the machine may lose power between two       *)
(* writes and mount the image again (disk_fs_init).                        *)
(*                                                                         *)
(* The steps of one flush are separate actions because each is a separate  *)
(* disk write; everything else happens in memory and is one action.  No    *)
(* allocation happens between two steps of a flush here: the flush is one  *)
(* call, and a second context entering the allocator during it is outside  *)
(* this module.                                                            *)
(***************************************************************************)
EXTENDS FsBitmap

VARIABLES
  mem,    \* the static variables of filesystem_disk.c
  dsk,    \* superblock and bitmap sectors as they are on the disk
  pc,     \* where disk_fs_flush is: "idle", or before saving "imap" or "bmap"
  stale,  \* history: parts whose last write failed, so that disk and memory
          \* differ although the dirty flag is clear
  torn    \* history: some mount loaded an image left by an interrupted flush
          \* or by one with failed writes

vars == <<mem, dsk, pc, stale, torn>>

Part == {"sb", "imap", "bmap"}

Init ==
  /\ mem = Load(Formatted)
  /\ dsk = Formatted
  /\ pc = "idle"
  /\ stale = {}
  /\ torn = FALSE

\* A caller allocates or frees.  Every caller frees only what it read from an
\* inode or an indirect block, which may be any number, except that the two
\* reserved inodes are never freed: no path resolves to inode 0 and the root
\* has no name to delete it by.
Call(m) ==
  /\ pc = "idle"
  /\ mem' = m
  /\ UNCHANGED <<dsk, pc, stale, torn>>

AllocBlockCall == Call(AllocateBlock(mem))
AllocInodeCall == Call(AllocateInode(mem))
FreeBlockCall(b) == Call(FreeBlock(mem, b))
FreeInodeCall(i) == i \notin Reserved /\ Call(FreeInode(mem, i))

\* A write of part p that succeeds or fails: the caller has already decided
\* the new disk contents d for the success case.
Written(p, ok, d) ==
  /\ dsk' = IF ok THEN d ELSE dsk
  /\ stale' = IF ok THEN stale \ {p} ELSE stale \cup {p}

\* disk_fs_flush, the superblock: the flag is cleared even if the write fails.
FlushSuper(ok) ==
  /\ pc = "idle"
  /\ IF mem.sbDirty
       THEN Written("sb", ok, [dsk EXCEPT !.freeI = mem.freeI, !.freeB = mem.freeB])
       ELSE UNCHANGED <<dsk, stale>>
  /\ mem' = [mem EXCEPT !.sbDirty = FALSE]
  /\ pc' = IF mem.bmDirty THEN "imap" ELSE "idle"
  /\ UNCHANGED torn

\* disk_fs_flush, save_inode_bitmap: if it fails, || skips the block bitmap
\* and the flag is cleared all the same.
FlushInodeBitmap(ok) ==
  /\ pc = "imap"
  /\ dsk' = IF ok THEN [dsk EXCEPT !.imap = mem.imap] ELSE dsk
  /\ stale' = IF ok THEN stale \ {"imap"} ELSE stale \cup {"imap", "bmap"}
  /\ pc' = IF ok THEN "bmap" ELSE "idle"
  /\ mem' = IF ok THEN mem ELSE [mem EXCEPT !.bmDirty = FALSE]
  /\ UNCHANGED torn

\* disk_fs_flush, save_block_bitmap.  Only the first of its two sectors holds
\* bits of existing blocks, so it is one write here.
FlushBlockBitmap(ok) ==
  /\ pc = "bmap"
  /\ Written("bmap", ok, [dsk EXCEPT !.bmap = mem.bmap])
  /\ pc' = "idle"
  /\ mem' = [mem EXCEPT !.bmDirty = FALSE]
  /\ UNCHANGED torn

\* Power is lost at any moment and the image is mounted again: memory is what
\* the disk holds, whatever had been written of a flush.
Remount ==
  /\ mem' = Load(dsk)
  /\ pc' = "idle"
  /\ torn' = (torn \/ pc # "idle" \/ stale # {})
  /\ stale' = {}
  /\ UNCHANGED dsk

Next ==
  \/ AllocBlockCall
  \/ AllocInodeCall
  \/ \E b \in Block : FreeBlockCall(b)
  \/ \E i \in Inode : FreeInodeCall(i)
  \/ \E ok \in BOOLEAN : FlushSuper(ok)
  \/ \E ok \in BOOLEAN : FlushInodeBitmap(ok)
  \/ \E ok \in BOOLEAN : FlushBlockBitmap(ok)
  \/ Remount

Spec == Init /\ [][Next]_vars

-----------------------------------------------------------------------------
\* Types.  The counters stay within 0 .. total even after a torn mount, when
\* they no longer match the bitmaps: that is what the guards in the allocator
\* (filesystem_disk.c:262, 279, 302, 319) are for.
TypeOK ==
  /\ mem \in Allocator
  /\ dsk \in Image
  /\ pc \in {"idle", "imap", "bmap"}
  /\ stale \in SUBSET Part
  /\ torn \in BOOLEAN

\* The cached counters agree with the bitmaps after any sequence of calls,
\* flushes, failed flushes and power failures, unless an image left by an
\* interrupted or failed flush was mounted: `df` and `free` report the truth.
CountersExact == ~torn => Exact(mem)

\* The dirty flags miss nothing: between flushes, a part of the image whose
\* flag is clear and whose last write did not fail is on the disk as it is in
\* memory, so a power failure then loses no allocation and no free.
CleanIsOnDisk ==
  pc = "idle" =>
    /\ ~mem.sbDirty /\ "sb" \notin stale
         => dsk.freeI = mem.freeI /\ dsk.freeB = mem.freeB
    /\ ~mem.bmDirty /\ "imap" \notin stale => dsk.imap = mem.imap
    /\ ~mem.bmDirty /\ "bmap" \notin stale => dsk.bmap = mem.bmap

\* The inductive invariant behind the two properties: the flags move together
\* outside a flush, the parts a flush has passed are already on the disk, and
\* between flushes the image itself is exact, which is what a mount will load.
IInv ==
  /\ TypeOK
  /\ Reserved \subseteq mem.imap /\ Reserved \subseteq dsk.imap
  /\ CountersExact
  /\ ~torn /\ pc = "idle" /\ stale = {} => Exact(dsk)
  /\ IF pc = "idle" THEN mem.sbDirty = mem.bmDirty ELSE ~mem.sbDirty /\ mem.bmDirty
  /\ ~mem.sbDirty /\ "sb" \notin stale
       => dsk.freeI = mem.freeI /\ dsk.freeB = mem.freeB
  /\ pc = "bmap" => "imap" \notin stale
  /\ (IF pc = "idle" THEN ~mem.bmDirty ELSE pc = "bmap") /\ "imap" \notin stale
       => dsk.imap = mem.imap
  /\ pc = "idle" /\ ~mem.bmDirty /\ "bmap" \notin stale => dsk.bmap = mem.bmap

=============================================================================
