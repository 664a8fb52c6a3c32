-------------------------- MODULE FsAlloc_proofs --------------------------
(***************************************************************************)
(* Proofs about FsAlloc: the counters and the dirty flags of the allocator *)
(* are right for every number of blocks and inodes.                        *)
(***************************************************************************)
EXTENDS FsAlloc, FsBitmap_proofs

\* An allocator call that keeps mem's type, its exactness and the reserved
\* inodes, and either changes nothing or sets both dirty flags, keeps IInv.
LEMMA CallKeeps ==
  ASSUME IInv, NEW m \in Allocator, Call(m),
         Sound(mem) => Sound(m),
         Reserved \subseteq m.imap,
         m = mem \/ (m.sbDirty /\ m.bmDirty)
  PROVE  IInv'
<1>1. CASE m = mem
  BY <1>1 DEF IInv, TypeOK, CountersExact, Call
<1>2. CASE m.sbDirty /\ m.bmDirty
  BY <1>2 DEF IInv, TypeOK, CountersExact, Call, Sound
<1> QED BY <1>1, <1>2

\* The allocators either find nothing free or set both dirty flags, and never
\* touch the reserved inodes.
LEMMA CallShape ==
  ASSUME NEW m \in Allocator
  PROVE  /\ \/ AllocateBlock(m) = m
            \/ AllocateBlock(m).sbDirty /\ AllocateBlock(m).bmDirty
         /\ AllocateBlock(m).imap = m.imap
         /\ \/ AllocateInode(m) = m
            \/ AllocateInode(m).sbDirty /\ AllocateInode(m).bmDirty
         /\ m.imap \subseteq AllocateInode(m).imap
         /\ \A b : /\ \/ FreeBlock(m, b) = m
                      \/ FreeBlock(m, b).sbDirty /\ FreeBlock(m, b).bmDirty
                   /\ FreeBlock(m, b).imap = m.imap
         /\ \A i : /\ \/ FreeInode(m, i) = m
                      \/ FreeInode(m, i).sbDirty /\ FreeInode(m, i).bmDirty
                   /\ m.imap \ {i} \subseteq FreeInode(m, i).imap
BY DEF AllocateBlock, AllocateInode, FreeBlock, FreeInode, Allocator

LEMMA InitIInv == Init => IInv
<1> SUFFICES ASSUME Init  PROVE IInv
  OBVIOUS
<1>0. NBlocks \in Nat /\ NInodes \in Nat /\ NInodes >= 2
  BY SizeAssumption
<1>1. Reserved \subseteq Inode /\ Reserved = {0, 1}
  BY IndexSets DEF Reserved
<1>2. TypeOK
  <2>1. NInodes \in 0 .. NInodes /\ NBlocks \in 0 .. NBlocks
    BY <1>0
  <2>2. Formatted \in Image
    BY <1>1, <2>1 DEF Formatted, Image
  <2>3. Load(Formatted) \in Allocator
    BY <2>2 DEF Load, Image, Allocator
  <2> QED BY <2>2, <2>3 DEF Init, TypeOK
<1>3. Exact(Formatted)
  <2>1. Block \ {} = Block
    OBVIOUS
  <2>2. NInodes = (NInodes - 2) + 2
    BY <1>0
  <2> QED BY <2>1, <2>2, IndexSets, ReservedSize DEF Exact, Formatted
<1>4. Exact(mem) /\ Exact(dsk)
  BY <1>3 DEF Init, Load, Formatted, Exact
<1> QED BY <1>2, <1>4 DEF Init, IInv, CountersExact, Load, Formatted

LEMMA NextIInv == IInv /\ [Next]_vars => IInv'
<1> SUFFICES ASSUME IInv, [Next]_vars  PROVE IInv'
  OBVIOUS
<1>0. mem \in Allocator /\ dsk \in Image /\ Reserved \subseteq mem.imap
  BY DEF IInv, TypeOK
<1>1. ASSUME AllocBlockCall  PROVE IInv'
  <2>1. AllocateBlock(mem) \in Allocator /\ (Sound(mem) => Sound(AllocateBlock(mem)))
    BY <1>0, AllocateBlockKeeps
  <2> QED BY <1>0, <1>1, <2>1, CallKeeps, CallShape DEF AllocBlockCall
<1>2. ASSUME AllocInodeCall  PROVE IInv'
  <2>1. AllocateInode(mem) \in Allocator /\ (Sound(mem) => Sound(AllocateInode(mem)))
    BY <1>0, AllocateInodeKeeps
  <2>2. Reserved \subseteq AllocateInode(mem).imap
    BY <1>0, CallShape
  <2> QED BY <1>0, <1>2, <2>1, <2>2, CallKeeps, CallShape DEF AllocInodeCall
<1>3. ASSUME NEW b \in Block, FreeBlockCall(b)  PROVE IInv'
  <2>1. FreeBlock(mem, b) \in Allocator /\ (Sound(mem) => Sound(FreeBlock(mem, b)))
    BY <1>0, FreeBlockKeeps
  <2> QED BY <1>0, <1>3, <2>1, CallKeeps, CallShape DEF FreeBlockCall
<1>4. ASSUME NEW i \in Inode, FreeInodeCall(i)  PROVE IInv'
  <2>0. i \notin Reserved /\ Call(FreeInode(mem, i))
    BY <1>4 DEF FreeInodeCall
  <2>1. FreeInode(mem, i) \in Allocator /\ (Sound(mem) => Sound(FreeInode(mem, i)))
    BY <1>0, <2>0, FreeInodeKeeps
  <2>2. Reserved \subseteq FreeInode(mem, i).imap
    BY <1>0, <2>0, CallShape
  <2> QED BY <1>0, <2>0, <2>1, <2>2, CallKeeps, CallShape
<1>5. ASSUME NEW ok \in BOOLEAN, FlushSuper(ok)  PROVE IInv'
  BY <1>5 DEF FlushSuper, Written, IInv, TypeOK, CountersExact, Exact, Allocator, Image, Part
<1>6. ASSUME NEW ok \in BOOLEAN, FlushInodeBitmap(ok)  PROVE IInv'
  BY <1>6 DEF FlushInodeBitmap, IInv, TypeOK, CountersExact, Exact, Allocator, Image, Part
<1>7. ASSUME NEW ok \in BOOLEAN, FlushBlockBitmap(ok)  PROVE IInv'
  BY <1>7 DEF FlushBlockBitmap, Written, IInv, TypeOK, CountersExact, Exact, Allocator, Image, Part
<1>8. ASSUME Remount  PROVE IInv'
  BY <1>8 DEF Remount, Load, IInv, TypeOK, CountersExact, Exact, Allocator, Image, Part
<1>9. CASE UNCHANGED vars
  BY <1>9 DEF vars, IInv, TypeOK, CountersExact
<1> QED BY <1>1, <1>2, <1>3, <1>4, <1>5, <1>6, <1>7, <1>8, <1>9 DEF Next

-----------------------------------------------------------------------------
\* The allocator's state is well typed and its inductive invariant holds on
\* every file system, through failed flushes and power failures
\* (filesystem_disk.c:251-324, 452-583).
THEOREM InvariantHolds == Spec => []IInv
BY InitIInv, NextIInv, PTL DEF Spec

\* The types of the allocator's state: in particular the two counters never
\* leave 0 .. total, not even when a torn image was mounted.
THEOREM TypeCorrect == Spec => []TypeOK
<1>1. IInv => TypeOK
  BY DEF IInv
<1> QED BY <1>1, InvariantHolds, PTL

\* For every disk size, free_blocks and free_inodes match the bitmaps unless
\* the image of an interrupted or failed flush was mounted.
THEOREM CountersAreExact == Spec => []CountersExact
<1>1. IInv => CountersExact
  BY DEF IInv
<1> QED BY <1>1, InvariantHolds, PTL

\* For every disk size, whatever is not flagged dirty and was not lost in a
\* failed write is on the disk between flushes.
THEOREM CleanPartsAreOnDisk == Spec => []CleanIsOnDisk
<1>1. IInv => CleanIsOnDisk
  BY DEF IInv, CleanIsOnDisk
<1> QED BY <1>1, InvariantHolds, PTL

=============================================================================
