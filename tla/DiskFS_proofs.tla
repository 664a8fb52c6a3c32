--------------------------- MODULE DiskFS_proofs ---------------------------
(***************************************************************************)
(* Proofs about DiskFS: what holds of the file system through whole calls, *)
(* for every size of the disk and every set of paths.                      *)
(***************************************************************************)
EXTENDS DiskFS, FsBitmap_proofs, SequenceTheorems

-----------------------------------------------------------------------------
(* What calls do to the allocator.                                         *)

\* The allocator after some of its calls: counters that were right are still
\* right, the reserved inodes are still in use, and whatever changed is flagged.
After(m, n) ==
  /\ n \in Allocator
  /\ Sound(m) => Sound(n)
  /\ Reserved \subseteq m.imap => Reserved \subseteq n.imap
  /\ n = m \/ (n.sbDirty /\ n.bmDirty)

LEMMA AfterNothing == ASSUME NEW m \in Allocator  PROVE After(m, m)
BY DEF After

LEMMA AfterBoth ==
  ASSUME NEW m, NEW n, NEW o, After(m, n), After(n, o)
  PROVE  After(m, o)
BY Zenon DEF After

LEMMA AfterAllocateBlock == ASSUME NEW m \in Allocator  PROVE After(m, AllocateBlock(m))
<1>1. AllocateBlock(m) \in Allocator /\ (Sound(m) => Sound(AllocateBlock(m)))
  BY AllocateBlockKeeps
<1>2. AllocateBlock(m).imap = m.imap
  BY DEF AllocateBlock, Allocator
<1>3. AllocateBlock(m) = m \/ (AllocateBlock(m).sbDirty /\ AllocateBlock(m).bmDirty)
  BY DEF AllocateBlock, Allocator
<1> QED BY <1>1, <1>2, <1>3 DEF After

LEMMA AfterAllocateInode == ASSUME NEW m \in Allocator  PROVE After(m, AllocateInode(m))
<1>1. AllocateInode(m) \in Allocator /\ (Sound(m) => Sound(AllocateInode(m)))
  BY AllocateInodeKeeps
<1>2. m.imap \subseteq AllocateInode(m).imap
  BY DEF AllocateInode, Allocator
<1>3. AllocateInode(m) = m \/ (AllocateInode(m).sbDirty /\ AllocateInode(m).bmDirty)
  BY DEF AllocateInode, Allocator
<1> QED BY <1>1, <1>2, <1>3 DEF After

LEMMA AfterFreeInode ==
  ASSUME NEW m \in Allocator, NEW i, i \notin Reserved
  PROVE  After(m, FreeInode(m, i))
<1>1. FreeInode(m, i) \in Allocator /\ (Sound(m) => Sound(FreeInode(m, i)))
  BY FreeInodeKeeps
<1>2. m.imap \ {i} \subseteq FreeInode(m, i).imap
  BY DEF FreeInode, Allocator
<1>3. FreeInode(m, i) = m \/ (FreeInode(m, i).sbDirty /\ FreeInode(m, i).bmDirty)
  BY DEF FreeInode, Allocator
<1> QED BY <1>1, <1>2, <1>3 DEF After

\* Freeing a set of blocks counts each of them that was in use once.
LEMMA AfterFreeBlocks ==
  ASSUME NEW m \in Allocator, NEW B
  PROVE  After(m, FreeBlocks(m, B))
<1> DEFINE used == B \cap m.bmap
<1> DEFINE c == Cardinality(used)
<1> DEFINE free == IF m.freeB + c < NBlocks THEN m.freeB + c ELSE NBlocks
<1>0. m.bmap \in SUBSET Block /\ m.freeB \in 0 .. NBlocks /\ NBlocks \in Nat
  BY SizeAssumption DEF Allocator
<1>1. CASE used = {}
  BY <1>1, AfterNothing DEF FreeBlocks
<1>2. CASE used # {}
  <2>1. FreeBlocks(m, B) = [m EXCEPT !.bmap = @ \ used, !.freeB = free,
                                     !.bmDirty = TRUE, !.sbDirty = TRUE]
    BY <1>2 DEF FreeBlocks
  <2>2. IsFiniteSet(used) /\ c \in Nat
    <3>1. used \in SUBSET Block /\ IsFiniteSet(Block)
      BY <1>0, IndexSets
    <3> HIDE DEF used
    <3>2. IsFiniteSet(used)
      BY <3>1, FS_Subset, Zenon
    <3> QED BY <3>2, FS_CardinalityType, Zenon
  <2>3. free \in 0 .. NBlocks /\ m.bmap \ used \in SUBSET Block
    <3> HIDE DEF c
    <3> QED BY <1>0, <2>2
  <2> HIDE DEF free
  <2>4. /\ FreeBlocks(m, B) \in Allocator
        /\ FreeBlocks(m, B).imap = m.imap /\ FreeBlocks(m, B).freeI = m.freeI
        /\ FreeBlocks(m, B).bmap = m.bmap \ used /\ FreeBlocks(m, B).freeB = free
        /\ FreeBlocks(m, B).sbDirty /\ FreeBlocks(m, B).bmDirty
    <3> DEFINE bmap == m.bmap \ used
    <3>1. bmap \in SUBSET Block /\ free \in 0 .. NBlocks
      BY <2>3
    <3>2. FreeBlocks(m, B) = [m EXCEPT !.bmap = bmap, !.freeB = free,
                                       !.bmDirty = TRUE, !.sbDirty = TRUE]
      BY <2>1
    <3> HIDE DEF bmap
    <3>3. FreeBlocks(m, B) \in Allocator
      BY <3>1, <3>2 DEF Allocator
    <3>4. /\ FreeBlocks(m, B).imap = m.imap /\ FreeBlocks(m, B).freeI = m.freeI
          /\ FreeBlocks(m, B).bmap = bmap /\ FreeBlocks(m, B).freeB = free
      BY <3>2 DEF Allocator
    <3>5. FreeBlocks(m, B).sbDirty /\ FreeBlocks(m, B).bmDirty
      BY <3>2 DEF Allocator
    <3> QED BY <3>3, <3>4, <3>5 DEF bmap
  <2>5. ASSUME Sound(m)  PROVE Sound(FreeBlocks(m, B))
    <3> DEFINE clear == Block \ m.bmap
    <3>1. IsFiniteSet(clear) /\ IsFiniteSet(Block) /\ Cardinality(Block) = NBlocks
      BY IndexSets, FS_Subset, clear \in SUBSET Block, Zenon
    <3>2. Cardinality(clear \cup used) =
            Cardinality(clear) + Cardinality(used) - Cardinality(clear \cap used)
      <4> HIDE DEF clear, used
      <4> QED BY <2>2, <3>1, FS_Union, Zenon
    <3>3. clear \cap used = {} /\ Cardinality({}) = 0
      BY FS_EmptySet
    <3>4. Block \ (m.bmap \ used) = clear \cup used
      BY <1>0
    <3>5. clear \cup used \in SUBSET Block
      BY <1>0
    <3>6. Cardinality(clear \cup used) <= NBlocks
      <4> HIDE DEF clear, used
      <4> QED BY <3>1, <3>5, FS_Subset, Zenon
    <3>7. Cardinality(clear) \in Nat
      <4> HIDE DEF clear
      <4> QED BY <3>1, FS_CardinalityType, Zenon
    <3>8. m.freeB = Cardinality(clear)
      BY <2>5 DEF Sound, Exact
    <3>9. free = Cardinality(clear \cup used)
      <4>1. Cardinality(clear \cup used) = Cardinality(clear) + c
        <5>1. Cardinality(clear \cap used) = 0
          BY <3>3
        <5> HIDE DEF clear, used
        <5> QED BY <2>2, <3>2, <3>7, <5>1
      <4> HIDE DEF clear, used, c
      <4> QED BY <1>0, <2>2, <3>6, <3>7, <3>8, <4>1 DEF free
    <3> HIDE DEF clear, used, c
    <3> QED BY <2>4, <2>5, <3>4, <3>9 DEF Sound, Exact
  <2> QED BY <2>4, <2>5 DEF After
<1> QED BY <1>1, <1>2

LEMMA AfterRollback ==
  ASSUME NEW m \in Allocator, NEW orig, NEW node
  PROVE  After(m, Rollback(m, orig, node))
BY AfterFreeBlocks, Zenon DEF Rollback

-----------------------------------------------------------------------------
(* Numbers and recursive functions.                                        *)

USE SizeAssumption, DiskFSAssumption

\* Induction over the numbers up to n, for a set.
LEMMA UpTo ==
  ASSUME NEW n \in Nat, NEW T, 0 \in T, \A k \in 1 .. n : k - 1 \in T => k \in T
  PROVE  0 .. n \subseteq T
<1> DEFINE S == (0 .. n) \ T
<1>1. SUFFICES ASSUME S # {}  PROVE FALSE
  OBVIOUS
<1>2. PICK x \in S : \A y \in S : x <= y
  <2>1. S \in SUBSET Nat
    OBVIOUS
  <2> HIDE DEF S
  <2> QED BY <1>1, <2>1, LowestExists
<1>3. x \in 1 .. n /\ x - 1 \in T
  BY <1>2
<1> QED BY <1>3

\* The least of a few numbers.
LEMMA MinIsLowest ==
  ASSUME NEW S \in SUBSET Nat, S # {}
  PROVE  Min(S) \in S /\ \A y \in S : Min(S) <= y
<1>1. \E x \in S : \A y \in S : x <= y
  BY LowestExists
<1> QED BY <1>1 DEF Min

\* The recursive function of Walk exists.
LEMMA WalkIs ==
  ASSUME NEW S, NEW p \in Seq(S)
  PROVE  /\ Walk(p)[0] = Root
         /\ \A k \in 1 .. Len(p) : Walk(p)[k] = LookUp(Walk(p)[k - 1], p[k])
<1> DEFINE n == Len(p)
<1> DEFINE IsWalk(g, m) == g = [k \in 0 .. m |-> IF k = 0 THEN Root ELSE LookUp(g[k - 1], p[k])]
<1> DEFINE T == {m \in 0 .. n : \E g : IsWalk(g, m)}
<1>1. n \in Nat
  OBVIOUS
<1>2. 0 \in T
  <2> DEFINE g == [k \in 0 .. 0 |-> Root]
  <2>1. IsWalk(g, 0)
    OBVIOUS
  <2> HIDE DEF g, IsWalk
  <2> QED BY <1>1, <2>1
<1>3. ASSUME NEW m \in 1 .. n, m - 1 \in T  PROVE m \in T
  <2>1. PICK g : IsWalk(g, m - 1)
    BY <1>3
  <2> DEFINE h == [k \in 0 .. m |-> IF k = 0 THEN Root ELSE LookUp(g[k - 1], p[k])]
  <2>2. \A k \in 0 .. m - 1 : h[k] = g[k]
    BY <2>1
  <2>3. \A k \in 0 .. m : (IF k = 0 THEN Root ELSE LookUp(g[k - 1], p[k]))
                          = (IF k = 0 THEN Root ELSE LookUp(h[k - 1], p[k]))
    <3> HIDE DEF h
    <3> QED BY <2>2
  <2>4. IsWalk(h, m)
    <3> DEFINE e == [k \in 0 .. m |-> IF k = 0 THEN Root ELSE LookUp(h[k - 1], p[k])]
    <3> QED BY <2>3
  <2> HIDE DEF h, IsWalk
  <2> QED BY <2>4
<1>4. n \in T
  <2> HIDE DEF T, n
  <2>1. 0 .. n \subseteq T
    BY <1>1, <1>2, <1>3, UpTo
  <2> QED BY <1>1, <2>1
<1>5. IsWalk(Walk(p), n)
  BY <1>4 DEF Walk
<1> QED BY <1>1, <1>5

\* That of Records too.
LEMMA RecordsIs ==
  ASSUME NEW B, NEW ptr
  PROVE  /\ Records(B, ptr)[0] = <<>>
         /\ \A k \in 1 .. NDirect :
              Records(B, ptr)[k] = Records(B, ptr)[k - 1] \o B[ptr[k - 1]].ents
<1> DEFINE IsRecords(g, m) ==
             g = [k \in 0 .. m |-> IF k = 0 THEN <<>> ELSE g[k - 1] \o B[ptr[k - 1]].ents]
<1> DEFINE T == {m \in 0 .. NDirect : \E g : IsRecords(g, m)}
<1>1. NDirect \in Nat
  OBVIOUS
<1>2. 0 \in T
  <2> DEFINE g == [k \in 0 .. 0 |-> <<>>]
  <2>1. IsRecords(g, 0)
    OBVIOUS
  <2> HIDE DEF g, IsRecords
  <2> QED BY <1>1, <2>1
<1>3. ASSUME NEW m \in 1 .. NDirect, m - 1 \in T  PROVE m \in T
  <2>1. PICK g : IsRecords(g, m - 1)
    BY <1>3
  <2> DEFINE h == [k \in 0 .. m |-> IF k = 0 THEN <<>> ELSE g[k - 1] \o B[ptr[k - 1]].ents]
  <2>2. \A k \in 0 .. m - 1 : h[k] = g[k]
    <3>1. SUFFICES ASSUME NEW k \in 0 .. m - 1  PROVE h[k] = g[k]
      OBVIOUS
    <3>2. k \in 0 .. m
      BY <1>1
    <3>3. h[k] = IF k = 0 THEN <<>> ELSE g[k - 1] \o B[ptr[k - 1]].ents
      BY <3>2, Zenon
    <3>4. g = [j \in 0 .. m - 1 |-> IF j = 0 THEN <<>> ELSE g[j - 1] \o B[ptr[j - 1]].ents]
      BY <2>1
    <3> HIDE DEF h
    <3>5. g[k] = IF k = 0 THEN <<>> ELSE g[k - 1] \o B[ptr[k - 1]].ents
      BY <3>4, Zenon
    <3> QED BY <3>3, <3>5
  <2>3. \A k \in 0 .. m : (IF k = 0 THEN <<>> ELSE g[k - 1] \o B[ptr[k - 1]].ents)
                          = (IF k = 0 THEN <<>> ELSE h[k - 1] \o B[ptr[k - 1]].ents)
    <3> HIDE DEF h
    <3> QED BY <2>2
  <2>4. IsRecords(h, m)
    <3> DEFINE e == [k \in 0 .. m |-> IF k = 0 THEN <<>> ELSE h[k - 1] \o B[ptr[k - 1]].ents]
    <3> QED BY <2>3
  <2> HIDE DEF h, IsRecords
  <2> QED BY <2>4
<1>4. NDirect \in T
  <2> HIDE DEF T
  <2>1. 0 .. NDirect \subseteq T
    BY <1>1, <1>2, <1>3, UpTo
  <2> QED BY <1>1, <2>1
<1>5. IsRecords(Records(B, ptr), NDirect)
  BY <1>4 DEF Records
<1>6. PICK R : R = Records(B, ptr)
  OBVIOUS
<1>7. R = [k \in 0 .. NDirect |-> IF k = 0 THEN <<>> ELSE R[k - 1] \o B[ptr[k - 1]].ents]
  BY <1>5, <1>6, Zenon
<1>8. R[0] = <<>>
  BY <1>1, <1>7
<1>9. ASSUME NEW k \in 1 .. NDirect  PROVE R[k] = R[k - 1] \o B[ptr[k - 1]].ents
  <2>1. k \in 0 .. NDirect /\ k # 0
    BY <1>1
  <2> QED BY <1>7, <2>1
<1> QED BY <1>6, <1>8, <1>9

LEMMA NextRecords ==
  ASSUME NEW B, NEW ptr, NEW k \in 1 .. NDirect
  PROVE  Records(B, ptr)[k] = Records(B, ptr)[k - 1] \o B[ptr[k - 1]].ents
<1>1. \A j \in 1 .. NDirect : Records(B, ptr)[j] = Records(B, ptr)[j - 1] \o B[ptr[j - 1]].ents
  BY ONLY RecordsIs, ZenonT(30)
<1>2. k \in 1 .. NDirect
  OBVIOUS
<1> QED BY ONLY <1>1, <1>2, ZenonT(30)

\* What the numbers of a block's records are made of.
LEMMA Bases ==
  ASSUME NEW k \in Nat
  PROVE  /\ k * PerBlock \in Nat /\ (k + 1) * PerBlock = (k * PerBlock) + PerBlock
         /\ 0 * PerBlock = 0
         /\ \A h \in Nat : h < k => (h * PerBlock) + PerBlock <= k * PerBlock
<1>1. ASSUME NEW h \in Nat, h < k  PROVE (h * PerBlock) + PerBlock <= k * PerBlock
  <2>1. PICK d \in Nat : k = h + 1 + d
    BY <1>1, k - (h + 1) \in Nat
  <2>2. k * PerBlock = (h * PerBlock) + PerBlock + (d * PerBlock) /\ d * PerBlock \in Nat
    BY <2>1
  <2> QED BY <2>2
<1> QED BY <1>1

-----------------------------------------------------------------------------
(* Directories and paths.                                                  *)

\* The pointers before the first zero one are a number of them.
LEMMA LinkedIs ==
  ASSUME NEW ptr
  PROVE  /\ Linked(ptr) \in 0 .. NDirect
         /\ \A j \in 0 .. Linked(ptr) - 1 : ptr[j] # 0
         /\ Linked(ptr) = NDirect \/ ptr[Linked(ptr)] = 0
<1> DEFINE S == {k \in 0 .. NDirect : k = NDirect \/ ptr[k] = 0}
<1>1. S \in SUBSET Nat /\ NDirect \in S
  OBVIOUS
<1>2. PICK k \in S : \A j \in S : k <= j
  <2> HIDE DEF S
  <2> QED BY <1>1, LowestExists
<1>3. \A j \in 0 .. k - 1 : ptr[j] # 0
  BY <1>2
<1> QED BY <1>2, <1>3 DEF Linked

\* The records of blocks of sound records are sound.
LEMMA RecordsTyped ==
  ASSUME NEW S, NEW B, NEW ptr \in Pointers, \A b \in Block : B[b].ents \in Seq(S)
  PROVE  \A k \in 0 .. NDirect : Records(B, ptr)[k] \in Seq(S)
<1> DEFINE T == {k \in 0 .. NDirect : Records(B, ptr)[k] \in Seq(S)}
<1>1. 0 \in T
  <2>1. <<>> \in Seq(S) /\ 0 \in 0 .. NDirect
    OBVIOUS
  <2>2. Records(B, ptr)[0] = <<>>
    BY RecordsIs
  <2> QED BY <2>1, <2>2
<1>2. ASSUME NEW k \in 1 .. NDirect, k - 1 \in T  PROVE k \in T
  <2>1. ptr[k - 1] \in Block /\ Records(B, ptr)[k - 1] \in Seq(S)
    BY <1>2 DEF Pointers
  <2>2. B[ptr[k - 1]].ents \in Seq(S)
    BY <2>1
  <2>3. Records(B, ptr)[k - 1] \o B[ptr[k - 1]].ents \in Seq(S)
    BY <2>1, <2>2, ConcatProperties, Zenon
  <2>4. Records(B, ptr)[k] = Records(B, ptr)[k - 1] \o B[ptr[k - 1]].ents
    <3>1. \A j \in 1 .. NDirect :
            Records(B, ptr)[j] = Records(B, ptr)[j - 1] \o B[ptr[j - 1]].ents
      BY ONLY RecordsIs
    <3> QED BY <3>1, <1>2
  <2>5. k \in 0 .. NDirect
    OBVIOUS
  <2> QED BY <2>3, <2>4, <2>5
<1>3. 0 .. NDirect \subseteq T
  <2> HIDE DEF T
  <2> QED BY <1>1, <1>2, UpTo
<1> QED BY <1>3

\* What a directory read returns is a sequence of sound records, no longer than
\* the size and the caller's room allow.
LEMMA DirectoryTyped ==
  ASSUME NEW S, NEW slot, slot.direct \in Pointers, slot.size \in Nat,
         NEW B, \A b \in Block : B[b].ents \in Seq(S)
  PROVE  /\ DirectoryOf(slot, B) \in Seq(S)
         /\ Len(DirectoryOf(slot, B)) <= slot.size /\ Len(DirectoryOf(slot, B)) <= MaxEntries
<1> DEFINE all == Records(B, slot.direct)[Linked(slot.direct)]
<1> DEFINE M == {Len(all), slot.size, MaxEntries}
<1> DEFINE n == Min(M)
<1>1. all \in Seq(S)
  BY RecordsTyped, LinkedIs
<1> HIDE DEF all
<1>2. n \in Nat /\ n <= Len(all) /\ n <= slot.size /\ n <= MaxEntries
  <2>1. M \in SUBSET Nat /\ M # {}
    BY <1>1
  <2>2. Min(M) \in M /\ \A y \in M : Min(M) <= y
    <3> HIDE DEF M
    <3> QED BY <2>1, MinIsLowest
  <2> QED BY <2>1, <2>2
<1>3. SubSeq(all, 1, n) \in Seq(S) /\ Len(SubSeq(all, 1, n)) = n
  <2> HIDE DEF n
  <2> QED BY <1>1, <1>2
<1> QED BY <1>2, <1>3 DEF DirectoryOf, all

LEMMA ReadDirectoryTyped ==
  ASSUME Typed, NEW i \in Inode
  PROVE  /\ ReadDirectory(i) \in Seq(SoundRecs)
         /\ Len(ReadDirectory(i)) <= itab[i].size /\ Len(ReadDirectory(i)) <= MaxEntries
<1>1. itab[i].direct \in Pointers /\ itab[i].size \in Nat
  BY DEF Typed, InodeSlot, Pointers
<1> QED BY <1>1, DirectoryTyped DEF Typed, ReadDirectory

\* A directory is what its own blocks hold: writes to other blocks leave it alone.
LEMMA SameDirectory ==
  ASSUME NEW slot, NEW new, new.direct = slot.direct, new.size = slot.size, NEW B, NEW C,
         \A k \in 0 .. NDirect - 1 : slot.direct[k] # 0 =>
           B[slot.direct[k]].ents = C[slot.direct[k]].ents
  PROVE  DirectoryOf(new, C) = DirectoryOf(slot, B)
<1> DEFINE ptr == slot.direct
<1> DEFINE L == Linked(ptr)
<1> DEFINE T == {k \in 0 .. L : Records(C, ptr)[k] = Records(B, ptr)[k]}
<1>1. L \in 0 .. NDirect /\ \A k \in 0 .. L - 1 : ptr[k] # 0
  BY LinkedIs
<1> HIDE DEF L
<1>2. 0 \in T
  <2>1. Records(C, ptr)[0] = <<>> /\ Records(B, ptr)[0] = <<>>
    BY ONLY RecordsIs
  <2> QED BY <1>1, <2>1
<1>3. ASSUME NEW k \in 1 .. L, k - 1 \in T  PROVE k \in T
  <2>1. k - 1 \in 0 .. L - 1 /\ k - 1 \in 0 .. NDirect - 1 /\ k \in 1 .. NDirect
    BY <1>1
  <2>2. C[ptr[k - 1]].ents = B[ptr[k - 1]].ents
    <3>1. ptr[k - 1] # 0
      BY <1>1, <2>1
    <3> QED BY <2>1, <3>1, Zenon
  <2>5. Records(C, ptr)[k - 1] = Records(B, ptr)[k - 1]
    BY <1>3
  <2>6. Records(C, ptr)[k] = Records(C, ptr)[k - 1] \o C[ptr[k - 1]].ents
    <3>1. k \in 1 .. NDirect
      BY <2>1
    <3> HIDE DEF ptr
    <3> QED BY ONLY <3>1, NextRecords, ZenonT(30)
  <2>7. Records(B, ptr)[k] = Records(B, ptr)[k - 1] \o B[ptr[k - 1]].ents
    <3>1. k \in 1 .. NDirect
      BY <2>1
    <3> HIDE DEF ptr
    <3> QED BY ONLY <3>1, NextRecords, ZenonT(30)
  <2>8. Records(C, ptr)[k] = Records(B, ptr)[k]
    BY <2>2, <2>5, <2>6, <2>7, Zenon
  <2> QED BY <2>8
<1>4. 0 .. L \subseteq T
  <2>1. L \in Nat
    BY <1>1
  <2> HIDE DEF T
  <2> QED BY <1>2, <1>3, <2>1, UpTo
<1>5. Records(C, ptr)[L] = Records(B, ptr)[L]
  <2>1. L \in 0 .. L
    BY <1>1
  <2> QED BY <1>4, <2>1
<1> QED BY <1>5, Zenon DEF DirectoryOf, L

\* A directory whose blocks hold a sequence of records of its size is read as that
\* sequence, whatever stands in its blocks behind them.
LEMMA DirectoryIsHeld ==
  ASSUME NEW S, NEW slot, slot.direct \in Pointers, NEW es \in Seq(S), slot.size = Len(es),
         Len(es) <= MaxEntries,
         NEW B, \A b \in Block : B[b].ents \in Seq(S) /\ Len(B[b].ents) <= PerBlock,
         Holds(B, slot.direct, es)
  PROVE  DirectoryOf(slot, B) = es
<1> DEFINE ptr == slot.direct
<1> DEFINE L == Linked(ptr)
<1> DEFINE rs(k) == Records(B, ptr)[k]
<1> DEFINE Right(k) == /\ \A j \in 1 .. Len(es) : j <= k * PerBlock => j <= Len(rs(k)) /\ rs(k)[j] = es[j]
                       /\ k * PerBlock <= Len(es) => Len(rs(k)) = k * PerBlock
<1> DEFINE T == {k \in 0 .. L : Right(k)}
<1>1. L \in 0 .. NDirect /\ (\A k \in 0 .. L - 1 : ptr[k] # 0) /\ (L = NDirect \/ ptr[L] = 0)
  BY LinkedIs
<1>2. \A k \in 0 .. NDirect : rs(k) \in Seq(S)
  BY RecordsTyped
<1> HIDE DEF L
<1>3. 0 \in T
  <2>1. rs(0) = <<>>
    BY ONLY RecordsIs
  <2>2. 0 * PerBlock = 0
    BY Bases
  <2>3. Right(0)
    <3> HIDE DEF rs
    <3> QED BY <2>1, <2>2
  <2> HIDE DEF Right
  <2> QED BY <1>1, <2>3
<1>4. ASSUME NEW k \in 1 .. L, k - 1 \in T  PROVE k \in T
  <2> DEFINE h == k - 1
  <2> DEFINE a == h * PerBlock
  <2> DEFINE e == B[ptr[h]].ents
  <2>1. h \in 0 .. L - 1 /\ h \in 0 .. NDirect - 1 /\ k \in 1 .. NDirect /\ h \in Nat /\ k \in 0 .. L
        /\ k = h + 1 /\ h \in 0 .. NDirect
    BY <1>1
  <2>2. a \in Nat /\ k * PerBlock = a + PerBlock /\ PerBlock \in Nat
    <3> HIDE DEF h
    <3> QED BY <2>1, Bases
  <2>3. ptr[h] \in Block /\ e \in Seq(S) /\ Len(e) <= PerBlock
    <3>1. ptr[h] \in Block
      BY <2>1 DEF Pointers
    <3> QED BY <3>1
  <2>4. rs(k) = rs(h) \o e
    <3>1. k \in 1 .. NDirect
      BY <2>1
    <3>2. Records(B, ptr)[k] = Records(B, ptr)[k - 1] \o B[ptr[k - 1]].ents
      <4> HIDE DEF ptr
      <4> QED BY ONLY <3>1, NextRecords, ZenonT(30)
    <3> QED BY <3>2
  <2>5. Right(h)
    <3> HIDE DEF Right
    <3> QED BY <1>4
  <2>6. rs(h) \in Seq(S)
    BY <1>2, <2>1
  <2>7. a < Len(es) => \A r \in 1 .. PerBlock : a + r <= Len(es) => r <= Len(e) /\ e[r] = es[a + r]
    BY <2>1 DEF Holds, HoldsAt
  <2>8. rs(h) \o e \in Seq(S) /\ Len(rs(h) \o e) = Len(rs(h)) + Len(e)
        /\ (\A j \in 1 .. Len(rs(h)) : (rs(h) \o e)[j] = rs(h)[j])
        /\ (\A j \in 1 .. Len(e) : (rs(h) \o e)[Len(rs(h)) + j] = e[j])
    <3> HIDE DEF rs, e
    <3> QED BY <2>3, <2>6, SMTT(30)
  <2>9. Right(k)
    <3>1. ASSUME NEW j \in 1 .. Len(es), j <= a + PerBlock
          PROVE  j <= Len(rs(k)) /\ rs(k)[j] = es[j]
      <4> DEFINE s == rs(h)
      <4>1. CASE j <= a
        <5>1. j <= Len(s) /\ s[j] = es[j]
          BY <2>5, <4>1
        <5> HIDE DEF rs, s, e, a, h
        <5> QED BY <2>3, <2>4, <2>6, <2>8, <5>1 DEF s
      <4>2. CASE a < j
        <5>1. a < Len(es) /\ Len(s) = a
          BY <2>2, <2>5, <4>2
        <5>2. PICK r \in 1 .. PerBlock : j = a + r
          <6> HIDE DEF a, rs, e
          <6> QED BY <2>2, <3>1, <4>2, j - a \in 1 .. PerBlock
        <5>3. r <= Len(e) /\ e[r] = es[j]
          <6> HIDE DEF a, rs, e
          <6> QED BY <2>7, <5>1, <5>2
        <5> HIDE DEF rs, s, e, a, h
        <5> QED BY <2>2, <2>3, <2>4, <2>6, <2>8, <5>1, <5>2, <5>3 DEF s
      <4> HIDE DEF a
      <4> QED BY <2>2, <4>1, <4>2
    <3>2. ASSUME a + PerBlock <= Len(es)  PROVE Len(rs(k)) = a + PerBlock
      <4>1. a < Len(es) /\ Len(rs(h)) = a
        BY <2>2, <2>5, <3>2, DiskFSAssumption
      <4>2. PerBlock <= Len(e)
        <5> HIDE DEF a, rs, e
        <5>1. PerBlock \in 1 .. PerBlock
          BY DiskFSAssumption
        <5> QED BY <2>7, <3>2, <4>1, <5>1
      <4> HIDE DEF rs, e, a, h
      <4> QED BY <2>2, <2>3, <2>4, <2>8, <4>1, <4>2
    <3> HIDE DEF rs, a, e, h
    <3> QED BY <2>2, <3>1, <3>2
  <2> HIDE DEF Right
  <2> QED BY <2>1, <2>9
<1>5. Right(L)
  <2> HIDE DEF Right
  <2>1. 0 .. L \subseteq T
    <3>1. L \in Nat
      BY <1>1
    <3> HIDE DEF T
    <3> QED BY <1>3, <1>4, <3>1, UpTo
  <2>2. L \in 0 .. L
    BY <1>1
  <2> QED BY <2>1, <2>2
<1>6. Len(es) <= L * PerBlock
  <2>1. CASE L = NDirect
    BY <2>1
  <2>2. CASE L # NDirect
    <3>1. L \in 0 .. NDirect - 1 /\ ptr[L] = 0
      BY <1>1, <2>2
    <3>2. ~ (L * PerBlock < Len(es))
      BY <3>1 DEF Holds, HoldsAt
    <3>3. L * PerBlock \in Nat
      <4>1. L \in Nat
        BY <1>1
      <4> QED BY <4>1, Bases
    <3> QED BY <3>2, <3>3
  <2> QED BY <2>1, <2>2
<1>7. Len(es) <= Len(rs(L)) /\ \A j \in 1 .. Len(es) : rs(L)[j] = es[j]
  <2>1. L * PerBlock \in Nat /\ rs(L) \in Seq(S)
    <3>1. L \in Nat
      BY <1>1
    <3> QED BY <1>1, <1>2, <3>1, Bases
  <2> HIDE DEF rs
  <2>2. \A j \in 1 .. Len(es) : j <= Len(rs(L)) /\ rs(L)[j] = es[j]
    BY <1>5, <1>6, <2>1, SMTT(30)
  <2> QED BY <2>1, <2>2
<1>8. Min({Len(rs(L)), slot.size, MaxEntries}) = Len(es)
  <2> DEFINE M == {Len(rs(L)), slot.size, MaxEntries}
  <2>1. rs(L) \in Seq(S)
    BY <1>1, <1>2
  <2> HIDE DEF rs
  <2>2. M \in SUBSET Nat /\ M # {} /\ Len(es) \in M /\ \A y \in M : Len(es) <= y
    BY <1>7, <2>1
  <2>3. Min(M) \in M /\ \A y \in M : Min(M) <= y
    <3> HIDE DEF M
    <3> QED BY <2>2, MinIsLowest
  <2> HIDE DEF M
  <2> QED BY <2>2, <2>3 DEF M
<1>9. SubSeq(rs(L), 1, Len(es)) = es
  <2>1. rs(L) \in Seq(S)
    BY <1>1, <1>2
  <2> HIDE DEF rs
  <2> QED BY <1>7, <2>1
<1> QED BY <1>8, <1>9 DEF DirectoryOf, L

\* What a lookup finds is an inode, and a reserved one only under "." or "..".
LEMMA FindEntryTyped ==
  ASSUME Typed, NEW i \in Inode, NEW name
  PROVE  /\ FindEntry(i, name) \in Inode \cup {None}
         /\ FindEntry(i, name) \in Reserved => name \in Dots
<1> DEFINE at == Positions(i, name)
<1> DEFINE es == ReadDirectory(i)
<1>1. CASE at = {}
  BY <1>1 DEF FindEntry, Reserved, None
<1>2. CASE at # {}
  <2>1. es \in Seq(SoundRecs)
    BY ReadDirectoryTyped
  <2>2. at \in SUBSET Nat /\ \A k \in at : k \in DOMAIN es /\ es[k].name = name
    BY <2>1 DEF Positions
  <2>3. Min(at) \in at
    <3> HIDE DEF at
    <3> QED BY <1>2, <2>2, MinIsLowest
  <2>4. es[Min(at)] \in SoundRecs /\ es[Min(at)].name = name
    BY <2>1, <2>2, <2>3
  <2>5. FindEntry(i, name) = es[Min(at)].ino
    BY <1>2 DEF FindEntry
  <2> HIDE DEF es, at
  <2> QED BY <2>4, <2>5 DEF SoundRecs
<1> QED BY <1>1, <1>2

\* So does a path that names something: never a reserved inode but for the root.
LEMMA WalkTyped ==
  ASSUME Typed, NEW S, NEW p \in Seq(S)
  PROVE  \A k \in 0 .. Len(p) : Walk(p)[k] \in Inode \cup {None}
<1> DEFINE n == Len(p)
<1> DEFINE T == {k \in 0 .. n : Walk(p)[k] \in Inode \cup {None}}
<1>1. n \in Nat
  OBVIOUS
<1>2. 0 \in T
  BY WalkIs DEF Root, Inode
<1>3. ASSUME NEW k \in 1 .. n, k - 1 \in T  PROVE k \in T
  <2>1. Walk(p)[k] = LookUp(Walk(p)[k - 1], p[k]) /\ Walk(p)[k - 1] \in Inode \cup {None}
    BY <1>3, WalkIs
  <2>2. LookUp(Walk(p)[k - 1], p[k]) \in Inode \cup {None}
    BY <2>1, FindEntryTyped DEF LookUp
  <2> QED BY <2>1, <2>2
<1>4. 0 .. n \subseteq T
  <2> HIDE DEF T, n
  <2> QED BY <1>1, <1>2, <1>3, UpTo
<1> QED BY <1>4

LEMMA ResolveTyped ==
  ASSUME Typed, NEW p \in FilePaths \cup DirPaths
  PROVE  /\ Resolve(p) \in Inode \cup {None} /\ ResolveParent(p) \in Inode \cup {None}
         /\ p # <<>> => Resolve(p) \notin Reserved
<1>1. p \in Seq(STRING) /\ ToSet(p) \cap Dots = {}
  OBVIOUS
<1>2. Resolve(p) \in Inode \cup {None}
  BY <1>1, WalkTyped DEF Resolve
<1>3. ResolveParent(p) \in Inode \cup {None}
  <2>1. CASE p = <<>>
    BY <2>1 DEF ResolveParent
  <2>2. CASE p # <<>>
    <3>1. Front(p) \in Seq(STRING)
      BY <1>1, <2>2 DEF Front
    <3>2. Resolve(Front(p)) \in Inode \cup {None}
      BY <3>1, WalkTyped DEF Resolve
    <3> QED BY <2>2, <3>2 DEF ResolveParent
  <2> QED BY <2>1, <2>2
<1>4. ASSUME p # <<>>  PROVE Resolve(p) \notin Reserved
  <2> DEFINE n == Len(p)
  <2>1. n \in 1 .. Len(p) /\ n - 1 \in 0 .. Len(p)
    BY <1>1, <1>4
  <2>2. Resolve(p) = LookUp(Walk(p)[n - 1], p[n]) /\ Walk(p)[n - 1] \in Inode \cup {None}
    BY <1>1, <2>1, WalkIs, WalkTyped DEF Resolve
  <2>3. p[n] \notin Dots
    <3>1. p[n] \in ToSet(p)
      BY <1>1, <2>1 DEF ToSet
    <3> QED BY <1>1, <3>1
  <2> HIDE DEF n
  <2>4. LookUp(Walk(p)[n - 1], p[n]) \notin Reserved
    BY <2>2, <2>3, FindEntryTyped DEF LookUp, Reserved, None
  <2> QED BY <2>2, <2>4
<1> QED BY <1>2, <1>3, <1>4

HIDE DiskFSAssumption

-----------------------------------------------------------------------------
(* The inodes and the parts of IInv.                                       *)

LEMMA ReadInodeTyped ==
  ASSUME Typed, NEW i \in Inode
  PROVE  ReadInode(i) \in Copies
<1>1. itab[i] \in InodeSlot
  BY DEF Typed
<1>2. (IF HasNeighbour(i) THEN itab[i + 1].mode ELSE "file") \in Modes
  BY DEF Typed, HasNeighbour, InodeSlot, Modes
<1> QED BY <1>1, <1>2 DEF ReadInode, Copies, InodeSlot, Modes, Pointers

LEMMA WriteInodeTyped ==
  ASSUME Typed, NEW i \in Inode, NEW node \in Copies, WriteInode(i, node)
  PROVE  itab' \in [Inode -> InodeSlot]
<1> DEFINE slot(j) ==
      IF j = i THEN [mode |-> node.mode, size |-> node.size, direct |-> node.direct]
      ELSE IF HasNeighbour(i) /\ j = i + 1 THEN [itab[j] EXCEPT !.mode = node.tail]
      ELSE itab[j]
<1>1. ASSUME NEW j \in Inode  PROVE slot(j) \in InodeSlot
  <2>1. itab[j] \in InodeSlot
    BY DEF Typed
  <2>2. [mode |-> node.mode, size |-> node.size, direct |-> node.direct] \in InodeSlot
    BY DEF Copies, InodeSlot, Modes, Pointers
  <2>3. [itab[j] EXCEPT !.mode = node.tail] \in InodeSlot
    BY <2>1 DEF Copies, InodeSlot, Modes
  <2> QED BY <2>1, <2>2, <2>3
<1>2. itab' = [j \in Inode |-> slot(j)]
  BY DEF WriteInode
<1> HIDE DEF slot
<1> QED BY <1>1, <1>2

\* A step that goes on with an allocator after some calls, and leaves the disk's
\* copy and the history alone, keeps what IInv says of them.
LEMMA AllocatorKept ==
  ASSUME IInv, After(mem, mem'), UNCHANGED <<dsk, image>>, pc # "flBmap", pc' # "flBmap"
  PROVE  /\ mem' \in Allocator /\ dsk' \in Image /\ image' \in {"good", "stale", "torn"}
         /\ Reserved \subseteq mem'.imap /\ Reserved \subseteq dsk'.imap
         /\ CountersExact' /\ FlagsMissNothing'
<1>1. CountersExact'
  BY DEF IInv, After, Sound, CountersExact, Exact
<1>2. FlagsMissNothing'
  BY DEF IInv, After, FlagsMissNothing
<1> QED BY <1>1, <1>2 DEF IInv, Typed, After

\* The values the calls start from are well typed.
LEMMA StartTyped ==
  /\ \A mode \in Modes : FreshInode(mode) \in Copies
  /\ NoCall \in CallTypes
  /\ NBlocks \in Nat /\ NInodes \in Nat /\ {0, 1, 2} \subseteq Block /\ {0, 1, 2} \subseteq Inode
<1>1. NBlocks \in Nat /\ NInodes \in Nat /\ {0, 1, 2} \subseteq Block /\ {0, 1, 2} \subseteq Inode
  BY DiskFSAssumption DEF Block, Inode
<1>2. ASSUME NEW mode \in Modes  PROVE FreshInode(mode) \in Copies
  BY <1>1 DEF FreshInode, Copies, Pointers, Modes
<1>3. "file" \in Modes
  BY DEF Modes
<1>4. FreshInode("file") \in Copies
  BY <1>2, <1>3
<1>5. NoCall \in CallTypes
  BY <1>4 DEF NoCall, CallTypes
<1> QED BY <1>1, <1>2, <1>5

\* Returning ends a call soundly.
LEMMA ReturnKeeps ==
  ASSUME Return
  PROVE  loc' \in CallTypes /\ CallSound' /\ pc' # "flBmap"
BY StartTyped DEF Return, CallSound

\* The parts of IInv make it.
LEMMA PartsKept ==
  ASSUME IInv, After(mem, mem'), UNCHANGED <<dsk, image>>, pc # "flBmap", pc' # "flBmap",
         itab' \in [Inode -> InodeSlot],
         DOMAIN blk' = Block, \A b \in Block : blk'[b].ents \in Seq(SoundRecs),
         fdt' \in [Fd -> {NoFd} \cup OpenFds],
         loc' \in CallTypes, CallSound'
  PROVE  IInv'
<1>1. /\ mem' \in Allocator /\ dsk' \in Image /\ image' \in {"good", "stale", "torn"}
      /\ Reserved \subseteq mem'.imap /\ Reserved \subseteq dsk'.imap
      /\ CountersExact' /\ FlagsMissNothing'
  BY AllocatorKept
<1>2. Typed'
  BY <1>1 DEF Typed
<1> QED BY <1>1, <1>2 DEF IInv

\* An inode that is free is none of the reserved ones.
LEMMA FreeInodeIsNew ==
  ASSUME IInv, FreeInodeNo(mem) # None
  PROVE  FreeInodeNo(mem) \in Inode \ Reserved
<1>1. mem.imap \in SUBSET (0 .. NInodes - 1) /\ NInodes \in Nat
  BY SizeAssumption DEF IInv, Typed, Allocator, Inode
<1>2. FreeInodeNo(mem) \in Inode \ mem.imap
  BY <1>1, FindFreeIsFree DEF FreeInodeNo, Inode
<1> QED BY <1>2 DEF IInv

LEMMA FreeBlockIsBlock ==
  ASSUME IInv, FreeBlockNo(mem) # None
  PROVE  FreeBlockNo(mem) \in Block
<1>1. mem.bmap \in SUBSET (0 .. NBlocks - 1) /\ NBlocks \in Nat
  BY SizeAssumption DEF IInv, Typed, Allocator, Block
<1> QED BY <1>1, FindFreeIsFree DEF FreeBlockNo, Block

\* A create, a mkdir or an unlink that fails gives back no reserved inode.
LEMMA FailKeeps ==
  ASSUME IInv, pc \in {"newInode", "entry", "wdBlock"}, NEW m, After(mem, m), Fail(m)
  PROVE  After(mem, mem') /\ Return
<1>1. loc.ino \notin Reserved /\ m \in Allocator
  BY DEF IInv, CallSound, After
<1>2. After(m, FreeInode(m, loc.ino)) /\ After(m, m)
  BY <1>1, AfterFreeInode, AfterNothing
<1>3. After(m, mem')
  BY <1>2 DEF Fail
<1> QED BY <1>3, AfterBoth DEF Fail

-----------------------------------------------------------------------------
(* The steps.                                                              *)

LEMMA AllocatedKeeps ==
  ASSUME IInv, pc = "idle", NEW op \in {"open", "mkdir"}, NEW p \in FilePaths \cup DirPaths,
         NEW fl \in SUBSET {"R", "W", "C", "T", "A"}, Allocated(op, p, fl)
  PROVE  After(mem, mem') /\ loc' \in CallTypes /\ CallSound' /\ pc' # "flBmap"
<1>1. FreeInodeNo(mem) \in Inode \ Reserved
  BY FreeInodeIsNew DEF Allocated
<1>2. After(mem, mem')
  BY AfterAllocateInode DEF Allocated, IInv, Typed
<1> DEFINE l == [NoCall EXCEPT !.op = op, !.path = p, !.flags = fl, !.ino = FreeInodeNo(mem)]
<1>3. pc' = "newInode" /\ loc' = l
  BY DEF Allocated, Goto
<1>4. l \in CallTypes /\ l.ino = FreeInodeNo(mem)
  <2> DEFINE n == FreeInodeNo(mem)
  <2>1. n \in Inode
    BY <1>1
  <2>2. NoCall \in CallTypes
    BY StartTyped
  <2> HIDE DEF n
  <2>3. [NoCall EXCEPT !.op = op, !.path = p, !.flags = fl, !.ino = n] \in CallTypes
    BY <2>1, <2>2 DEF CallTypes
  <2>4. [NoCall EXCEPT !.op = op, !.path = p, !.flags = fl, !.ino = n].ino = n
    BY <2>2 DEF CallTypes
  <2> QED BY <2>3, <2>4 DEF n
<1>5. CallSound'
  BY <1>1, <1>3, <1>4 DEF CallSound
<1> QED BY <1>2, <1>3, <1>4, <1>5

LEMMA OpenKeeps ==
  ASSUME IInv, NEW p \in FilePaths, NEW fl \in Flags, NEW ok \in BOOLEAN, Open(p, fl, ok)
  PROVE  IInv'
<1> DEFINE i == IF ok THEN Resolve(p) ELSE None
<1>0. pc = "idle" /\ p \in FilePaths \cup DirPaths /\ fl \in SUBSET {"R", "W", "C", "T", "A"}
  BY DiskFSAssumption DEF Open, Begin
<1>1. UNCHANGED <<dsk, itab, blk, fdt, image>>
  BY DEF Open
<1>2. CASE i = None /\ Allocated("open", p, fl)
  <2>1. After(mem, mem') /\ loc' \in CallTypes /\ CallSound' /\ pc' # "flBmap"
    BY <1>0, <1>2, AllocatedKeeps
  <2> QED BY <1>0, <1>1, <2>1, PartsKept DEF IInv, Typed
<1>3. CASE i # None /\ UNCHANGED mem
           /\ Goto("opened", [NoCall EXCEPT !.op = "open", !.path = p, !.flags = fl,
                                            !.ino = i, !.node = ReadInode(i)])
  <2>1. i \in Inode
    BY <1>0, <1>3, ResolveTyped DEF IInv
  <2>2. ReadInode(i) \in Copies
    BY <2>1, ReadInodeTyped DEF IInv
  <2> HIDE DEF i
  <2>3. /\ loc' \in CallTypes /\ loc'.ino = i /\ pc' = "opened"
    BY <1>0, <1>3, <2>1, <2>2, StartTyped DEF CallTypes, Goto
  <2>4. CallSound'
    BY <2>1, <2>3 DEF CallSound
  <2>5. After(mem, mem')
    BY <1>3, AfterNothing DEF IInv, Typed
  <2> QED BY <1>0, <1>1, <2>3, <2>4, <2>5, PartsKept DEF IInv, Typed
<1> QED BY <1>2, <1>3 DEF Open

LEMMA MkdirKeeps ==
  ASSUME IInv, NEW p \in DirPaths, Mkdir(p)
  PROVE  IInv'
<1>1. pc = "idle" /\ Allocated("mkdir", p, {}) /\ UNCHANGED <<dsk, itab, blk, fdt, image>>
  BY DEF Mkdir, Begin
<1>2. After(mem, mem') /\ loc' \in CallTypes /\ CallSound' /\ pc' # "flBmap"
  BY <1>1, AllocatedKeeps
<1> QED BY <1>1, <1>2, PartsKept DEF IInv, Typed

LEMMA UnlinkKeeps ==
  ASSUME IInv, NEW p \in FilePaths \cup DirPaths, Unlink(p)
  PROVE  IInv'
<1> DEFINE i == Resolve(p)
<1> DEFINE par == ResolveParent(p)
<1>1. /\ pc = "idle" /\ i # None /\ par # None
      /\ mem' = FreeBlocks(mem, ChainBlocks(ReadInode(i)))
      /\ pc' = "entry"
      /\ loc' = [NoCall EXCEPT !.op = "unlink", !.path = p, !.ino = i, !.par = par]
      /\ UNCHANGED <<dsk, itab, blk, fdt, image>>
  BY DEF Unlink, Begin, Goto
<1>2. p # <<>>
  BY <1>1 DEF ResolveParent
<1>3. i \in Inode \ Reserved /\ par \in Inode
  BY <1>1, <1>2, ResolveTyped DEF IInv
<1>4. After(mem, mem')
  BY <1>1, AfterFreeBlocks DEF IInv, Typed
<1> HIDE DEF i, par
<1>5. loc' \in CallTypes /\ loc'.ino = i /\ loc'.par = par /\ loc'.path = p
  BY <1>1, <1>3, StartTyped DEF CallTypes
<1>6. CallSound'
  BY <1>1, <1>2, <1>3, <1>5 DEF CallSound
<1> QED BY <1>1, <1>4, <1>5, <1>6, PartsKept DEF IInv, Typed

\* The pieces of IInv that the steps of a running call start from.
LEMMA AtStep ==
  ASSUME IInv
  PROVE  /\ Typed /\ CallSound /\ mem \in Allocator
         /\ itab \in [Inode -> InodeSlot]
         /\ DOMAIN blk = Block /\ \A b \in Block : blk[b].ents \in Seq(SoundRecs)
         /\ fdt \in [Fd -> {NoFd} \cup OpenFds] /\ loc \in CallTypes
BY DEF IInv, Typed

\* A block of records leaves blocks that hold records.
LEMMA BlockWritten ==
  ASSUME IInv, NEW b, NEW c, c.ents \in Seq(SoundRecs), blk' = [blk EXCEPT ![b] = c]
  PROVE  DOMAIN blk' = Block /\ \A x \in Block : blk'[x].ents \in Seq(SoundRecs)
BY AtStep

LEMMA NewInodeKeeps ==
  ASSUME IInv, NEW ok \in BOOLEAN, NewInode(ok)
  PROVE  IInv'
<1> DEFINE par == ResolveParent(loc.path)
<1> DEFINE mode == IF loc.op = "mkdir" THEN "dir" ELSE "file"
<1> DEFINE node == FreshInode(mode)
<1> DEFINE self == <<Rec(".", loc.ino), Rec("..", par)>>
<1>1. pc = "newInode" /\ UNCHANGED <<dsk, blk, fdt, image>>
  BY DEF NewInode
<1>2. loc.ino \in Inode \ Reserved /\ loc \in CallTypes /\ Typed /\ mem \in Allocator
  BY <1>1, AtStep DEF CallSound
<1>3. CASE Fail(mem) /\ UNCHANGED itab
  <2>1. After(mem, mem') /\ Return
    BY <1>1, <1>2, <1>3, AfterNothing, FailKeeps
  <2> QED BY <1>1, <1>3, <2>1, AtStep, ReturnKeeps, PartsKept
<1>4. CASE /\ par # None /\ WriteInode(loc.ino, node) /\ UNCHANGED mem
           /\ IF loc.op = "mkdir"
                THEN Goto("wdBlock", [loc EXCEPT !.par = par, !.dir = loc.ino, !.ents = self,
                                                 !.node = node, !.orig = node])
                ELSE Goto("entry", [loc EXCEPT !.par = par])
  <2>1. loc.path # <<>> /\ loc.path \in FilePaths \cup DirPaths
    BY <1>2, <1>4 DEF ResolveParent, CallTypes
  <2>2. par \in Inode
    BY <1>2, <1>4, <2>1, ResolveTyped
  <2>3. node \in Copies
    BY StartTyped DEF Modes
  <2>4. itab' \in [Inode -> InodeSlot]
    <3> HIDE DEF node
    <3> QED BY <1>2, <1>4, <2>3, WriteInodeTyped
  <2>5. self \in Seq(SoundRecs)
    <3>1. Rec(".", loc.ino) \in SoundRecs /\ Rec("..", par) \in SoundRecs
      BY <1>2, <2>2 DEF SoundRecs, Rec, Dots
    <3> QED BY <3>1
  <2>6. After(mem, mem')
    BY <1>2, <1>4, AfterNothing
  <2> HIDE DEF par, node, self
  <2>7. CASE loc.op = "mkdir"
    <3>1. /\ pc' = "wdBlock"
          /\ loc' = [loc EXCEPT !.par = par, !.dir = loc.ino, !.ents = self,
                                !.node = node, !.orig = node]
      BY <1>4, <2>7 DEF Goto
    <3>2. loc' \in CallTypes /\ loc'.ino = loc.ino /\ loc'.par = par /\ loc'.path = loc.path
          /\ loc'.dir = loc.ino
      BY <1>2, <2>2, <2>3, <2>5, <3>1 DEF CallTypes
    <3>3. CallSound'
      BY <1>2, <2>1, <2>2, <3>1, <3>2 DEF CallSound
    <3> QED BY <1>1, <2>4, <2>6, <3>1, <3>2, <3>3, AtStep, PartsKept
  <2>8. CASE loc.op # "mkdir"
    <3>1. pc' = "entry" /\ loc' = [loc EXCEPT !.par = par]
      BY <1>4, <2>8 DEF Goto
    <3>2. loc' \in CallTypes /\ loc'.ino = loc.ino /\ loc'.par = par /\ loc'.path = loc.path
      BY <1>2, <2>2, <3>1 DEF CallTypes
    <3>3. CallSound'
      BY <1>2, <2>1, <2>2, <3>1, <3>2 DEF CallSound
    <3> QED BY <1>1, <2>4, <2>6, <3>1, <3>2, <3>3, AtStep, PartsKept
  <2> QED BY <2>7, <2>8
<1> QED BY <1>3, <1>4 DEF NewInode

\* The records an entry step goes on to write are sound.
LEMMA NewEntriesTyped ==
  ASSUME IInv, pc = "entry", EntryPossible
  PROVE  NewEntries \in Seq(SoundRecs)
<1> DEFINE es == ReadDirectory(loc.par)
<1>1. /\ loc \in CallTypes /\ loc.ino \in Inode \ Reserved
      /\ loc.par \in Inode /\ loc.path # <<>>
  BY AtStep DEF CallSound
<1>2. es \in Seq(SoundRecs)
  BY <1>1, AtStep, ReadDirectoryTyped
<1>3. CASE loc.op = "unlink"
  <2> DEFINE at == Positions(loc.par, Last(loc.path))
  <2>1. at # {} /\ at \in SUBSET (1 .. Len(es))
    BY <1>2, <1>3 DEF EntryPossible, Positions
  <2>2. Min(at) \in 1 .. Len(es)
    <3>1. at \in SUBSET Nat
      BY <1>2, <2>1
    <3> HIDE DEF at
    <3>2. Min(at) \in at
      BY <2>1, <3>1, MinIsLowest
    <3> QED BY <2>1, <3>2
  <2>3. NewEntries = RemoveAt(es, Min(at))
    BY <1>3 DEF NewEntries
  <2> HIDE DEF es, at
  <2>4. /\ SubSeq(es, 1, Min(at) - 1) \in Seq(SoundRecs)
        /\ SubSeq(es, Min(at) + 1, Len(es)) \in Seq(SoundRecs)
    BY <1>2, <2>2
  <2>5. SubSeq(es, 1, Min(at) - 1) \o SubSeq(es, Min(at) + 1, Len(es)) \in Seq(SoundRecs)
    BY <2>4, ConcatProperties, Zenon
  <2> QED BY <2>3, <2>5 DEF RemoveAt
<1>4. CASE loc.op # "unlink"
  <2>1. loc.path \in FilePaths \cup DirPaths /\ loc.path \in Seq(STRING)
    BY <1>1, DiskFSAssumption DEF CallTypes
  <2>2. Last(loc.path) \in Names
    <3>1. Last(loc.path) \in ToSet(loc.path)
      <4>1. Len(loc.path) \in DOMAIN loc.path
        BY <1>1, <2>1
      <4> QED BY <4>1 DEF Last, ToSet
    <3> QED BY <2>1, <3>1 DEF Names
  <2>3. Rec(Last(loc.path), loc.ino) \in SoundRecs
    BY <1>1, <2>2 DEF Rec, SoundRecs
  <2>4. NewEntries = Append(es, Rec(Last(loc.path), loc.ino))
    BY <1>4 DEF NewEntries
  <2> HIDE DEF es
  <2> QED BY <1>2, <2>3, <2>4
<1> QED BY <1>3, <1>4

LEMMA EntryKeeps ==
  ASSUME IInv, NEW ok \in BOOLEAN, Entry(ok)
  PROVE  IInv'
<1>1. pc = "entry" /\ UNCHANGED <<dsk, itab, blk, fdt, image>>
  BY DEF Entry
<1>2. CASE Fail(mem)
  <2>1. After(mem, mem') /\ Return
    BY <1>1, <1>2, AtStep, AfterNothing, FailKeeps
  <2> QED BY <1>1, <2>1, AtStep, ReturnKeeps, PartsKept
<1>3. CASE /\ EntryPossible /\ UNCHANGED mem
           /\ Goto("wdBlock", [loc EXCEPT !.dir = loc.par, !.ents = NewEntries, !.k = 0,
                                          !.node = ReadInode(loc.par),
                                          !.orig = ReadInode(loc.par)])
  <2>1. /\ loc \in CallTypes /\ loc.ino \in Inode \ Reserved
        /\ loc.par \in Inode /\ loc.path # <<>>
    BY <1>1, AtStep DEF CallSound
  <2>2. NewEntries \in Seq(SoundRecs) /\ ReadInode(loc.par) \in Copies
    BY <1>1, <1>3, <2>1, AtStep, NewEntriesTyped, ReadInodeTyped
  <2>3. After(mem, mem')
    BY <1>3, AtStep, AfterNothing
  <2>4. /\ loc' \in CallTypes /\ pc' = "wdBlock"
        /\ loc'.ino = loc.ino /\ loc'.par = loc.par /\ loc'.path = loc.path /\ loc'.dir = loc.par
    BY <1>3, <2>1, <2>2 DEF CallTypes, Goto
  <2>5. CallSound'
    BY <2>1, <2>4 DEF CallSound
  <2> QED BY <1>1, <2>3, <2>4, <2>5, AtStep, PartsKept
<1> QED BY <1>2, <1>3 DEF Entry

\* Linking a block to a copy of an inode leaves a copy of an inode.
LEMMA SetBlockTyped ==
  ASSUME NEW node \in Copies, NEW k, NEW b, k \in 0 .. NDirect - 1 => b \in Block
  PROVE  SetBlock(node, k, b) \in Copies
<1>1. node.direct \in Pointers
  BY DEF Copies
<1>2. [node.direct EXCEPT ![k] = b] \in Pointers
  BY <1>1 DEF Pointers
<1>3. SetBlock(node, k, b) = [node EXCEPT !.direct = [node.direct EXCEPT ![k] = b]]
  BY DEF SetBlock
<1> QED BY <1>2, <1>3 DEF Copies

LEMMA ChunkTyped ==
  ASSUME loc \in CallTypes
  PROVE  Chunk \in Seq(SoundRecs)
<1> DEFINE S == {(loc.k + 1) * PerBlock, Len(loc.ents)}
<1> DEFINE m == loc.k * PerBlock
<1>1. /\ loc.ents \in Seq(SoundRecs) /\ loc.k \in Nat /\ PerBlock \in Nat
  BY DiskFSAssumption DEF CallTypes
<1>2. m \in Nat /\ S \in SUBSET Nat /\ S # {}
  BY <1>1
<1>3. Min(S) \in Nat /\ Min(S) <= Len(loc.ents)
  <2>1. Len(loc.ents) \in S
    OBVIOUS
  <2> HIDE DEF S
  <2> QED BY <1>2, <2>1, MinIsLowest
<1>4. Chunk = SubSeq(loc.ents, m + 1, Min(S))
  BY DEF Chunk
<1> HIDE DEF S, m
<1> QED BY <1>1, <1>2, <1>3, <1>4

LEMMA WriteDirBlockKeeps ==
  ASSUME IInv, NEW ok \in BOOLEAN, WriteDirBlock(ok)
  PROVE  IInv'
<1> DEFINE old == GetBlock(loc.node, loc.k)
<1> DEFINE b == IF old = 0 THEN FreeBlockNo(mem) ELSE old
<1> DEFINE m == IF old = 0 THEN AllocateBlock(mem) ELSE mem
<1> DEFINE node == SetBlock(loc.node, loc.k, b)
<1>1. /\ pc = "wdBlock" /\ UNCHANGED <<dsk, itab, fdt, image>>
  BY DEF WriteDirBlock
<1>2. /\ loc \in CallTypes /\ loc.ino \in Inode \ Reserved
      /\ loc.par \in Inode /\ loc.path # <<>> /\ loc.dir \in Inode
  BY <1>1, AtStep DEF CallSound
<1>3. After(mem, m) /\ m \in Allocator
  BY AtStep, AfterNothing, AfterAllocateBlock DEF After
<1>4. CASE UNCHANGED blk /\ \E o, n : \/ Fail(Rollback(mem, o, n))
                                      \/ Fail(Rollback(m, o, n))
  <2>1. PICK n : After(mem, n) /\ Fail(n)
    <3> HIDE DEF m
    <3> QED BY <1>3, <1>4, AtStep, AfterRollback, AfterBoth
  <2>2. After(mem, mem') /\ Return
    BY <1>1, <2>1, FailKeeps
  <2> QED BY <1>1, <1>4, <2>2, AtStep, ReturnKeeps, PartsKept
<1>5. CASE /\ b # None /\ mem' = m /\ blk' = [blk EXCEPT ![b] = DirBlock(Chunk)]
           /\ Goto("wdBlock", [loc EXCEPT !.node = node, !.k = @ + 1])
  <2>1. node \in Copies
    <3>1. loc.node \in Copies /\ loc.k \in Nat /\ NDirect \in Nat
      BY <1>2, DiskFSAssumption DEF CallTypes
    <3>2. loc.k \in 0 .. NDirect - 1 => b \in Block
      BY <1>5, <3>1, FreeBlockIsBlock DEF GetBlock, Copies, Pointers
    <3> HIDE DEF b
    <3> QED BY <3>1, <3>2, SetBlockTyped
  <2>2. DOMAIN blk' = Block /\ \A x \in Block : blk'[x].ents \in Seq(SoundRecs)
    <3>1. DirBlock(Chunk).ents \in Seq(SoundRecs)
      BY <1>2, ChunkTyped DEF DirBlock
    <3> HIDE DEF b
    <3> QED BY <1>5, <3>1, BlockWritten
  <2> HIDE DEF node
  <2>3. /\ loc' \in CallTypes /\ pc' = "wdBlock"
        /\ loc'.ino = loc.ino /\ loc'.par = loc.par /\ loc'.path = loc.path /\ loc'.dir = loc.dir
    <3> DEFINE k == loc.k + 1
    <3>1. pc' = "wdBlock" /\ loc' = [loc EXCEPT !.node = node, !.k = k]
      BY <1>5 DEF Goto
    <3>2. k \in Nat
      BY <1>2 DEF CallTypes
    <3> HIDE DEF k
    <3> QED BY <1>2, <2>1, <3>1, <3>2 DEF CallTypes
  <2>4. CallSound'
    BY <1>2, <2>3 DEF CallSound
  <2> HIDE DEF m
  <2>5. After(mem, mem')
    BY <1>3, <1>5
  <2> QED BY <1>1, <2>2, <2>3, <2>4, <2>5, AtStep, PartsKept
<1> QED BY <1>4, <1>5, Zenon DEF WriteDirBlock

LEMMA WriteDirInodeKeeps ==
  ASSUME IInv, NEW ok \in BOOLEAN, WriteDirInode(ok)
  PROVE  IInv'
<1> DEFINE node == [loc.node EXCEPT !.size = Len(loc.ents)]
<1>1. /\ pc = "wdBlock" /\ UNCHANGED <<dsk, blk, fdt, image>>
  BY DEF WriteDirInode
<1>2. /\ loc \in CallTypes /\ loc.ino \in Inode \ Reserved /\ mem \in Allocator
      /\ loc.par \in Inode /\ loc.path # <<>> /\ loc.dir \in Inode
  BY <1>1, AtStep DEF CallSound
<1>3. CASE Fail(Rollback(mem, loc.orig, loc.node)) /\ UNCHANGED itab
  <2>1. After(mem, mem') /\ Return
    BY <1>1, <1>2, <1>3, AfterRollback, FailKeeps
  <2> QED BY <1>1, <1>3, <2>1, AtStep, ReturnKeeps, PartsKept
<1>4. CASE /\ WriteInode(loc.dir, node)
           /\ mem' = IF loc.op = "unlink" THEN FreeInode(mem, loc.ino) ELSE mem
           /\ CASE loc.op = "open" -> Goto("created", loc)
                [] loc.op = "mkdir" /\ loc.dir = loc.ino -> Goto("entry", loc)
                [] OTHER -> Return
  <2>1. node \in Copies
    BY <1>2 DEF CallTypes, Copies
  <2>2. itab' \in [Inode -> InodeSlot]
    <3> HIDE DEF node
    <3> QED BY <1>2, <1>4, <2>1, AtStep, WriteInodeTyped
  <2>3. After(mem, mem')
    BY <1>2, <1>4, AfterNothing, AfterFreeInode
  <2>4. Return \/ (loc' = loc /\ pc' \in {"created", "entry"})
    BY <1>4 DEF Goto
  <2>5. loc' \in CallTypes /\ CallSound' /\ pc' # "flBmap"
    BY <1>2, <2>4, ReturnKeeps DEF CallSound
  <2> QED BY <1>1, <2>2, <2>3, <2>5, AtStep, PartsKept
<1> QED BY <1>3, <1>4 DEF WriteDirInode

LEMMA ReadBackKeeps ==
  ASSUME IInv, NEW ok \in BOOLEAN, ReadBack(ok)
  PROVE  IInv'
<1>1. pc = "created" /\ UNCHANGED <<mem, dsk, itab, blk, fdt, image>>
  BY DEF ReadBack
<1>2. loc \in CallTypes /\ loc.ino \in Inode /\ After(mem, mem')
  BY <1>1, AtStep, AfterNothing DEF CallSound
<1>3. loc' \in CallTypes /\ CallSound' /\ pc' # "flBmap"
  <2>1. CASE Return
    BY <2>1, ReturnKeeps
  <2>2. CASE Goto("opened", [NoCall EXCEPT !.op = "open", !.path = loc.path,
                                           !.flags = loc.flags, !.ino = loc.ino,
                                           !.node = ReadInode(loc.ino)])
    <3>1. ReadInode(loc.ino) \in Copies
      BY <1>2, AtStep, ReadInodeTyped
    <3>2. loc' \in CallTypes /\ pc' = "opened" /\ loc'.ino = loc.ino
      BY <1>2, <2>2, <3>1, StartTyped DEF CallTypes, Goto
    <3> QED BY <1>2, <3>2 DEF CallSound
  <2> QED BY <2>1, <2>2 DEF ReadBack
<1> QED BY <1>1, <1>2, <1>3, AtStep, PartsKept

LEMMA TruncateKeeps ==
  ASSUME IInv, NEW ok \in BOOLEAN, Truncate(ok)
  PROVE  IInv'
<1> DEFINE node == [FreshInode(loc.node.mode) EXCEPT !.tail = loc.node.tail]
<1>1. /\ pc = "opened" /\ mem' = FreeBlocks(mem, ChainBlocks(loc.node))
      /\ UNCHANGED <<dsk, blk, fdt, image>>
  BY DEF Truncate
<1>2. /\ loc \in CallTypes /\ loc.ino \in Inode /\ After(mem, mem')
  BY <1>1, AtStep, AfterFreeBlocks DEF CallSound
<1>3. CASE Return /\ UNCHANGED itab
  BY <1>1, <1>2, <1>3, AtStep, ReturnKeeps, PartsKept
<1>4. CASE WriteInode(loc.ino, node) /\ Goto("truncated", [loc EXCEPT !.node = node])
  <2>1. node \in Copies
    <3>1. loc.node.mode \in Modes /\ loc.node.tail \in Modes
      BY <1>2 DEF CallTypes, Copies
    <3>2. FreshInode(loc.node.mode) \in Copies
      BY <3>1, StartTyped
    <3> QED BY <3>1, <3>2 DEF Copies
  <2> HIDE DEF node
  <2>2. itab' \in [Inode -> InodeSlot]
    BY <1>2, <1>4, <2>1, AtStep, WriteInodeTyped
  <2>3. loc' \in CallTypes /\ pc' = "truncated" /\ loc'.ino = loc.ino
    BY <1>2, <1>4, <2>1 DEF CallTypes, Goto
  <2>4. CallSound'
    BY <1>2, <2>3 DEF CallSound
  <2> QED BY <1>1, <1>2, <2>2, <2>3, <2>4, AtStep, PartsKept
<1> QED BY <1>3, <1>4 DEF Truncate

LEMMA OpenFdKeeps ==
  ASSUME IInv, OpenFd
  PROVE  IInv'
<1> DEFINE free == {f \in Fd : fdt[f] = NoFd}
<1> DEFINE fd == Min(free)
<1> DEFINE d == [ino |-> loc.ino, flags |-> loc.flags,
                 off |-> IF "A" \in loc.flags THEN loc.node.size ELSE 0]
<1>1. /\ pc \in {"truncated", "opened"} /\ Return /\ UNCHANGED <<mem, dsk, itab, blk, image>>
      /\ fdt' = IF free = {} THEN fdt ELSE [fdt EXCEPT ![fd] = d]
  BY DEF OpenFd
<1>2. d \in OpenFds
  <2>1. loc \in CallTypes /\ loc.ino \in Inode
    BY <1>1, AtStep DEF CallSound
  <2> QED BY <2>1 DEF CallTypes, Copies, OpenFds
<1>3. fdt' \in [Fd -> {NoFd} \cup OpenFds]
  <2> HIDE DEF free, fd, d
  <2> QED BY <1>1, <1>2, AtStep
<1>4. After(mem, mem')
  BY <1>1, AtStep, AfterNothing
<1> QED BY <1>1, <1>3, <1>4, AtStep, ReturnKeeps, PartsKept

LEMMA ReadKeeps ==
  ASSUME IInv, NEW fd \in Fd, NEW n \in Nat, Read(fd, n)
  PROVE  IInv'
<1> DEFINE size == itab[fdt[fd].ino].size
<1> DEFINE S == {fdt[fd].off + n, size} \cup Among(fd, 0)
<1>1. /\ pc = "idle" /\ fdt[fd] # NoFd /\ UNCHANGED <<mem, dsk, itab, blk, pc, loc, image>>
      /\ fdt' = [fdt EXCEPT ![fd].off = Min(S)]
  BY DEF Read, Begin
<1>2. fdt[fd] \in OpenFds /\ size \in Nat
  <2>1. fdt[fd] \in OpenFds
    BY <1>1, AtStep
  <2> QED BY <2>1, AtStep DEF OpenFds, InodeSlot
<1>3. Min(S) \in Nat
  <2>1. S \in SUBSET Nat /\ S # {}
    BY <1>2 DEF OpenFds, Among
  <2> HIDE DEF S
  <2> QED BY <2>1, MinIsLowest
<1> HIDE DEF S
<1>4. [fdt[fd] EXCEPT !.off = Min(S)] \in OpenFds
  BY <1>2, <1>3 DEF OpenFds
<1>5. fdt' \in [Fd -> {NoFd} \cup OpenFds]
  <2> DEFINE d == [fdt[fd] EXCEPT !.off = Min(S)]
  <2>1. fdt' = [fdt EXCEPT ![fd] = d]
    BY <1>1
  <2> HIDE DEF d
  <2> QED BY <1>4, <2>1, AtStep DEF d
<1>6. After(mem, mem') /\ loc' \in CallTypes /\ CallSound' /\ pc' # "flBmap"
  BY <1>1, AtStep, AfterNothing DEF CallSound
<1> QED BY <1>1, <1>5, <1>6, AtStep, PartsKept

LEMMA WriteKeeps ==
  ASSUME IInv, NEW fd \in Fd, NEW n \in Nat, NEW v \in Values, Write(fd, n, v)
  PROVE  IInv'
<1> DEFINE node == ReadInode(fdt[fd].ino)
<1>1. /\ pc = "idle" /\ fdt[fd] # NoFd /\ UNCHANGED <<mem, dsk, itab, blk, fdt, image>>
      /\ pc' = "wrBlock"
      /\ loc' = [NoCall EXCEPT !.op = "write", !.fd = fd, !.ino = fdt[fd].ino,
                               !.node = node, !.orig = node, !.k = fdt[fd].off,
                               !.left = n, !.val = v]
  BY DEF Write, Begin, Goto
<1>2. fdt[fd] \in OpenFds
  BY <1>1, AtStep
<1>3. fdt[fd].ino \in Inode /\ fdt[fd].off \in Nat
  BY <1>2 DEF OpenFds
<1>4. node \in Copies
  BY <1>3, AtStep, ReadInodeTyped
<1> HIDE DEF node
<1>5. loc' \in CallTypes /\ loc'.ino = fdt[fd].ino /\ loc'.fd = fd
  BY <1>1, <1>3, <1>4, StartTyped DEF CallTypes
<1>6. CallSound'
  BY <1>1, <1>3, <1>5 DEF CallSound
<1>7. After(mem, mem')
  BY <1>1, AtStep, AfterNothing
<1> QED BY <1>1, <1>5, <1>6, <1>7, AtStep, PartsKept

LEMMA WriteBlockKeeps ==
  ASSUME IInv, NEW ok \in BOOLEAN, WriteBlock(ok)
  PROVE  IInv'
<1> DEFINE old == GetBlock(loc.node, loc.k)
<1> DEFINE b == IF old = 0 THEN FreeBlockNo(mem) ELSE old
<1> DEFINE m == IF old = 0 THEN AllocateBlock(mem) ELSE mem
<1> DEFINE node == IF old = 0 THEN SetBlock(loc.node, loc.k, b) ELSE loc.node
<1>1. /\ pc = "wrBlock" /\ loc.left > 0 /\ UNCHANGED <<dsk, itab, fdt, image>>
  BY DEF WriteBlock
<1>2. /\ loc \in CallTypes /\ loc.ino \in Inode /\ loc.fd \in Fd /\ fdt[loc.fd] # NoFd
  BY <1>1, AtStep DEF CallSound
<1>3. After(mem, m) /\ m \in Allocator
  BY AtStep, AfterNothing, AfterAllocateBlock DEF After
<1>4. CASE UNCHANGED blk /\ Return /\ \E o, n : \/ mem' = Rollback(mem, o, n)
                                                \/ mem' = Rollback(m, o, n)
  <2>1. After(mem, mem')
    <3> HIDE DEF m
    <3> QED BY <1>3, <1>4, AtStep, AfterRollback, AfterBoth
  <2> QED BY <1>1, <1>4, <2>1, AtStep, ReturnKeeps, PartsKept
<1>5. CASE /\ b # None /\ mem' = m /\ blk' = [blk EXCEPT ![b] = DataBlock(loc.val)]
           /\ Goto("wrBlock", [loc EXCEPT !.node = node, !.k = @ + 1, !.left = @ - 1])
  <2>1. node \in Copies
    <3>1. loc.node \in Copies
      BY <1>2 DEF CallTypes
    <3>2. CASE old = 0
      <4>1. b \in Block
        BY <1>5, <3>2, FreeBlockIsBlock
      <4> HIDE DEF b
      <4>2. SetBlock(loc.node, loc.k, b) \in Copies
        BY <3>1, <4>1, SetBlockTyped
      <4> QED BY <3>2, <4>2
    <3> QED BY <3>1, <3>2
  <2>2. DOMAIN blk' = Block /\ \A x \in Block : blk'[x].ents \in Seq(SoundRecs)
    <3>1. DataBlock(loc.val).ents \in Seq(SoundRecs)
      BY DEF DataBlock
    <3> HIDE DEF b
    <3> QED BY <1>5, <3>1, BlockWritten
  <2> HIDE DEF node
  <2>3. /\ loc' \in CallTypes /\ pc' = "wrBlock" /\ loc'.ino = loc.ino /\ loc'.fd = loc.fd
    <3> DEFINE k == loc.k + 1
    <3> DEFINE left == loc.left - 1
    <3>1. pc' = "wrBlock" /\ loc' = [loc EXCEPT !.node = node, !.k = k, !.left = left]
      BY <1>5 DEF Goto
    <3>2. k \in Nat /\ left \in Nat
      BY <1>1, <1>2 DEF CallTypes
    <3> HIDE DEF k, left
    <3> QED BY <1>2, <2>1, <3>1, <3>2 DEF CallTypes
  <2>4. CallSound'
    BY <1>1, <1>2, <2>3 DEF CallSound
  <2> HIDE DEF m
  <2>5. After(mem, mem')
    BY <1>3, <1>5
  <2> QED BY <1>1, <2>2, <2>3, <2>4, <2>5, AtStep, PartsKept
<1> QED BY <1>4, <1>5, Zenon DEF WriteBlock

LEMMA WriteEndKeeps ==
  ASSUME IInv, NEW ok \in BOOLEAN, WriteEnd(ok)
  PROVE  IInv'
<1> DEFINE S == {loc.node.size, loc.k}
<1> DEFINE node == [loc.node EXCEPT !.size = Max(S)]
<1>1. /\ pc = "wrBlock" /\ fdt' = [fdt EXCEPT ![loc.fd].off = loc.k]
      /\ UNCHANGED <<dsk, blk, image>>
  BY DEF WriteEnd
<1>2. /\ loc \in CallTypes /\ loc.ino \in Inode /\ loc.fd \in Fd /\ fdt[loc.fd] \in OpenFds
  BY <1>1, AtStep DEF CallSound
<1>3. fdt' \in [Fd -> {NoFd} \cup OpenFds]
  <2> DEFINE d == [fdt[loc.fd] EXCEPT !.off = loc.k]
  <2>1. d \in OpenFds
    BY <1>2 DEF OpenFds, CallTypes
  <2>2. fdt' = [fdt EXCEPT ![loc.fd] = d]
    BY <1>1
  <2> HIDE DEF d
  <2> QED BY <2>1, <2>2, AtStep
<1>4. CASE mem' = Rollback(mem, loc.orig, loc.node) /\ Return /\ UNCHANGED itab
  <2>1. After(mem, mem')
    BY <1>4, AtStep, AfterRollback
  <2> QED BY <1>1, <1>3, <1>4, <2>1, AtStep, ReturnKeeps, PartsKept
<1>5. CASE /\ WriteInode(loc.ino, node) /\ UNCHANGED mem
           /\ Goto("flSuper", [NoCall EXCEPT !.op = "write", !.fd = loc.fd])
  <2>1. node \in Copies
    <3>1. loc.node \in Copies /\ loc.node.size \in Nat /\ loc.k \in Nat
      BY <1>2 DEF CallTypes, Copies
    <3>2. \E x \in S : \A y \in S : x >= y
      <4>1. CASE loc.node.size >= loc.k
        BY <3>1, <4>1
      <4>2. CASE loc.k >= loc.node.size
        BY <3>1, <4>2
      <4> QED BY <3>1, <4>1, <4>2
    <3>3. Max(S) \in S
      BY <3>2 DEF Max
    <3>4. Max(S) \in Nat
      BY <3>1, <3>3
    <3> HIDE DEF S
    <3> QED BY <3>1, <3>4 DEF Copies
  <2> HIDE DEF node
  <2>2. itab' \in [Inode -> InodeSlot]
    BY <1>2, <1>5, <2>1, AtStep, WriteInodeTyped
  <2>3. loc' \in CallTypes /\ pc' = "flSuper"
    BY <1>2, <1>5, StartTyped DEF CallTypes, Goto
  <2>4. CallSound'
    BY <2>3 DEF CallSound
  <2>5. After(mem, mem')
    BY <1>5, AtStep, AfterNothing
  <2> QED BY <1>1, <1>3, <2>2, <2>3, <2>4, <2>5, AtStep, PartsKept
<1> QED BY <1>4, <1>5 DEF WriteEnd

LEMMA CloseKeeps ==
  ASSUME IInv, NEW fd \in Fd, Close(fd)
  PROVE  IInv'
<1>1. /\ pc = "idle" /\ pc' = "flSuper"
      /\ loc' = [NoCall EXCEPT !.op = "close", !.fd = fd]
      /\ UNCHANGED <<mem, dsk, itab, blk, fdt, image>>
  BY DEF Close, Begin, Goto
<1>2. loc' \in CallTypes
  BY <1>1, StartTyped DEF CallTypes
<1>3. CallSound'
  BY <1>1 DEF CallSound
<1>4. After(mem, mem')
  BY <1>1, AtStep, AfterNothing
<1> QED BY <1>1, <1>2, <1>3, <1>4, AtStep, PartsKept

-----------------------------------------------------------------------------
(* The flush, the power failure and the initial state.                     *)

\* The end of a flush, also of the one that closes a descriptor.
LEMMA FlushedKeeps ==
  ASSUME IInv, Flushed
  PROVE  fdt' \in [Fd -> {NoFd} \cup OpenFds] /\ loc' \in CallTypes /\ CallSound' /\ pc' # "flBmap"
<1>1. fdt' \in [Fd -> {NoFd} \cup OpenFds]
  BY AtStep DEF Flushed
<1> QED BY <1>1, ReturnKeeps DEF Flushed

LEMMA FlushSuperKeeps ==
  ASSUME IInv, NEW ok \in BOOLEAN, FlushSuper(ok)
  PROVE  IInv'
<1>1. /\ pc = "flSuper" /\ (ok \/ mem.sbDirty) /\ UNCHANGED <<itab, blk>>
      /\ dsk' = IF mem.sbDirty /\ ok THEN [dsk EXCEPT !.freeI = mem.freeI, !.freeB = mem.freeB]
                ELSE dsk
      /\ image' = IF ok \/ image = "torn" THEN image ELSE "stale"
      /\ mem' = [mem EXCEPT !.sbDirty = FALSE]
      /\ IF mem.bmDirty THEN Goto("flImap", loc) /\ UNCHANGED fdt ELSE Flushed
  BY DEF FlushSuper
<1>2. mem \in Allocator /\ dsk \in Image
  BY DEF IInv, Typed
<1>3. fdt' \in [Fd -> {NoFd} \cup OpenFds] /\ loc' \in CallTypes /\ CallSound' /\ pc' # "flBmap"
  <2>1. CASE Goto("flImap", loc) /\ UNCHANGED fdt
    BY <2>1, AtStep DEF Goto, CallSound
  <2> QED BY <1>1, <2>1, FlushedKeeps
<1>4. /\ mem' \in Allocator /\ dsk' \in Image
      /\ mem'.imap = mem.imap /\ mem'.bmap = mem.bmap
      /\ mem'.freeI = mem.freeI /\ mem'.freeB = mem.freeB
      /\ dsk'.imap = dsk.imap /\ dsk'.bmap = dsk.bmap
  BY <1>1, <1>2 DEF Allocator, Image
<1>5. mem'.bmDirty = mem.bmDirty
  BY <1>1, <1>2 DEF Allocator
<1>6. Typed'
  BY <1>1, <1>3, <1>4 DEF IInv, Typed
<1>7. CountersExact'
  BY <1>1, <1>4 DEF IInv, CountersExact, Exact
<1>8. FlagsMissNothing'
  <2>1. SUFFICES ASSUME image' = "good"
                 PROVE  /\ dsk'.freeI = mem'.freeI /\ dsk'.freeB = mem'.freeB
                        /\ ~mem.bmDirty => dsk'.imap = mem'.imap /\ dsk'.bmap = mem'.bmap
    BY <1>3, <1>5 DEF FlagsMissNothing
  <2>2. ok /\ image = "good"
    BY <1>1, <2>1
  <2>3. dsk'.freeI = mem'.freeI /\ dsk'.freeB = mem'.freeB
    <3>1. CASE mem.sbDirty
      BY <1>1, <1>2, <1>4, <2>2, <3>1 DEF Image
    <3>2. CASE ~mem.sbDirty
      BY <1>1, <1>4, <2>2, <3>2 DEF IInv, FlagsMissNothing
    <3> QED BY <3>1, <3>2
  <2> QED BY <1>4, <2>2, <2>3 DEF IInv, FlagsMissNothing
<1> QED BY <1>3, <1>4, <1>6, <1>7, <1>8 DEF IInv

LEMMA FlushInodeBitmapKeeps ==
  ASSUME IInv, NEW ok \in BOOLEAN, FlushInodeBitmap(ok)
  PROVE  IInv'
<1>1. /\ pc = "flImap" /\ UNCHANGED <<itab, blk>>
      /\ image' = IF ok \/ image = "torn" THEN image ELSE "stale"
  BY DEF FlushInodeBitmap
<1>2. mem \in Allocator /\ dsk \in Image
  BY DEF IInv, Typed
<1>3. CASE ok
  <2>1. /\ dsk' = [dsk EXCEPT !.imap = mem.imap] /\ pc' = "flBmap" /\ loc' = loc
        /\ UNCHANGED <<mem, fdt>> /\ image' = image
    BY <1>1, <1>3 DEF FlushInodeBitmap, Goto
  <2>2. dsk' \in Image /\ dsk'.imap = mem.imap /\ dsk'.bmap = dsk.bmap
        /\ dsk'.freeI = dsk.freeI /\ dsk'.freeB = dsk.freeB
    BY <1>2, <2>1 DEF Allocator, Image
  <2>3. Typed' /\ CallSound'
    BY <1>1, <2>1, <2>2 DEF IInv, Typed, CallSound
  <2>4. CountersExact' /\ FlagsMissNothing'
    BY <2>1, <2>2 DEF IInv, CountersExact, Exact, FlagsMissNothing
  <2> QED BY <2>1, <2>2, <2>3, <2>4 DEF IInv
<1>4. CASE ~ok
  <2>1. /\ mem' = [mem EXCEPT !.bmDirty = FALSE] /\ Flushed /\ UNCHANGED dsk
        /\ image' # "good" /\ image' \in {"stale", "torn"} /\ (image = "torn" <=> image' = "torn")
    BY <1>1, <1>4, <1>2 DEF FlushInodeBitmap
  <2>2. /\ mem' \in Allocator
        /\ mem'.imap = mem.imap /\ mem'.bmap = mem.bmap
        /\ mem'.freeI = mem.freeI /\ mem'.freeB = mem.freeB
    BY <1>2, <2>1 DEF Allocator
  <2>3. Typed' /\ CallSound'
    BY <1>1, <2>1, <2>2, FlushedKeeps DEF IInv, Typed
  <2>4. CountersExact' /\ FlagsMissNothing'
    BY <2>1, <2>2 DEF IInv, CountersExact, Exact, FlagsMissNothing
  <2> QED BY <2>1, <2>2, <2>3, <2>4 DEF IInv
<1> QED BY <1>3, <1>4

LEMMA FlushBlockBitmapKeeps ==
  ASSUME IInv, NEW ok \in BOOLEAN, FlushBlockBitmap(ok)
  PROVE  IInv'
<1>1. /\ pc = "flBmap" /\ UNCHANGED <<itab, blk>> /\ Flushed
      /\ image' = IF ok \/ image = "torn" THEN image ELSE "stale"
      /\ dsk' = IF ok THEN [dsk EXCEPT !.bmap = mem.bmap] ELSE dsk
      /\ mem' = [mem EXCEPT !.bmDirty = FALSE]
  BY DEF FlushBlockBitmap
<1>2. mem \in Allocator /\ dsk \in Image
  BY DEF IInv, Typed
<1>3. fdt' \in [Fd -> {NoFd} \cup OpenFds] /\ loc' \in CallTypes /\ CallSound' /\ pc' # "flBmap"
  BY <1>1, FlushedKeeps
<1>4. /\ mem' \in Allocator /\ dsk' \in Image
      /\ mem'.imap = mem.imap /\ mem'.bmap = mem.bmap
      /\ mem'.freeI = mem.freeI /\ mem'.freeB = mem.freeB
      /\ dsk'.imap = dsk.imap /\ dsk'.freeI = dsk.freeI /\ dsk'.freeB = dsk.freeB
      /\ ok => dsk'.bmap = mem.bmap
  BY <1>1, <1>2 DEF Allocator, Image
<1>5. mem'.sbDirty = mem.sbDirty
  BY <1>1, <1>2 DEF Allocator
<1>6. Typed'
  BY <1>1, <1>3, <1>4 DEF IInv, Typed
<1>7. CountersExact'
  BY <1>1, <1>4 DEF IInv, CountersExact, Exact
<1>8. FlagsMissNothing'
  <2>1. SUFFICES ASSUME image' = "good"
                 PROVE  /\ ~mem.sbDirty => dsk'.freeI = mem'.freeI /\ dsk'.freeB = mem'.freeB
                        /\ dsk'.imap = mem'.imap /\ dsk'.bmap = mem'.bmap
    BY <1>3, <1>5 DEF FlagsMissNothing
  <2>2. ok /\ image = "good"
    BY <1>1, <2>1
  <2> QED BY <1>1, <1>4, <2>2 DEF IInv, FlagsMissNothing
<1> QED BY <1>3, <1>4, <1>6, <1>7, <1>8 DEF IInv

\* What a mount loads is as good as what the last flush saved.
LEMMA PowerFailureKeeps ==
  ASSUME IInv, PowerFailure
  PROVE  IInv'
<1>1. /\ mem' = Load(dsk) /\ fdt' = [f \in Fd |-> NoFd] /\ Return /\ UNCHANGED <<dsk, itab, blk>>
      /\ image' = IF pc # "idle" \/ mem.sbDirty \/ mem.bmDirty \/ image # "good" THEN "torn"
                  ELSE "good"
  BY DEF PowerFailure, Reload
<1>2. dsk \in Image
  BY DEF IInv, Typed
<1>3. mem' \in Allocator /\ mem'.imap = dsk.imap /\ mem'.bmap = dsk.bmap
      /\ mem'.freeI = dsk.freeI /\ mem'.freeB = dsk.freeB
  BY <1>1, <1>2 DEF Load, Allocator, Image
<1>4. loc' \in CallTypes /\ CallSound' /\ pc' # "flBmap"
  BY <1>1, ReturnKeeps
<1>5. Typed'
  BY <1>1, <1>3, <1>4 DEF IInv, Typed
<1>6. CountersExact'
  BY <1>1, <1>3 DEF IInv, CountersExact, Exact, FlagsMissNothing
<1>7. FlagsMissNothing'
  BY <1>1, <1>3, <1>4 DEF FlagsMissNothing
<1> QED BY <1>1, <1>3, <1>4, <1>5, <1>6, <1>7 DEF IInv

\* The counters of a formatted image are exact: the root took an inode of those
\* that were not reserved, and the two directories took three blocks.
LEMMA FormattedExact ==
  /\ FormattedMem \in Allocator
  /\ FormattedMem.imap = {0, Root, Tmp} /\ FormattedMem.bmap = {0, 1, 2}
  /\ FormattedMem.freeI = NInodes - 1 /\ FormattedMem.freeB = NBlocks - 3
  /\ Exact(FormattedMem)
<1>1. NBlocks \in Nat /\ NInodes \in Nat /\ NBlocks > 3 /\ NInodes > 3
  BY SizeAssumption, DiskFSAssumption
<1>2. {0, 1, 2} \subseteq Block /\ {0, 1, 2} \subseteq Inode
  BY StartTyped
<1>3. Load(Formatted) \in Allocator /\ Load(Formatted).freeI = NInodes
      /\ Load(Formatted).freeB = NBlocks
  BY <1>1, <1>2 DEF Load, Formatted, Allocator, Reserved
<1>4. /\ FormattedMem \in Allocator
      /\ FormattedMem.imap = {0, Root, Tmp} /\ FormattedMem.bmap = {0, 1, 2}
      /\ FormattedMem.freeI = NInodes - 1 /\ FormattedMem.freeB = NBlocks - 3
  <2> DEFINE i == NInodes - 1
  <2> DEFINE b == NBlocks - 3
  <2>1. FormattedMem = [Load(Formatted) EXCEPT !.imap = {0, Root, Tmp}, !.bmap = {0, 1, 2},
                                               !.freeI = i, !.freeB = b]
    <3> HIDE DEF i, b
    <3> QED BY <1>3 DEF FormattedMem, i, b
  <2>2. i \in 0 .. NInodes /\ b \in 0 .. NBlocks
    BY <1>1
  <2>3. {0, Root, Tmp} \in SUBSET Inode /\ {0, 1, 2} \in SUBSET Block
    BY <1>2 DEF Root, Tmp
  <2> HIDE DEF i, b
  <2>4. /\ FormattedMem \in Allocator
        /\ FormattedMem.imap = {0, Root, Tmp} /\ FormattedMem.bmap = {0, 1, 2}
        /\ FormattedMem.freeI = i /\ FormattedMem.freeB = b
    BY <1>3, <2>1, <2>2, <2>3 DEF Allocator
  <2> QED BY <2>4 DEF i, b
<1>5. Cardinality(Inode \ {0, 1, 2}) = NInodes - 3
  <2>1. 2 \in Inode /\ 2 \notin Reserved /\ Reserved \in SUBSET Inode /\ IsFiniteSet(Inode)
    BY <1>2, IndexSets DEF Reserved
  <2>2. Cardinality(Inode \ (Reserved \cup {2})) = Cardinality(Inode \ Reserved) - 1
    BY <2>1, ClearBits
  <2>3. Reserved \cup {2} = {0, 1, 2}
    BY DEF Reserved
  <2> QED BY <1>1, <2>2, <2>3, IndexSets
<1>6. Cardinality(Block \ {0, 1, 2}) = NBlocks - 3
  <2>1. IsFiniteSet(Block) /\ Cardinality(Block) = NBlocks
    BY IndexSets
  <2>2. Cardinality(Block \ ({} \cup {0})) = Cardinality(Block \ {}) - 1
    <3>1. {} \in SUBSET Block /\ 0 \in Block /\ 0 \notin {}
      BY <1>2
    <3> QED BY <2>1, <3>1, ClearBits
  <2>3. Cardinality(Block \ ({0} \cup {1})) = Cardinality(Block \ {0}) - 1
    <3>1. {0} \in SUBSET Block /\ 1 \in Block /\ 1 \notin {0}
      BY <1>2
    <3> QED BY <2>1, <3>1, ClearBits
  <2>4. Cardinality(Block \ ({0, 1} \cup {2})) = Cardinality(Block \ {0, 1}) - 1
    <3>1. {0, 1} \in SUBSET Block /\ 2 \in Block /\ 2 \notin {0, 1}
      BY <1>2
    <3> QED BY <2>1, <3>1, ClearBits
  <2>5. Block \ {} = Block /\ {} \cup {0} = {0} /\ {0} \cup {1} = {0, 1}
        /\ {0, 1} \cup {2} = {0, 1, 2}
    OBVIOUS
  <2>6. Cardinality(Block \ {0}) = NBlocks - 1
    BY <2>1, <2>2, <2>5
  <2>7. Cardinality(Block \ {0, 1}) = NBlocks - 1 - 1
    BY <2>3, <2>5, <2>6
  <2>8. Cardinality(Block \ {0, 1, 2}) = NBlocks - 1 - 1 - 1
    BY <2>4, <2>5, <2>7
  <2>9. NBlocks \in Nat
    BY <1>1
  <2>10. NBlocks - 1 - 1 - 1 = NBlocks - 3
    BY <2>9
  <2> QED BY <2>8, <2>10
<1>7. Exact(FormattedMem)
  <2>1. {0, Root, Tmp} = {0, 1, 2}
    BY DEF Root, Tmp
  <2> QED BY <1>1, <1>4, <1>5, <1>6, <2>1, ReservedSize DEF Exact
<1> QED BY <1>4, <1>7

LEMMA InitIInv == Init => IInv
<1> SUFFICES ASSUME Init  PROVE IInv
  OBVIOUS
<1>1. mem \in Allocator /\ Exact(mem) /\ Reserved \subseteq mem.imap
  BY FormattedExact DEF Init, Reserved, Root
<1>2. /\ dsk \in Image /\ dsk.imap = mem.imap /\ dsk.bmap = mem.bmap
      /\ dsk.freeI = mem.freeI /\ dsk.freeB = mem.freeB
  BY <1>1 DEF Init, Allocator, Image
<1>3. itab \in [Inode -> InodeSlot]
  <2> DEFINE slot(node) == [mode |-> node.mode, size |-> node.size, direct |-> node.direct]
  <2> DEFINE first(i) == CASE i = Root -> [SetBlock(FreshInode("dir"), 0, 2) EXCEPT !.size = 1]
                           [] i = Tmp -> [SetBlock(FreshInode("dir"), 0, 1) EXCEPT !.size = 2]
                           [] OTHER -> FreshInode("file")
  <2>1. FreshInode("dir") \in Copies /\ FreshInode("file") \in Copies
    BY StartTyped DEF Modes
  <2>2. SetBlock(FreshInode("dir"), 0, 2) \in Copies /\ SetBlock(FreshInode("dir"), 0, 1) \in Copies
    BY <2>1, SetBlockTyped, StartTyped
  <2>3. /\ [SetBlock(FreshInode("dir"), 0, 2) EXCEPT !.size = 1] \in Copies
        /\ [SetBlock(FreshInode("dir"), 0, 1) EXCEPT !.size = 2] \in Copies
    BY <2>2 DEF Copies
  <2>4. \A i \in Inode : first(i) \in Copies
    BY <2>1, <2>3
  <2>5. \A n \in Copies : slot(n) \in InodeSlot
    BY DEF Copies, InodeSlot, Modes, Pointers
  <2>6. itab = [i \in Inode |-> slot(first(i))]
    BY DEF Init
  <2> HIDE DEF first, slot
  <2> QED BY <2>4, <2>5, <2>6
<1>4. DOMAIN blk = Block /\ \A b \in Block : blk[b].ents \in Seq(SoundRecs)
  <2>1. /\ Rec(".", Root) \in SoundRecs /\ Rec("..", Root) \in SoundRecs
        /\ Rec(".", Tmp) \in SoundRecs /\ Rec("tmp", Tmp) \in SoundRecs
    <3>1. Root \in Inode /\ Tmp \in Inode /\ Tmp \notin Reserved
      BY StartTyped DEF Root, Tmp, Reserved
    <3> QED BY <3>1 DEF Rec, SoundRecs, Dots, Names
  <2>2. /\ <<Rec(".", Root), Rec("..", Root)>> \in Seq(SoundRecs)
        /\ <<Rec(".", Tmp), Rec("..", Root)>> \in Seq(SoundRecs)
        /\ <<Rec("tmp", Tmp)>> \in Seq(SoundRecs) /\ <<>> \in Seq(SoundRecs)
    BY <2>1
  <2>3. \A b \in Block :
          blk[b] = CASE b = 0 -> DirBlock(<<Rec(".", Root), Rec("..", Root)>>)
                     [] b = 1 -> DirBlock(<<Rec(".", Tmp), Rec("..", Root)>>)
                     [] b = 2 -> DirBlock(<<Rec("tmp", Tmp)>>)
                     [] OTHER -> ZeroBlock
    BY DEF Init
  <2>4. DOMAIN blk = Block
    BY DEF Init
  <2>5. \A es : DirBlock(es).ents = es
    BY DEF DirBlock
  <2>6. ZeroBlock.ents = <<>>
    BY DEF ZeroBlock
  <2>7. ASSUME NEW b \in Block  PROVE blk[b].ents \in Seq(SoundRecs)
    <3>1. CASE b = 0
      <4>1. blk[0] = DirBlock(<<Rec(".", Root), Rec("..", Root)>>)
        BY <3>1 DEF Init
      <4> QED BY <2>2, <2>5, <3>1, <4>1
    <3>2. CASE b = 1
      <4>1. blk[1] = DirBlock(<<Rec(".", Tmp), Rec("..", Root)>>)
        BY <3>2 DEF Init
      <4> QED BY <2>2, <2>5, <3>2, <4>1
    <3>3. CASE b = 2
      <4>1. blk[2] = DirBlock(<<Rec("tmp", Tmp)>>)
        BY <3>3 DEF Init
      <4> QED BY <2>2, <2>5, <3>3, <4>1
    <3>4. CASE b \notin {0, 1, 2}
      <4>1. blk[b] = ZeroBlock
        BY <2>3, <3>4
      <4> QED BY <2>2, <2>6, <4>1
    <3> QED BY <3>1, <3>2, <3>3, <3>4
  <2> QED BY <2>4, <2>7
<1>5. /\ fdt \in [Fd -> {NoFd} \cup OpenFds] /\ loc \in CallTypes
      /\ image = "good" /\ pc = "idle" /\ CallSound
  BY StartTyped DEF Init, CallSound
<1>6. CountersExact /\ FlagsMissNothing
  BY <1>1, <1>2, <1>5 DEF CountersExact, FlagsMissNothing
<1> QED BY <1>1, <1>2, <1>3, <1>4, <1>5, <1>6 DEF IInv, Typed

LEMMA NextIInv == IInv /\ [Next]_vars => IInv'
<1> SUFFICES ASSUME IInv, [Next]_vars  PROVE IInv'
  OBVIOUS
<1>0. 1 .. MaxWrite \subseteq Nat
  BY DiskFSAssumption
<1>1. ASSUME NEW fl \in Flags, NEW p \in FilePaths, NEW ok \in BOOLEAN, Open(p, fl, ok)
      PROVE  IInv'
  BY <1>1, OpenKeeps
<1>2. ASSUME NEW p \in DirPaths, Mkdir(p)  PROVE IInv'
  BY <1>2, MkdirKeeps
<1>3. ASSUME NEW p \in FilePaths \cup DirPaths, Unlink(p)  PROVE IInv'
  BY <1>3, UnlinkKeeps
<1>4. ASSUME NEW fd \in Fd, NEW n \in 1 .. MaxWrite, Read(fd, n)  PROVE IInv'
  BY <1>0, <1>4, ReadKeeps
<1>5. ASSUME NEW fd \in Fd, NEW n \in 1 .. MaxWrite, NEW v \in Values, Write(fd, n, v)
      PROVE  IInv'
  BY <1>0, <1>5, WriteKeeps
<1>6. ASSUME NEW fd \in Fd, Close(fd)  PROVE IInv'
  BY <1>6, CloseKeeps
<1>7. ASSUME OpenFd  PROVE IInv'
  BY <1>7, OpenFdKeeps
<1>8. ASSUME PowerFailure  PROVE IInv'
  BY <1>8, PowerFailureKeeps
<1>9. ASSUME NEW ok \in BOOLEAN,
             \/ NewInode(ok) \/ Entry(ok) \/ WriteDirBlock(ok) \/ WriteDirInode(ok)
             \/ ReadBack(ok) \/ Truncate(ok)
      PROVE  IInv'
  BY <1>9, NewInodeKeeps, EntryKeeps, WriteDirBlockKeeps, WriteDirInodeKeeps,
     ReadBackKeeps, TruncateKeeps
<1>10. ASSUME NEW ok \in BOOLEAN,
              \/ WriteBlock(ok) \/ WriteEnd(ok)
              \/ FlushSuper(ok) \/ FlushInodeBitmap(ok) \/ FlushBlockBitmap(ok)
       PROVE  IInv'
  BY <1>10, WriteBlockKeeps, WriteEndKeeps, FlushSuperKeeps, FlushInodeBitmapKeeps,
     FlushBlockBitmapKeeps
<1>11. CASE UNCHANGED vars
  BY <1>11 DEF vars, IInv, Typed, CallSound, CountersExact, FlagsMissNothing
<1> QED BY <1>1, <1>2, <1>3, <1>4, <1>5, <1>6, <1>7, <1>8, <1>9, <1>10, <1>11 DEF Next

-----------------------------------------------------------------------------
\* The file system's state is well typed and its calls are sound on every disk
\* and for every set of paths, through failed disk accesses and power failures.
THEOREM InvariantHolds == Spec => []IInv
BY InitIInv, NextIInv, PTL DEF Spec

\* For every disk size: no call, with all of its error paths and rollbacks, ever
\* counts a block or an inode twice or not at all, and a mount after a flush finds
\* the counters exact (filesystem_disk.c:251-324, 452-583; the rollbacks at
\* filesystem_inode.c:193-214 and filesystem_fileio.c:350-402).
THEOREM CountersExactHolds == Spec => []CountersExact
<1>1. IInv => CountersExact
  BY DEF IInv
<1> QED BY <1>1, InvariantHolds, PTL

\* Every pointer on the disk is the number of a block, every record names an inode,
\* and only "." and ".." name a reserved one (filesystem_inode.c:101-145).
THEOREM TypeCorrect == Spec => [](TypeOK /\ Typed)
<1>1. ASSUME IInv  PROVE TypeOK
  <2>1. loc \in CallTypes /\ Typed
    BY <1>1, AtStep
  <2>2. \A b \in Block : \A e \in DOMAIN blk[b].ents : blk[b].ents[e].ino \in Inode
    <3>1. SUFFICES ASSUME NEW b \in Block, NEW e \in DOMAIN blk[b].ents
                   PROVE  blk[b].ents[e].ino \in Inode
      OBVIOUS
    <3>2. blk[b].ents[e] \in SoundRecs
      BY <1>1, <3>1, AtStep
    <3> QED BY <3>2 DEF SoundRecs
  <2>3. \A f \in Fd : fdt[f] = NoFd \/ (fdt[f].ino \in Inode /\ fdt[f].off \in Nat)
    <3>1. SUFFICES ASSUME NEW f \in Fd, fdt[f] # NoFd
                   PROVE  fdt[f].ino \in Inode /\ fdt[f].off \in Nat
      OBVIOUS
    <3>2. fdt[f] \in OpenFds
      BY <1>1, <3>1, AtStep
    <3> QED BY <3>2 DEF OpenFds
  <2>4. DOMAIN loc = DOMAIN NoCall
    <3>1. NoCall \in CallTypes
      BY StartTyped
    <3> QED BY <2>1, <3>1 DEF CallTypes
  <2>5. loc.node.size \in Nat
    BY <2>1 DEF CallTypes, Copies
  <2> QED BY <1>1, <2>1, <2>2, <2>3, <2>4, <2>5 DEF TypeOK, IInv, Typed, CallSound
<1>2. IInv => TypeOK /\ Typed
  BY <1>1 DEF IInv
<1> QED BY <1>2, InvariantHolds, PTL

-----------------------------------------------------------------------------
(* What allocations and frees leave of the bitmaps.                        *)

LEMMA FreeBlocksIs ==
  ASSUME NEW m \in Allocator, NEW B
  PROVE  FreeBlocks(m, B).bmap = m.bmap \ B /\ FreeBlocks(m, B).imap = m.imap
BY DEF FreeBlocks, Allocator

LEMMA AllocateBlockIs ==
  ASSUME NEW m \in Allocator
  PROVE  /\ FreeBlockNo(m) = None => AllocateBlock(m) = m
         /\ FreeBlockNo(m) # None =>
              /\ FreeBlockNo(m) \in Block \ m.bmap
              /\ AllocateBlock(m).bmap = m.bmap \cup {FreeBlockNo(m)}
         /\ AllocateBlock(m).imap = m.imap /\ m.bmap \subseteq AllocateBlock(m).bmap
<1>1. FreeBlockNo(m) # None => FreeBlockNo(m) \in Block \ m.bmap
  <2>1. NBlocks \in Nat /\ m.bmap \in SUBSET (0 .. NBlocks - 1)
    BY SizeAssumption DEF Allocator, Block
  <2> QED BY <2>1, FindFreeIsFree, Zenon DEF FreeBlockNo, Block
<1> QED BY <1>1 DEF AllocateBlock, Allocator

LEMMA AllocateInodeIs ==
  ASSUME NEW m \in Allocator, FreeInodeNo(m) # None
  PROVE  /\ FreeInodeNo(m) \in Inode \ m.imap
         /\ AllocateInode(m).imap = m.imap \cup {FreeInodeNo(m)}
         /\ AllocateInode(m).bmap = m.bmap
<1>1. FreeInodeNo(m) \in Inode \ m.imap
  <2>1. NInodes \in Nat /\ m.imap \in SUBSET (0 .. NInodes - 1)
    BY SizeAssumption DEF Allocator, Inode
  <2> QED BY <2>1, FindFreeIsFree, Zenon DEF FreeInodeNo, Inode
<1> QED BY <1>1 DEF AllocateInode, Allocator

LEMMA FreeInodeIs ==
  ASSUME NEW m \in Allocator, NEW i
  PROVE  FreeInode(m, i).imap = m.imap \ {i} /\ FreeInode(m, i).bmap = m.bmap
BY DEF FreeInode, Allocator

-----------------------------------------------------------------------------
(* What a step must leave alone, for each part of TreeSound.  In each lemma *)
(* x is the one inode that the step writes.                                 *)

LEMMA BlocksFrame ==
  ASSUME BlocksSound, NEW x,
         \A i \in Live' \ {x} : i \in Live /\ itab'[i].direct = itab[i].direct,
         \A i \in Live' \ {x} : InodeBlocks(i) \subseteq mem'.bmap
                                /\ InodeBlocks(i) \cap NewBlocks' = {},
         x \in Live' =>
           /\ Distinct(itab'[x].direct) /\ itab'[x].direct[NDirect - 1] = 0
           /\ InodeBlocks(x)' \subseteq mem'.bmap /\ InodeBlocks(x)' \cap NewBlocks' = {}
           /\ \A i \in Live' \ {x} : InodeBlocks(i) \cap InodeBlocks(x)' = {},
         NewBlocks' \cup {0} \subseteq mem'.bmap
  PROVE  BlocksSound'
<1>1. \A i \in Live' \ {x} : InodeBlocks(i)' = InodeBlocks(i)
  BY DEF InodeBlocks
<1>2. \A i \in Live' : InodeBlocks(i)' \subseteq mem'.bmap /\ InodeBlocks(i)' \cap NewBlocks' = {}
  BY <1>1
<1>3. \A i \in Live' : Distinct(itab'[i].direct) /\ itab'[i].direct[NDirect - 1] = 0
  <2>1. \A i \in Live : Distinct(itab[i].direct) /\ itab[i].direct[NDirect - 1] = 0
    BY DEF BlocksSound
  <2> QED BY <2>1, Zenon
<1>4. \A i, j \in Live' : i # j => InodeBlocks(i)' \cap InodeBlocks(j)' = {}
  <2>1. \A i, j \in Live : i # j => InodeBlocks(i) \cap InodeBlocks(j) = {}
    BY DEF BlocksSound
  <2> QED BY <1>1, <2>1
<1> QED BY <1>2, <1>3, <1>4 DEF BlocksSound

LEMMA DirsFrame ==
  ASSUME DirsLaid, NEW x,
         \A b \in Block : Len(blk'[b].ents) <= PerBlock,
         \A i \in LiveDirs' \ {x} : ~Shifting(i)' =>
           /\ i \in LiveDirs /\ ~Shifting(i)
           /\ itab'[i].direct = itab[i].direct /\ itab'[i].size = itab[i].size
           /\ \A k \in 0 .. NDirect - 1 : itab[i].direct[k] # 0 =>
                blk'[itab[i].direct[k]].ents = blk[itab[i].direct[k]].ents,
         x \in LiveDirs' /\ ~Shifting(x)' =>
           /\ Len(ReadDirectory(x)') = itab'[x].size
           /\ Holds(blk', itab'[x].direct, ReadDirectory(x)')
  PROVE  DirsLaid'
<1>1. ASSUME NEW i \in LiveDirs' \ {x}, ~Shifting(i)'
      PROVE  /\ Len(ReadDirectory(i)') = itab'[i].size
             /\ Holds(blk', itab'[i].direct, ReadDirectory(i)')
  <2>1. /\ i \in LiveDirs /\ ~Shifting(i)
        /\ itab'[i].direct = itab[i].direct /\ itab'[i].size = itab[i].size
        /\ \A k \in 0 .. NDirect - 1 : itab[i].direct[k] # 0 =>
             blk'[itab[i].direct[k]].ents = blk[itab[i].direct[k]].ents
    BY <1>1
  <2>2. ReadDirectory(i)' = ReadDirectory(i)
    <3>1. \A k \in 0 .. NDirect - 1 : itab[i].direct[k] # 0 =>
            blk[itab[i].direct[k]].ents = blk'[itab[i].direct[k]].ents
      BY <2>1
    <3>2. DirectoryOf(itab'[i], blk') = DirectoryOf(itab[i], blk)
      <4> DEFINE slot == itab[i]
      <4> DEFINE new == itab'[i]
      <4> DEFINE C == blk'
      <4>1. new.direct = slot.direct /\ new.size = slot.size
        BY <2>1
      <4>2. \A k \in 0 .. NDirect - 1 : slot.direct[k] # 0 =>
              blk[slot.direct[k]].ents = C[slot.direct[k]].ents
        BY <3>1
      <4> HIDE DEF slot, new, C
      <4>3. DirectoryOf(new, C) = DirectoryOf(slot, blk)
        BY <4>1, <4>2, SameDirectory
      <4> QED BY <4>3 DEF slot, new, C
    <3> QED BY <3>2 DEF ReadDirectory
  <2>3. Len(ReadDirectory(i)) = itab[i].size /\ Holds(blk, itab[i].direct, ReadDirectory(i))
    BY <2>1 DEF DirsLaid
  <2>4. Holds(blk', itab'[i].direct, ReadDirectory(i)')
    BY <2>1, <2>2, <2>3, SMTT(30) DEF Holds, HoldsAt
  <2> QED BY <2>1, <2>2, <2>3, <2>4
<1> QED BY <1>1 DEF DirsLaid

LEMMA RecordsFrame ==
  ASSUME RecordsSound,
         \A d \in LiveDirs' : Entries(d)' = <<>> \/ (d \in LiveDirs /\ Entries(d)' = Entries(d)),
         \A d \in LiveDirs, i \in Inode : \A k \in DOMAIN Entries(d) :
           NamedBy(d, k, i) /\ d \in LiveDirs' => i \in mem'.imap /\ (IsDir(i)' => IsDir(i))
  PROVE  RecordsSound'
<1>1. Root \in LiveDirs' => \A k \in DOMAIN Entries(Root)' : Entries(Root)'[k].name \notin Dots
  BY DEF RecordsSound
<1>2. ASSUME NEW d \in LiveDirs', NEW i \in Inode, NEW k \in DOMAIN Entries(d)', NamedBy(d, k, i)'
      PROVE  d \in LiveDirs /\ k \in DOMAIN Entries(d) /\ NamedBy(d, k, i) /\ Entries(d)' = Entries(d)
  BY <1>2 DEF NamedBy
<1>3. ASSUME NEW d \in LiveDirs', NEW i \in Inode, NEW k \in DOMAIN Entries(d)', NamedBy(d, k, i)'
      PROVE  /\ i \in mem'.imap /\ i # d
             /\ IsDir(i)' => Entries(d)'[k].name \notin FileNames
             /\ i \in LiveDirs' => DotsRight(Entries(i)', i, d)
  <2>1. d \in LiveDirs /\ k \in DOMAIN Entries(d) /\ NamedBy(d, k, i) /\ Entries(d)' = Entries(d)
    BY <1>2, <1>3
  <2>2. /\ i \in mem.imap /\ i # d
        /\ IsDir(i) => Entries(d)[k].name \notin FileNames
        /\ i \in LiveDirs => DotsRight(Entries(i), i, d)
    BY <2>1 DEF RecordsSound
  <2>3. i \in LiveDirs' => DotsRight(Entries(i)', i, d)
    <3>1. DotsRight(<<>>, i, d)
      BY DEF DotsRight
    <3> QED BY <2>2, <3>1
  <2> QED BY <2>1, <2>2, <2>3
<1>4. ASSUME NEW d1 \in LiveDirs', NEW d2 \in LiveDirs', NEW i \in Inode,
             NEW j \in DOMAIN Entries(d1)', NEW k \in DOMAIN Entries(d2)',
             NamedBy(d1, j, i)', NamedBy(d2, k, i)'
      PROVE  d1 = d2 /\ j = k
  <2>1. d1 \in LiveDirs /\ j \in DOMAIN Entries(d1) /\ NamedBy(d1, j, i)
    BY <1>2, <1>4
  <2>2. d2 \in LiveDirs /\ k \in DOMAIN Entries(d2) /\ NamedBy(d2, k, i)
    BY <1>2, <1>4
  <2> QED BY <2>1, <2>2 DEF RecordsSound
<1> QED BY <1>1, <1>3, <1>4 DEF RecordsSound

-----------------------------------------------------------------------------
(* Where paths lead while no call has touched the tree.                    *)

LEMMA EntryFound ==
  ASSUME Typed, NEW i \in Inode, NEW name, FindEntry(i, name) # None
  PROVE  /\ IsDir(i) /\ FindEntry(i, name) \in Inode
         /\ \E k \in DOMAIN ReadDirectory(i) :
              /\ k = Min(Positions(i, name)) /\ ReadDirectory(i)[k].name = name
              /\ ReadDirectory(i)[k].ino = FindEntry(i, name)
<1> DEFINE at == Positions(i, name)
<1> DEFINE es == ReadDirectory(i)
<1>1. at # {}
  BY DEF FindEntry
<1>2. es \in Seq(SoundRecs)
  BY ReadDirectoryTyped
<1>3. IsDir(i) /\ at \in SUBSET Nat /\ \A k \in at : k \in DOMAIN es /\ es[k].name = name
  BY <1>1, <1>2 DEF Positions
<1>4. Min(at) \in at
  <2> HIDE DEF at
  <2> QED BY <1>1, <1>3, MinIsLowest
<1>5. FindEntry(i, name) = es[Min(at)].ino
  BY <1>1 DEF FindEntry
<1>6. es[Min(at)] \in SoundRecs
  BY <1>2, <1>3, <1>4
<1>7. FindEntry(i, name) \in Inode
  <2> HIDE DEF at, es
  <2> QED BY <1>5, <1>6 DEF SoundRecs
<1> HIDE DEF at, es
<1> QED BY <1>3, <1>4, <1>5, <1>7 DEF at, es

LEMMA LiveInodes ==
  ASSUME IInv, NEW i \in Live
  PROVE  i \in Inode /\ i \in mem.imap
BY DEF IInv, Typed, Allocator, Live

LEMMA PointersTyped ==
  ASSUME IInv, NEW i \in Inode
  PROVE  /\ itab[i].direct \in Pointers /\ itab[i].size \in Nat /\ itab[i].mode \in Modes
         /\ \A k \in 0 .. NDirect - 1 : itab[i].direct[k] \in Block
<1>1. itab[i] \in InodeSlot
  BY DEF IInv, Typed
<1> QED BY <1>1 DEF InodeSlot, Pointers, Modes

LEMMA LookUpLive ==
  ASSUME IInv, TreeSound, pc \in {"idle", "newInode"},
         NEW i \in Live, NEW name, name \notin Dots, FindEntry(i, name) # None
  PROVE  /\ i \in LiveDirs /\ FindEntry(i, name) \in Live /\ FindEntry(i, name) # i
         /\ name \in FileNames => ~IsDir(FindEntry(i, name))
<1> DEFINE x == FindEntry(i, name)
<1>1. i \in Inode /\ Typed
  BY LiveInodes DEF IInv
<1>2. PICK k \in DOMAIN ReadDirectory(i) :
        ReadDirectory(i)[k].name = name /\ ReadDirectory(i)[k].ino = x
  BY <1>1, EntryFound
<1>3. i \in LiveDirs /\ x \in Inode
  BY <1>1, EntryFound DEF LiveDirs
<1> HIDE DEF x
<1>4. Entries(i) = ReadDirectory(i)
  BY DEF Entries, Shifting
<1>5. k \in DOMAIN Entries(i) /\ NamedBy(i, k, x) /\ Entries(i)[k].name = name
  BY <1>2, <1>4 DEF NamedBy
<1>6. x \in mem.imap /\ x # i /\ (IsDir(x) => name \notin FileNames)
  BY <1>3, <1>5 DEF TreeSound, RecordsSound
<1>7. pc = "newInode" => x # loc.ino
  BY <1>3, <1>5 DEF TreeSound, CreationSound, Creating
<1>8. x \in Live
  BY <1>6, <1>7 DEF Live, Removing
<1> QED BY <1>3, <1>6, <1>8 DEF x

LEMMA WalkLive ==
  ASSUME IInv, TreeSound, pc \in {"idle", "newInode"},
         NEW p \in Seq(STRING), ToSet(p) \cap Dots = {}
  PROVE  \A k \in 0 .. Len(p) : Walk(p)[k] = None \/ Walk(p)[k] \in Live
<1> DEFINE n == Len(p)
<1> DEFINE T == {k \in 0 .. n : Walk(p)[k] = None \/ Walk(p)[k] \in Live}
<1>1. n \in Nat
  OBVIOUS
<1>2. 0 \in T
  <2>1. Root \in Live
    BY DEF Root, Live, IInv, Reserved, CallSound, Removing
  <2>2. Walk(p)[0] = Root
    BY WalkIs
  <2> QED BY <1>1, <2>1, <2>2
<1>3. ASSUME NEW k \in 1 .. n, k - 1 \in T  PROVE k \in T
  <2>1. Walk(p)[k] = LookUp(Walk(p)[k - 1], p[k])
    BY WalkIs
  <2>2. p[k] \notin Dots
    BY DEF ToSet
  <2>3. Walk(p)[k - 1] = None \/ Walk(p)[k - 1] \in Live
    BY <1>3
  <2>4. Walk(p)[k] = None \/ Walk(p)[k] \in Live
    BY <2>1, <2>2, <2>3, LookUpLive DEF LookUp
  <2> QED BY <2>4
<1>4. 0 .. n \subseteq T
  <2> HIDE DEF T, n
  <2> QED BY <1>1, <1>2, <1>3, UpTo
<1> QED BY <1>4

\* The parent of a path is where its walk is one name before the end.
LEMMA FrontWalk ==
  ASSUME NEW p \in Seq(STRING), p # <<>>
  PROVE  ResolveParent(p) = Walk(p)[Len(p) - 1]
<1> DEFINE n == Len(p) - 1
<1> DEFINE q == Front(p)
<1> DEFINE T == {k \in 0 .. n : Walk(q)[k] = Walk(p)[k]}
<1>1. n \in Nat /\ q \in Seq(STRING) /\ Len(q) = n /\ \A k \in 1 .. n : q[k] = p[k]
  <2>1. n \in Nat /\ n <= Len(p)
    OBVIOUS
  <2>2. q = SubSeq(p, 1, n)
    BY DEF Front
  <2> HIDE DEF q, n
  <2>3. SubSeq(p, 1, n) \in Seq(STRING) /\ Len(SubSeq(p, 1, n)) = n
    BY <2>1
  <2>4. \A k \in 1 .. n : SubSeq(p, 1, n)[k] = p[k]
    BY <2>1
  <2> QED BY <2>1, <2>2, <2>3, <2>4
<1>2. 0 \in T
  <2>1. Walk(q)[0] = Root
    BY <1>1, WalkIs
  <2>2. Walk(p)[0] = Root
    BY WalkIs
  <2> QED BY <1>1, <2>1, <2>2
<1>3. ASSUME NEW k \in 1 .. n, k - 1 \in T  PROVE k \in T
  <2> HIDE DEF q
  <2>1. Walk(q)[k] = LookUp(Walk(q)[k - 1], q[k])
    BY <1>1, WalkIs
  <2>2. Walk(p)[k] = LookUp(Walk(p)[k - 1], p[k])
    BY <1>1, WalkIs
  <2> QED BY <1>1, <1>3, <2>1, <2>2
<1>4. 0 .. n \subseteq T
  <2> HIDE DEF T, n
  <2> QED BY <1>1, <1>2, <1>3, UpTo
<1>5. n \in T
  <2> HIDE DEF T, n
  <2> QED BY <1>1, <1>4
<1> HIDE DEF q
<1>6. Resolve(q) = Walk(q)[n]
  BY <1>1 DEF Resolve
<1> QED BY <1>5, <1>6 DEF ResolveParent, q

LEMMA ResolveLive ==
  ASSUME IInv, TreeSound, pc \in {"idle", "newInode"}, NEW p \in FilePaths \cup DirPaths
  PROVE  /\ Resolve(p) # None => Resolve(p) \in Live
         /\ ResolveParent(p) # None =>
              ResolveParent(p) \in Live /\ p # <<>> /\ Last(p) \notin Dots
         /\ Resolve(p) # None /\ p # <<>> =>
              /\ ResolveParent(p) \in LiveDirs /\ Resolve(p) # ResolveParent(p)
              /\ FindEntry(ResolveParent(p), Last(p)) = Resolve(p)
              /\ Last(p) \in FileNames => ~IsDir(Resolve(p))
<1>1. p \in Seq(STRING) /\ ToSet(p) \cap Dots = {}
  BY DiskFSAssumption
<1>2. \A k \in 0 .. Len(p) : Walk(p)[k] = None \/ Walk(p)[k] \in Live
  BY <1>1, WalkLive
<1>3. Resolve(p) # None => Resolve(p) \in Live
  BY <1>1, <1>2 DEF Resolve
<1>4. ASSUME p # <<>>
      PROVE  /\ ResolveParent(p) = None \/ ResolveParent(p) \in Live
             /\ Last(p) \notin Dots
             /\ Resolve(p) = LookUp(ResolveParent(p), Last(p))
  <2>1. Len(p) \in 1 .. Len(p) /\ Len(p) - 1 \in 0 .. Len(p)
    BY <1>1, <1>4
  <2>2. Last(p) = p[Len(p)] /\ Last(p) \notin Dots
    BY <1>1, <2>1 DEF Last, ToSet
  <2>3. ResolveParent(p) = Walk(p)[Len(p) - 1]
    BY <1>1, <1>4, FrontWalk
  <2>4. Resolve(p) = LookUp(Walk(p)[Len(p) - 1], p[Len(p)])
    BY <1>1, <2>1, WalkIs DEF Resolve
  <2> QED BY <1>2, <2>1, <2>2, <2>3, <2>4
<1>5. ResolveParent(p) # None => p # <<>>
  BY DEF ResolveParent
<1>6. ASSUME Resolve(p) # None, p # <<>>
      PROVE  /\ ResolveParent(p) \in LiveDirs /\ Resolve(p) # ResolveParent(p)
             /\ FindEntry(ResolveParent(p), Last(p)) = Resolve(p)
             /\ Last(p) \in FileNames => ~IsDir(Resolve(p))
  <2>1. /\ ResolveParent(p) \in Live /\ Last(p) \notin Dots
        /\ FindEntry(ResolveParent(p), Last(p)) = Resolve(p)
    BY <1>4, <1>6 DEF LookUp
  <2> QED BY <1>6, <2>1, LookUpLive
<1> QED BY <1>3, <1>4, <1>5, <1>6

-----------------------------------------------------------------------------
(* Steps of calls that touch no directory.  FileStep says what they must    *)
(* leave alone, if x is the one inode they write.                           *)

TreeSteps == {"newInode", "entry", "wdBlock"}

LEMMA FileStep ==
  ASSUME IInv, TreeSound, NEW x, mem'.imap = mem.imap, pc \notin TreeSteps, pc' \notin TreeSteps,
         \A i \in Inode \ {x} : itab'[i].direct = itab[i].direct /\ itab'[i].size = itab[i].size,
         \A i \in Inode : IsDir(i)' => IsDir(i),
         x \in Inode => ~IsDir(x)',
         \A b \in Block : Len(blk'[b].ents) <= PerBlock,
         \A i \in LiveDirs : \A k \in 0 .. NDirect - 1 : itab[i].direct[k] # 0 =>
           blk'[itab[i].direct[k]].ents = blk[itab[i].direct[k]].ents,
         \A i \in Live \ {x} : InodeBlocks(i) \subseteq mem'.bmap
                               /\ InodeBlocks(i) \cap NewBlocks' = {},
         x \in Live =>
           /\ Distinct(itab'[x].direct) /\ itab'[x].direct[NDirect - 1] = 0
           /\ InodeBlocks(x)' \subseteq mem'.bmap /\ InodeBlocks(x)' \cap NewBlocks' = {}
           /\ \A i \in Live \ {x} : InodeBlocks(i) \cap InodeBlocks(x)' = {},
         NewBlocks' \cup {0} \subseteq mem'.bmap
  PROVE  /\ BlocksSound' /\ DirsLaid' /\ RecordsSound'
         /\ CreationSound' /\ RemovalSound' /\ WritingSound'
         /\ Live' = Live
<1>1. Live' = Live /\ Live \subseteq Inode
  BY LiveInodes DEF Live, Removing, TreeSteps
<1>2. CreationSound' /\ RemovalSound' /\ WritingSound'
  BY DEF CreationSound, RemovalSound, WritingSound, Creating, Removing, TreeSteps
<1>3. BlocksSound'
  <2>1. BlocksSound
    BY DEF TreeSound
  <2>2. \A i \in Live' \ {x} : i \in Live /\ itab'[i].direct = itab[i].direct
    BY <1>1
  <2> QED BY <1>1, <2>1, <2>2, BlocksFrame
<1>4. LiveDirs' \subseteq LiveDirs \ {x}
  BY <1>1 DEF LiveDirs
<1>5. \A i : ~Shifting(i) /\ ~Shifting(i)'
  BY DEF Shifting, TreeSteps
<1>6. DirsLaid'
  <2>1. DirsLaid
    BY DEF TreeSound
  <2>2. \A i \in LiveDirs' \ {x} :
          /\ i \in LiveDirs /\ i \in Inode \ {x}
    BY <1>1, <1>4 DEF LiveDirs
  <2>3. x \notin LiveDirs'
    BY <1>4
  <2> QED BY <1>5, <2>1, <2>2, <2>3, DirsFrame
<1>7. ASSUME NEW d \in LiveDirs'  PROVE d \in LiveDirs /\ Entries(d)' = Entries(d)
  <2>1. d \in LiveDirs /\ d \in Inode \ {x}
    BY <1>1, <1>4 DEF LiveDirs
  <2>2. ReadDirectory(d)' = ReadDirectory(d)
    <3> DEFINE slot == itab[d]
    <3> DEFINE new == itab'[d]
    <3> DEFINE C == blk'
    <3>1. new.direct = slot.direct /\ new.size = slot.size
      BY <2>1
    <3>2. \A k \in 0 .. NDirect - 1 : slot.direct[k] # 0 =>
            blk[slot.direct[k]].ents = C[slot.direct[k]].ents
      BY <2>1
    <3> HIDE DEF slot, new, C
    <3>3. DirectoryOf(new, C) = DirectoryOf(slot, blk)
      BY <3>1, <3>2, SameDirectory
    <3> QED BY <3>3 DEF slot, new, C, ReadDirectory
  <2>3. Entries(d)' = Entries(d)
    BY <1>5, <2>2 DEF Entries
  <2> QED BY <2>1, <2>3
<1>8. RecordsSound'
  <2>1. RecordsSound
    BY DEF TreeSound
  <2>2. \A d \in LiveDirs, i \in Inode : \A k \in DOMAIN Entries(d) :
          NamedBy(d, k, i) => i \in mem'.imap
    BY DEF TreeSound, RecordsSound
  <2> QED BY <1>7, <2>1, <2>2, RecordsFrame
<1> QED BY <1>1, <1>2, <1>3, <1>6, <1>8

LEMMA QuietStep ==
  ASSUME IInv, TreeSound, UNCHANGED <<itab, blk>>, mem'.imap = mem.imap,
         \/ mem'.bmap = mem.bmap
         \/ 0 \in mem'.bmap /\ \A i \in Live : InodeBlocks(i) \subseteq mem'.bmap,
         pc \notin TreeSteps, pc' \notin TreeSteps, NewBlocks' = {}
  PROVE  /\ BlocksSound' /\ DirsLaid' /\ RecordsSound'
         /\ CreationSound' /\ RemovalSound' /\ WritingSound'
         /\ Live' = Live /\ \A i : IsDir(i)' = IsDir(i)
<1>1. \A i : IsDir(i)' = IsDir(i)
  BY DEF IsDir
<1>2. \A b \in Block : Len(blk'[b].ents) <= PerBlock
  BY DEF TreeSound, DirsLaid
<1>3. /\ \A i \in Live : InodeBlocks(i) \subseteq mem'.bmap /\ InodeBlocks(i) \cap NewBlocks' = {}
      /\ NewBlocks' \cup {0} \subseteq mem'.bmap
  BY DEF TreeSound, BlocksSound
<1>4. None \notin Inode /\ None \notin Live
  BY LiveInodes DEF None, Inode
<1> QED BY <1>1, <1>2, <1>3, <1>4, FileStep

\* A copy that was just read agrees with the disk.
LEMMA FreshCopy ==
  ASSUME IInv, TreeSound, NEW i \in Live
  PROVE  /\ ReadInode(i).mode = itab[i].mode /\ ReadInode(i).direct = itab[i].direct
         /\ HasNeighbour(i) => ReadInode(i).tail = itab[i + 1].mode
         /\ Distinct(itab[i].direct) /\ itab[i].direct[NDirect - 1] = 0
BY DEF ReadInode, TreeSound, BlocksSound

LEMMA OpenKeepsTree ==
  ASSUME Careful, IInv, TreeSound, NEW p \in FilePaths, NEW fl \in Flags, NEW ok, Open(p, fl, ok),
         pc' # "newInode"
  PROVE  TreeSound'
<1> DEFINE i == Resolve(p)
<1>1. /\ pc = "idle" /\ i # None /\ pc' = "opened" /\ UNCHANGED <<mem, itab, blk, fdt>>
      /\ loc' = [NoCall EXCEPT !.op = "open", !.path = p, !.flags = fl, !.ino = i,
                               !.node = ReadInode(i)]
  BY DEF Open, Begin, Goto, Allocated
<1>2. loc'.op = "open" /\ loc'.flags = fl /\ loc'.ino = i /\ loc'.node = ReadInode(i)
  BY <1>1 DEF NoCall
<1>3. i \in Live /\ ~IsDir(i)
  <2>1. p # <<>> /\ Last(p) \in FileNames
    BY DEF Careful, FileNames
  <2> QED BY <1>1, <2>1, ResolveLive
<1> HIDE DEF i
<1>4. NewBlocks' = {}
  BY <1>1 DEF NewBlocks
<1>5. /\ BlocksSound' /\ DirsLaid' /\ RecordsSound'
      /\ CreationSound' /\ RemovalSound' /\ WritingSound'
      /\ Live' = Live /\ \A j : IsDir(j)' = IsDir(j)
  BY <1>1, <1>4, QuietStep DEF TreeSteps
<1>6. FilesSound'
  BY <1>1, <1>2, <1>3, <1>5 DEF FilesSound, TreeSound
<1>7. CopySound'
  <2>1. Target' = i
    BY <1>1, <1>2 DEF Target
  <2>2. /\ ReadInode(i).mode = itab[i].mode /\ ReadInode(i).direct = itab[i].direct
        /\ HasNeighbour(i) => ReadInode(i).tail = itab[i + 1].mode
        /\ Distinct(itab[i].direct) /\ itab[i].direct[NDirect - 1] = 0
    BY <1>3, FreshCopy
  <2> QED BY <1>1, <1>2, <1>3, <1>5, <2>1, <2>2 DEF CopySound
<1> QED BY <1>2, <1>5, <1>6, <1>7 DEF TreeSound

LEMMA ReadBackKeepsTree ==
  ASSUME Careful, IInv, TreeSound, NEW ok, ReadBack(ok)
  PROVE  TreeSound'
<1> DEFINE i == loc.ino
<1>1. pc = "created" /\ UNCHANGED <<mem, itab, blk, fdt>> /\ pc' \in {"idle", "opened"}
  BY DEF ReadBack, Goto, Return
<1>2. i \in Live /\ ~IsDir(i) /\ loc.flags \in Flags
  BY <1>1 DEF TreeSound, FilesSound
<1>3. NewBlocks' = {}
  BY <1>1 DEF NewBlocks
<1>4. /\ BlocksSound' /\ DirsLaid' /\ RecordsSound'
      /\ CreationSound' /\ RemovalSound' /\ WritingSound'
      /\ Live' = Live /\ \A j : IsDir(j)' = IsDir(j)
  BY <1>1, <1>3, QuietStep DEF TreeSteps
<1>5. CASE ok
  <2>1. pc' = "opened" /\ loc'.op = "open" /\ loc'.flags = loc.flags /\ loc'.ino = i
        /\ loc'.node = ReadInode(i)
    BY <1>5 DEF ReadBack, Goto, NoCall
  <2> HIDE DEF i
  <2>2. FilesSound'
    BY <1>1, <1>2, <1>4, <2>1 DEF FilesSound, TreeSound
  <2>3. CopySound'
    <3>1. Target' = i
      BY <2>1 DEF Target
    <3>2. /\ ReadInode(i).mode = itab[i].mode /\ ReadInode(i).direct = itab[i].direct
          /\ HasNeighbour(i) => ReadInode(i).tail = itab[i + 1].mode
          /\ Distinct(itab[i].direct) /\ itab[i].direct[NDirect - 1] = 0
      BY <1>2, FreshCopy
    <3> QED BY <1>1, <1>2, <1>4, <2>1, <3>1, <3>2 DEF CopySound
  <2> QED BY <1>2, <1>4, <2>1, <2>2, <2>3 DEF TreeSound
<1>6. CASE ~ok
  <2>1. pc' = "idle" /\ loc'.op = "none"
    BY <1>6 DEF ReadBack, Return, NoCall
  <2>2. FilesSound' /\ CopySound'
    BY <1>1, <1>4, <2>1 DEF FilesSound, CopySound, TreeSound
  <2> QED BY <1>4, <2>1, <2>2 DEF TreeSound
<1> QED BY <1>5, <1>6

\* A step that leaves the tree and its blocks alone and ends with no copy of an
\* inode in use.
LEMMA RestStep ==
  ASSUME IInv, TreeSound, UNCHANGED <<itab, blk>>, mem'.imap = mem.imap,
         \/ mem'.bmap = mem.bmap
         \/ 0 \in mem'.bmap /\ \A i \in Live : InodeBlocks(i) \subseteq mem'.bmap,
         pc \notin TreeSteps, pc' \in {"idle", "flSuper", "flImap", "flBmap"},
         \A f \in Fd : fdt'[f] # NoFd => fdt'[f].ino \in Live /\ ~IsDir(fdt'[f].ino),
         loc'.op # "open" \/ loc' = loc
  PROVE  TreeSound'
<1>1. NewBlocks' = {}
  BY DEF NewBlocks
<1>2. /\ BlocksSound' /\ DirsLaid' /\ RecordsSound'
      /\ CreationSound' /\ RemovalSound' /\ WritingSound'
      /\ Live' = Live /\ \A i : IsDir(i)' = IsDir(i)
  BY <1>1, QuietStep DEF TreeSteps
<1>3. FilesSound' /\ CopySound'
  BY <1>2 DEF FilesSound, CopySound
<1>4. loc'.op = "open" => loc'.flags \in Flags
  BY DEF TreeSound
<1> QED BY <1>2, <1>3, <1>4 DEF TreeSound

LEMMA OpenFdKeepsTree == ASSUME IInv, TreeSound, OpenFd  PROVE TreeSound'
<1>1. /\ pc \in {"truncated", "opened"} /\ pc' = "idle" /\ loc' = NoCall
      /\ UNCHANGED <<mem, itab, blk>>
  BY DEF OpenFd, Return
<1>2. loc.ino \in Live /\ ~IsDir(loc.ino)
  BY <1>1 DEF TreeSound, FilesSound
<1>3. ASSUME NEW f \in Fd, fdt'[f] # NoFd
      PROVE  fdt'[f].ino = loc.ino \/ (fdt[f] # NoFd /\ fdt'[f].ino = fdt[f].ino)
  BY <1>3 DEF OpenFd, IInv, Typed
<1>4. \A f \in Fd : fdt'[f] # NoFd => fdt'[f].ino \in Live /\ ~IsDir(fdt'[f].ino)
  BY <1>2, <1>3 DEF TreeSound, FilesSound
<1>5. loc'.op # "open"
  BY <1>1 DEF NoCall
<1> QED BY <1>1, <1>4, <1>5, RestStep DEF TreeSteps

LEMMA ReadKeepsTree ==
  ASSUME IInv, TreeSound, NEW fd \in Fd, NEW n, Read(fd, n)  PROVE TreeSound'
<1>1. pc = "idle" /\ pc' = "idle" /\ loc' = loc /\ UNCHANGED <<mem, itab, blk>>
  BY DEF Read, Begin
<1>2. ASSUME NEW f \in Fd, fdt'[f] # NoFd
      PROVE  fdt[f] # NoFd /\ fdt'[f].ino = fdt[f].ino
  BY <1>2 DEF Read, IInv, Typed, OpenFds, NoFd
<1>3. \A f \in Fd : fdt'[f] # NoFd => fdt'[f].ino \in Live /\ ~IsDir(fdt'[f].ino)
  BY <1>2 DEF TreeSound, FilesSound
<1> QED BY <1>1, <1>3, RestStep DEF TreeSteps

LEMMA CloseKeepsTree ==
  ASSUME IInv, TreeSound, NEW fd \in Fd, Close(fd)  PROVE TreeSound'
<1>1. pc = "idle" /\ pc' = "flSuper" /\ UNCHANGED <<mem, itab, blk, fdt>>
  BY DEF Close, Begin, Goto
<1>2. loc'.op # "open"
  BY DEF Close, Goto, NoCall
<1>3. \A f \in Fd : fdt'[f] # NoFd => fdt'[f].ino \in Live /\ ~IsDir(fdt'[f].ino)
  BY <1>1 DEF TreeSound, FilesSound
<1> QED BY <1>1, <1>2, <1>3, RestStep DEF TreeSteps

LEMMA FlushKeepsTree ==
  ASSUME IInv, TreeSound, NEW ok,
         FlushSuper(ok) \/ FlushInodeBitmap(ok) \/ FlushBlockBitmap(ok)
  PROVE  TreeSound'
<1>1. /\ pc \in {"flSuper", "flImap", "flBmap"} /\ pc' \in {"idle", "flImap", "flBmap"}
      /\ UNCHANGED <<itab, blk>> /\ (loc' = loc \/ loc' = NoCall)
      /\ fdt' \in {fdt, [fdt EXCEPT ![loc.fd] = NoFd]}
  BY DEF FlushSuper, FlushInodeBitmap, FlushBlockBitmap, Flushed, Goto, Return
<1>2. mem'.imap = mem.imap /\ mem'.bmap = mem.bmap
  BY DEF FlushSuper, FlushInodeBitmap, FlushBlockBitmap, IInv, Typed, Allocator
<1>3. ASSUME NEW f \in Fd, fdt'[f] # NoFd  PROVE fdt'[f] = fdt[f]
  BY <1>1, <1>3 DEF IInv, Typed
<1>4. \A f \in Fd : fdt'[f] # NoFd => fdt'[f].ino \in Live /\ ~IsDir(fdt'[f].ino)
  BY <1>3 DEF TreeSound, FilesSound
<1>5. loc'.op # "open" \/ loc' = loc
  BY <1>1 DEF NoCall
<1> QED BY <1>1, <1>2, <1>4, <1>5, RestStep DEF TreeSteps

\* A mount of an image that is not torn loads what was in memory.
LEMMA PowerFailureKeepsTree ==
  ASSUME IInv, TreeSound, PowerFailure, image' # "torn"  PROVE TreeSound'
<1>1. /\ pc = "idle" /\ ~mem.sbDirty /\ ~mem.bmDirty /\ image = "good"
      /\ pc' = "idle" /\ loc' = NoCall /\ UNCHANGED <<itab, blk>>
      /\ mem' = Load(dsk) /\ fdt' = [f \in Fd |-> NoFd]
  BY DEF PowerFailure, Return, Reload
<1>2. mem'.imap = mem.imap /\ mem'.bmap = mem.bmap
  BY <1>1 DEF Load, IInv, FlagsMissNothing
<1>3. loc'.op # "open" /\ \A f \in Fd : fdt'[f] = NoFd
  BY <1>1 DEF NoCall
<1> QED BY <1>1, <1>2, <1>3, RestStep DEF TreeSteps

LEMMA WriteKeepsTree ==
  ASSUME IInv, TreeSound, NEW fd \in Fd, NEW n \in 1 .. MaxWrite, NEW v, Write(fd, n, v)
  PROVE  TreeSound'
<1> DEFINE i == fdt[fd].ino
<1>1. /\ pc = "idle" /\ fdt[fd] # NoFd /\ pc' = "wrBlock" /\ UNCHANGED <<mem, itab, blk, fdt>>
      /\ fdt[fd].off + n <= MaxOffset
  BY DEF Write, Begin, Goto
<1>2. /\ loc'.op = "write" /\ loc'.fd = fd /\ loc'.ino = i
      /\ loc'.node = ReadInode(i) /\ loc'.orig = ReadInode(i)
      /\ loc'.k = fdt[fd].off /\ loc'.left = n
  BY DEF Write, Goto, NoCall
<1>3. i \in Live /\ ~IsDir(i)
  BY <1>1 DEF TreeSound, FilesSound
<1>4. NewBlocks' = {}
  BY <1>2 DEF NewBlocks
<1>5. /\ BlocksSound' /\ DirsLaid' /\ RecordsSound'
      /\ CreationSound' /\ RemovalSound' /\ WritingSound'
      /\ Live' = Live /\ \A j : IsDir(j)' = IsDir(j)
  BY <1>1, <1>4, QuietStep DEF TreeSteps
<1>6. FilesSound'
  BY <1>1, <1>2, <1>5 DEF FilesSound, TreeSound
<1> HIDE DEF i
<1>7. CopySound'
  <2>1. Target' = i
    BY <1>1, <1>2 DEF Target
  <2>2. /\ ReadInode(i).mode = itab[i].mode /\ ReadInode(i).direct = itab[i].direct
        /\ HasNeighbour(i) => ReadInode(i).tail = itab[i + 1].mode
        /\ Distinct(itab[i].direct) /\ itab[i].direct[NDirect - 1] = 0
    BY <1>3, FreshCopy
  <2> QED BY <1>1, <1>2, <1>3, <1>5, <2>1, <2>2 DEF CopySound
<1> QED BY <1>2, <1>5, <1>6, <1>7 DEF TreeSound

-----------------------------------------------------------------------------
(* What a copy of an inode and a write of one do.                          *)

LEMMA WriteInodeIs ==
  ASSUME Typed, NEW i \in Inode, NEW node, WriteInode(i, node)
  PROVE  /\ itab'[i].mode = node.mode /\ itab'[i].size = node.size /\ itab'[i].direct = node.direct
         /\ \A j \in Inode \ {i} :
              /\ itab'[j].direct = itab[j].direct /\ itab'[j].size = itab[j].size
              /\ IF HasNeighbour(i) /\ j = i + 1 THEN itab'[j].mode = node.tail
                 ELSE itab'[j].mode = itab[j].mode
BY DEF WriteInode, Typed, InodeSlot

LEMMA ChainIs ==
  ASSUME NEW node, node.direct[NDirect - 1] = 0
  PROVE  \A b \in ChainBlocks(node) : b # 0 /\ \E k \in 0 .. NDirect - 1 : b = node.direct[k]
<1> SUFFICES ASSUME NEW k \in 0 .. NDirect + 2, \A h \in 0 .. k : GetBlock(node, h) # 0
             PROVE  GetBlock(node, k) # 0
                    /\ \E h \in 0 .. NDirect - 1 : GetBlock(node, k) = node.direct[h]
  BY DEF ChainBlocks
<1>1. GetBlock(node, k) # 0
  OBVIOUS
<1>2. k < NDirect
  <2>1. SUFFICES ASSUME k >= NDirect  PROVE FALSE
    BY DiskFSAssumption
  <2>2. NDirect - 1 \in 0 .. k /\ NDirect - 1 < NDirect
    BY <2>1, DiskFSAssumption
  <2>3. GetBlock(node, NDirect - 1) = 0
    BY <2>2 DEF GetBlock
  <2> QED BY <2>2, <2>3
<1> QED BY <1>1, <1>2, DiskFSAssumption DEF GetBlock

\* The blocks of a copy are the inode's and those that are new.
LEMMA CopyBlocks ==
  ASSUME IInv, TreeSound, pc \in {"wdBlock", "wrBlock"},
         NEW k \in 0 .. NDirect - 1, loc.node.direct[k] # 0
  PROVE  /\ loc.node.direct[k] \in InodeBlocks(Target) \cup NewBlocks
         /\ loc.node.direct[k] \in mem.bmap /\ loc.node.direct[k] \in Block
         /\ \A i \in Live \ {Target} : loc.node.direct[k] \notin InodeBlocks(i)
<1>1. loc.orig.direct[k] = itab[Target].direct[k] /\ Target \in Live
  BY DEF TreeSound, CopySound
<1>2. CASE itab[Target].direct[k] = 0
  <2>1. loc.node.direct[k] \in NewBlocks
    BY <1>1, <1>2 DEF NewBlocks
  <2> QED BY <2>1 DEF TreeSound, BlocksSound, IInv, Typed, Allocator
<1>3. CASE itab[Target].direct[k] # 0
  <2>1. loc.node.direct[k] = itab[Target].direct[k]
    BY <1>3 DEF TreeSound, CopySound
  <2>2. loc.node.direct[k] \in InodeBlocks(Target)
    BY <2>1 DEF InodeBlocks
  <2> QED BY <1>1, <2>2 DEF TreeSound, BlocksSound, IInv, Typed, Allocator
<1> QED BY <1>2, <1>3

\* A rollback frees the new blocks.
LEMMA RollbackIs ==
  ASSUME NEW m \in Allocator, NEW orig, NEW node
  PROVE  /\ Rollback(m, orig, node).imap = m.imap
         /\ Rollback(m, orig, node).bmap =
              m.bmap \ {node.direct[k] : k \in {j \in 0 .. NDirect - 1 :
                                                  orig.direct[j] = 0 /\ node.direct[j] # 0}}
BY FreeBlocksIs DEF Rollback

LEMMA TruncateKeepsTree ==
  ASSUME Careful, IInv, TreeSound, NEW ok, Truncate(ok)
  PROVE  TreeSound'
<1>0. PICK i : i = loc.ino
  OBVIOUS
<1> DEFINE node == [FreshInode(loc.node.mode) EXCEPT !.tail = loc.node.tail]
<1>1. /\ pc = "opened" /\ i \in Live /\ ~IsDir(i) /\ i \in Inode
      /\ loc.op = "open" /\ {"T", "W"} \subseteq loc.flags /\ loc.flags \in Flags
  BY <1>0, LiveInodes DEF Truncate, Truncates, TreeSound, FilesSound
<1>2. ok
  BY <1>1 DEF Careful, Truncate, Outcome
<1>3. /\ WriteInode(i, node) /\ pc' = "truncated"
      /\ loc' = [loc EXCEPT !.node = node] /\ UNCHANGED <<blk, fdt>>
      /\ mem' = FreeBlocks(mem, ChainBlocks(loc.node))
  BY <1>0, <1>2 DEF Truncate, Goto
<1>4. loc'.op = "open" /\ loc'.flags = loc.flags /\ loc'.ino = i
  <2> HIDE DEF node
  <2> QED BY <1>0, <1>1, <1>3 DEF IInv, Typed, CallTypes
<1>5. /\ node.mode = loc.node.mode /\ node.tail = loc.node.tail
      /\ node.direct = [k \in 0 .. NDirect - 1 |-> 0]
  BY DEF FreshInode
<1> HIDE DEF node
<1>6. /\ itab'[i].mode = node.mode /\ itab'[i].direct = node.direct
      /\ \A j \in Inode \ {i} :
           /\ itab'[j].direct = itab[j].direct /\ itab'[j].size = itab[j].size
           /\ IF HasNeighbour(i) /\ j = i + 1 THEN itab'[j].mode = node.tail
              ELSE itab'[j].mode = itab[j].mode
  BY <1>1, <1>3, WriteInodeIs DEF IInv
<1>7. /\ loc.node.mode = itab[i].mode
      /\ HasNeighbour(i) /\ loc.node.tail = "dir" => itab[i + 1].mode = "dir"
      /\ loc.node.direct = itab[i].direct /\ loc.node.direct[NDirect - 1] = 0
  BY <1>0, <1>1 DEF TreeSound, CopySound, Target
<1>8. \A j \in Inode : IsDir(j)' => IsDir(j)
  BY <1>5, <1>6, <1>7 DEF IsDir
<1>9. /\ mem'.imap = mem.imap /\ 0 \in mem'.bmap
      /\ \A j \in Live \ {i} : InodeBlocks(j) \subseteq mem'.bmap
  <2>1. mem'.imap = mem.imap /\ mem'.bmap = mem.bmap \ ChainBlocks(loc.node)
    BY <1>3, FreeBlocksIs DEF IInv, Typed
  <2>2. ASSUME NEW b \in ChainBlocks(loc.node)  PROVE b \in InodeBlocks(i)
    BY <1>7, ChainIs DEF InodeBlocks
  <2>3. ASSUME NEW j \in Live \ {i}, NEW b \in InodeBlocks(j)  PROVE b \in mem'.bmap
    BY <1>1, <2>1, <2>2 DEF TreeSound, BlocksSound
  <2>4. 0 \in mem'.bmap
    BY <1>7, <2>1, ChainIs DEF TreeSound, BlocksSound
  <2> QED BY <2>1, <2>3, <2>4
<1>10. NewBlocks' = {} /\ InodeBlocks(i)' = {} /\ Distinct(itab'[i].direct)
       /\ itab'[i].direct[NDirect - 1] = 0
  BY <1>3, <1>5, <1>6, DiskFSAssumption DEF NewBlocks, InodeBlocks, Distinct
<1>11. /\ BlocksSound' /\ DirsLaid' /\ RecordsSound'
       /\ CreationSound' /\ RemovalSound' /\ WritingSound' /\ Live' = Live
  <2>1. pc \notin TreeSteps /\ pc' \notin TreeSteps /\ ~IsDir(i)'
    BY <1>1, <1>3, <1>8 DEF TreeSteps
  <2>2. \A b \in Block : Len(blk'[b].ents) <= PerBlock
    BY <1>3 DEF TreeSound, DirsLaid
  <2> QED BY <1>3, <1>6, <1>8, <1>9, <1>10, <2>1, <2>2, FileStep
<1>12. FilesSound' /\ CopySound'
  <2>1. \A f \in Fd : fdt[f] # NoFd => fdt[f].ino \in Inode
    BY DEF IInv, Typed, OpenFds
  <2> QED BY <1>1, <1>3, <1>4, <1>8, <1>11, <2>1 DEF FilesSound, CopySound, TreeSound
<1> QED BY <1>1, <1>4, <1>11, <1>12 DEF TreeSound

\* A write of file data allocates one block at most, and no file of a descriptor
\* reaches the last direct pointer.
LEMMA WriteBlockKeepsTree ==
  ASSUME Careful, IInv, TreeSound, NEW ok, WriteBlock(ok)
  PROVE  TreeSound'
<1>0. PICK i : i = loc.ino
  OBVIOUS
<1> DEFINE old == GetBlock(loc.node, loc.k)
<1> DEFINE b == IF old = 0 THEN FreeBlockNo(mem) ELSE old
<1> DEFINE m == IF old = 0 THEN AllocateBlock(mem) ELSE mem
<1> DEFINE node == IF old = 0 THEN SetBlock(loc.node, loc.k, b) ELSE loc.node
<1>1. /\ pc = "wrBlock" /\ i \in Live /\ ~IsDir(i) /\ i \in Inode /\ Target = i
      /\ loc.k \in 0 .. NDirect - 2 /\ loc.k + loc.left <= MaxOffset /\ loc.left > 0
      /\ loc.left \in Nat /\ loc.k \in Nat
  <2>1. pc = "wrBlock" /\ loc.left > 0 /\ loc.k \in Nat /\ loc.left \in Nat
    BY DEF WriteBlock, IInv, Typed, CallTypes
  <2>2. loc.ino = fdt[loc.fd].ino /\ loc.k + loc.left <= MaxOffset
    BY <2>1 DEF TreeSound, FilesSound
  <2>3. i \in Live /\ ~IsDir(i)
    BY <1>0, <2>1, <2>2 DEF TreeSound, FilesSound, IInv, CallSound
  <2>4. loc.k \in 0 .. NDirect - 2
    BY <2>1, <2>2, DiskFSAssumption DEF Careful
  <2> QED BY <1>0, <2>1, <2>2, <2>3, <2>4, LiveInodes DEF Target
<1>2. /\ loc.k \in 0 .. NDirect - 1 /\ loc.k # NDirect - 1 /\ old = loc.node.direct[loc.k]
      /\ loc.node \in Copies /\ mem \in Allocator
  BY <1>1, DiskFSAssumption, SMTT(30) DEF GetBlock, IInv, Typed, CallTypes
<1>3. old \in Block
  BY <1>2 DEF Copies, Pointers
<1>4. /\ m.imap = mem.imap /\ mem.bmap \subseteq m.bmap /\ m \in Allocator
      /\ b # None => b \in m.bmap /\ b \in Block
      /\ old = 0 /\ b # None => b \notin mem.bmap
      /\ old # 0 => b = old /\ m = mem
  <2>1. old # 0 => old \in mem.bmap
    BY <1>1, <1>2, CopyBlocks
  <2> QED BY <1>2, <1>3, <2>1, AllocateBlockIs, AllocateBlockKeeps
<1>5. /\ \A k \in 0 .. NDirect - 1 :
           /\ k # loc.k => node.direct[k] = loc.node.direct[k]
           /\ k = loc.k => node.direct[k] = b
      /\ node.mode = loc.node.mode /\ node.tail = loc.node.tail
  BY <1>2 DEF SetBlock, Copies, Pointers
<1>6. loc.orig.direct[loc.k] = 0 \/ old # 0
  BY <1>1, <1>2 DEF TreeSound, CopySound
<1> HIDE DEF old, b, m, node
<1>7. ASSUME mem' = Rollback(m, loc.orig, IF b \in {None, BadBlock} THEN loc.node ELSE node),
             Return, UNCHANGED <<itab, blk, fdt>>
      PROVE  TreeSound'
  <2> DEFINE copy == IF b \in {None, BadBlock} THEN loc.node ELSE node
  <2>1. /\ mem'.imap = mem.imap
        /\ mem'.bmap = m.bmap \ {copy.direct[k] : k \in {j \in 0 .. NDirect - 1 :
                                     loc.orig.direct[j] = 0 /\ copy.direct[j] # 0}}
    BY <1>4, <1>7, RollbackIs
  <2>2. ASSUME NEW j \in Live, NEW c \in InodeBlocks(j)  PROVE c \in mem'.bmap
    <3>1. c \in mem.bmap /\ c \notin NewBlocks
      BY DEF TreeSound, BlocksSound
    <3>2. ASSUME NEW k \in 0 .. NDirect - 1, loc.orig.direct[k] = 0, copy.direct[k] # 0,
                 copy.direct[k] = c
          PROVE  FALSE
      <4>1. CASE copy.direct[k] = loc.node.direct[k]
        <5>1. loc.node.direct[k] \in NewBlocks
          BY <1>1, <3>2, <4>1 DEF NewBlocks
        <5> QED BY <3>1, <3>2, <4>1, <5>1
      <4>2. CASE copy.direct[k] # loc.node.direct[k]
        <5>1. k = loc.k /\ copy = node /\ b # None /\ c = b
          BY <1>5, <3>2, <4>2
        <5>2. b # old
          BY <1>2, <3>2, <4>2, <5>1
        <5> QED BY <1>4, <3>1, <5>1, <5>2
      <4> QED BY <4>1, <4>2
    <3> QED BY <1>4, <2>1, <3>1, <3>2
  <2>3. pc' = "idle" /\ loc'.op # "open"
    BY <1>7 DEF Return, NoCall
  <2>5. 0 \in mem'.bmap
    BY <1>4, <2>1 DEF TreeSound, BlocksSound
  <2>4. \A f \in Fd : fdt'[f] # NoFd => fdt'[f].ino \in Live /\ ~IsDir(fdt'[f].ino)
    BY <1>7 DEF TreeSound, FilesSound
  <2> QED BY <1>1, <1>7, <2>1, <2>2, <2>3, <2>4, <2>5, RestStep DEF TreeSteps
<1>8. ASSUME b \in Block, mem' = m, blk' = [blk EXCEPT ![b] = DataBlock(loc.val)],
             UNCHANGED <<itab, fdt>>, pc' = "wrBlock",
             loc' = [loc EXCEPT !.node = node, !.k = @ + 1, !.left = @ - 1]
      PROVE  TreeSound'
  <2>1. /\ loc'.node = node /\ loc'.orig = loc.orig /\ loc'.ino = i /\ loc'.fd = loc.fd
        /\ loc'.k = loc.k + 1 /\ loc'.left = loc.left - 1 /\ loc'.op = loc.op
        /\ loc'.flags = loc.flags
    BY <1>0, <1>8 DEF IInv, Typed, CallTypes
  <2>2. b # None /\ b \notin {None, BadBlock}
    BY <1>8, SizeAssumption DEF Block, None, BadBlock
  <2>3. \A c \in NewBlocks' : c \in NewBlocks \/ (c = b /\ old = 0)
    <3>1. ASSUME NEW k \in 0 .. NDirect - 1, loc.orig.direct[k] = 0, node.direct[k] # 0
          PROVE  node.direct[k] \in NewBlocks \/ (node.direct[k] = b /\ old = 0)
      <4>1. CASE node.direct[k] = loc.node.direct[k]
        BY <1>1, <3>1, <4>1 DEF NewBlocks
      <4>2. CASE node.direct[k] # loc.node.direct[k]
        BY <1>2, <1>4, <1>5, <4>2
      <4> QED BY <4>1, <4>2
    <3> QED BY <1>8, <2>1, <3>1 DEF NewBlocks
  <2>4. ASSUME NEW j \in Live
        PROVE  InodeBlocks(j) \subseteq mem'.bmap /\ InodeBlocks(j) \cap NewBlocks' = {}
    BY <1>4, <1>8, <2>2, <2>3 DEF TreeSound, BlocksSound
  <2>5. NewBlocks' \cup {0} \subseteq mem'.bmap
    BY <1>4, <1>8, <2>2, <2>3 DEF TreeSound, BlocksSound
  <2>6. ASSUME NEW d \in LiveDirs  PROVE b \notin InodeBlocks(d)
    <3>1. d \in Live \ {i}
      BY <1>1 DEF LiveDirs
    <3>2. CASE old = 0
      BY <1>4, <2>2, <3>1, <3>2 DEF TreeSound, BlocksSound
    <3>3. CASE old # 0
      BY <1>1, <1>2, <1>4, <3>1, <3>3, CopyBlocks
    <3> QED BY <3>2, <3>3
  <2>7. ASSUME NEW c \in Block
        PROVE  Len(blk'[c].ents) <= PerBlock /\ (c # b => blk'[c] = blk[c])
    <3>1. blk'[c] = IF c = b THEN DataBlock(loc.val) ELSE blk[c]
      BY <1>8 DEF IInv, Typed
    <3>2. DataBlock(loc.val).ents = <<>> /\ Len(<<>>) <= PerBlock
      BY DiskFSAssumption DEF DataBlock
    <3> QED BY <3>1, <3>2 DEF TreeSound, DirsLaid
  <2>8. \A d \in LiveDirs : \A k \in 0 .. NDirect - 1 : itab[d].direct[k] # 0 =>
          blk'[itab[d].direct[k]].ents = blk[itab[d].direct[k]].ents
    <3>1. \A d \in LiveDirs : \A k \in 0 .. NDirect - 1 : itab[d].direct[k] \in Block
      BY LiveInodes, PointersTyped DEF LiveDirs
    <3>2. ASSUME NEW d \in LiveDirs, NEW k \in 0 .. NDirect - 1, itab[d].direct[k] # 0
          PROVE  blk'[itab[d].direct[k]] = blk[itab[d].direct[k]]
      <4>1. itab[d].direct[k] \in InodeBlocks(d)
        BY <3>2 DEF InodeBlocks
      <4>2. itab[d].direct[k] # b
        BY <2>6, <4>1
      <4> QED BY <2>7, <3>1, <4>2
    <3> QED BY <3>2, Zenon
  <2>9. (\A j : IsDir(j)' = IsDir(j)) /\ None \notin Inode /\ None \notin Live
    BY <1>8, LiveInodes DEF IsDir, None, Inode
  <2>10. /\ BlocksSound' /\ DirsLaid' /\ RecordsSound'
         /\ CreationSound' /\ RemovalSound' /\ WritingSound' /\ Live' = Live
    <3>1. pc \notin TreeSteps /\ pc' \notin TreeSteps /\ mem'.imap = mem.imap
      BY <1>1, <1>4, <1>8 DEF TreeSteps
    <3> QED BY <1>8, <2>4, <2>5, <2>7, <2>8, <2>9, <3>1, FileStep
  <2>11. FilesSound'
    BY <1>0, <1>1, <1>8, <2>1, <2>9, <2>10 DEF FilesSound, TreeSound
  <2>12. CopySound'
    <3>1. Target' = i
      BY <1>8, <2>1 DEF Target
    <3>2. Distinct(node.direct)
      <4>1. \A k \in 0 .. NDirect - 1 : loc.node.direct[k] # 0 => loc.node.direct[k] \in mem.bmap
        BY <1>1, CopyBlocks
      <4>2. Distinct(loc.node.direct)
        BY <1>1 DEF TreeSound, CopySound
      <4>3. CASE old = 0
        BY <1>4, <1>5, <2>2, <4>1, <4>2, <4>3 DEF Distinct
      <4>4. CASE old # 0
        BY <1>2, <1>4, <1>5, <4>2, <4>4 DEF Distinct
      <4> QED BY <4>3, <4>4
    <3>3. /\ node.direct[NDirect - 1] = 0 /\ node.mode = itab[i].mode
          /\ HasNeighbour(i) /\ node.tail = "dir" => itab[i + 1].mode = "dir"
          /\ loc.orig.direct = itab[i].direct
      BY <1>1, <1>2, <1>5, DiskFSAssumption DEF TreeSound, CopySound
    <3>4. ASSUME NEW k \in 0 .. NDirect - 1, itab[i].direct[k] # 0
          PROVE  node.direct[k] = itab[i].direct[k]
      <4>1. loc.node.direct[k] = itab[i].direct[k]
        BY <1>1, <3>4 DEF TreeSound, CopySound
      <4> QED BY <1>2, <1>4, <1>5, <3>4, <4>1
    <3> QED BY <1>1, <1>8, <2>1, <2>10, <3>1, <3>2, <3>3, <3>4 DEF CopySound
  <2> QED BY <2>1, <2>10, <2>11, <2>12 DEF TreeSound
<1> USE DEF old, b, m, node
<1>9. CASE b \in {None, BadBlock}
  <2>1. mem' = Rollback(mem, loc.orig, loc.node) /\ Return /\ UNCHANGED <<itab, blk, fdt>>
    BY <1>9 DEF WriteBlock
  <2>2. m = mem
    <3>1. BadBlock \notin Block
      BY SizeAssumption DEF Block, BadBlock
    <3> QED BY <1>2, <1>3, <1>4, <1>9, <3>1, AllocateBlockIs
  <2> QED BY <1>7, <1>9, <2>1, <2>2
<1>10. CASE b \notin {None, BadBlock} /\ ~ok
  BY <1>7, <1>10 DEF WriteBlock
<1>11. CASE b \notin {None, BadBlock} /\ ok
  BY <1>4, <1>8, <1>11 DEF WriteBlock, Goto
<1> QED BY <1>9, <1>10, <1>11

LEMMA WriteEndKeepsTree ==
  ASSUME Careful, IInv, TreeSound, NEW ok, WriteEnd(ok)
  PROVE  TreeSound'
<1>0. PICK i : i = loc.ino
  OBVIOUS
<1> DEFINE node == [loc.node EXCEPT !.size = Max({@, loc.k})]
<1>1. /\ pc = "wrBlock" /\ i \in Live /\ ~IsDir(i) /\ i \in Inode /\ Target = i
      /\ loc.node \in Copies /\ mem \in Allocator /\ UNCHANGED blk
      /\ fdt' = [fdt EXCEPT ![loc.fd].off = loc.k]
  BY <1>0, LiveInodes
     DEF WriteEnd, TreeSound, FilesSound, IInv, CallSound, Target, Typed, CallTypes
<1>2. ASSUME NEW f \in Fd, fdt'[f] # NoFd  PROVE fdt[f] # NoFd /\ fdt'[f].ino = fdt[f].ino
  <2>1. CASE f = loc.fd
    <3>1. fdt[f] # NoFd
      BY <1>1, <2>1 DEF IInv, CallSound
    <3>2. fdt[f] \in OpenFds /\ fdt' = [fdt EXCEPT ![f] = [fdt[f] EXCEPT !.off = loc.k]]
      BY <1>1, <2>1, <3>1 DEF IInv, Typed
    <3> QED BY <3>1, <3>2 DEF IInv, Typed, OpenFds
  <2>2. CASE f # loc.fd
    BY <1>1, <1>2, <2>2 DEF IInv, Typed
  <2> QED BY <2>1, <2>2
<1>3. CASE ok
  <2>1. WriteInode(i, node) /\ pc' = "flSuper" /\ loc'.op # "open" /\ UNCHANGED mem
    BY <1>0, <1>3 DEF WriteEnd, Goto, NoCall
  <2>2. node.mode = loc.node.mode /\ node.tail = loc.node.tail /\ node.direct = loc.node.direct
    BY <1>1 DEF Copies
  <2> HIDE DEF node
  <2>3. /\ itab'[i].mode = node.mode /\ itab'[i].direct = node.direct
        /\ \A j \in Inode \ {i} :
             /\ itab'[j].direct = itab[j].direct /\ itab'[j].size = itab[j].size
             /\ IF HasNeighbour(i) /\ j = i + 1 THEN itab'[j].mode = node.tail
                ELSE itab'[j].mode = itab[j].mode
    BY <1>1, <2>1, WriteInodeIs DEF IInv
  <2>4. /\ loc.node.mode = itab[i].mode
        /\ HasNeighbour(i) /\ loc.node.tail = "dir" => itab[i + 1].mode = "dir"
        /\ Distinct(loc.node.direct) /\ loc.node.direct[NDirect - 1] = 0
    BY <1>1 DEF TreeSound, CopySound
  <2>5. \A j \in Inode : IsDir(j)' => IsDir(j)
    BY <2>2, <2>3, <2>4 DEF IsDir
  <2>6. NewBlocks' = {}
    BY <2>1 DEF NewBlocks
  <2>7. InodeBlocks(i)' \subseteq mem.bmap
        /\ \A j \in Live \ {i} : InodeBlocks(j) \cap InodeBlocks(i)' = {}
    <3>1. \A b \in InodeBlocks(i)' : \E k \in 0 .. NDirect - 1 :
            b = loc.node.direct[k] /\ loc.node.direct[k] # 0
      BY <2>2, <2>3 DEF InodeBlocks
    <3> QED BY <1>1, <3>1, CopyBlocks
  <2>8. 0 \in mem'.bmap /\ \A j \in Live : InodeBlocks(j) \subseteq mem'.bmap
    BY <2>1 DEF TreeSound, BlocksSound
  <2>9. /\ BlocksSound' /\ DirsLaid' /\ RecordsSound'
        /\ CreationSound' /\ RemovalSound' /\ WritingSound' /\ Live' = Live
    <3>1. pc \notin TreeSteps /\ pc' \notin TreeSteps /\ ~IsDir(i)' /\ mem' = mem
      BY <1>1, <2>1, <2>5 DEF TreeSteps
    <3>2. \A b \in Block : Len(blk'[b].ents) <= PerBlock
      BY <1>1 DEF TreeSound, DirsLaid
    <3> QED BY <1>1, <2>2, <2>3, <2>4, <2>5, <2>6, <2>7, <2>8, <3>1, <3>2, FileStep
  <2>10. FilesSound' /\ CopySound'
    <3>1. \A f \in Fd : fdt[f] # NoFd => fdt[f].ino \in Inode /\ fdt[f].ino \in Live
      BY LiveInodes DEF TreeSound, FilesSound
    <3>2. \A f \in Fd : fdt'[f] # NoFd =>
            fdt'[f].ino \in Live' /\ itab'[fdt'[f].ino].mode # "dir"
      <4>1. ASSUME NEW f \in Fd, fdt'[f] # NoFd, NEW j, j = fdt'[f].ino
            PROVE  j \in Live' /\ itab'[j].mode # "dir"
        <5>1. j = fdt[f].ino /\ fdt[f] # NoFd
          BY <1>2, <4>1
        <5>2. j \in Live /\ j \in Inode /\ ~IsDir(j)
          BY <3>1, <5>1 DEF TreeSound, FilesSound
        <5> QED BY <2>5, <2>9, <5>2 DEF IsDir
      <4> QED BY <4>1
    <3> QED BY <2>1, <3>2 DEF FilesSound, CopySound, IsDir
  <2> QED BY <2>1, <2>9, <2>10 DEF TreeSound
<1>4. CASE ~ok
  <2>1. mem' = Rollback(mem, loc.orig, loc.node) /\ pc' = "idle" /\ loc' = NoCall
        /\ UNCHANGED itab
    BY <1>4 DEF WriteEnd, Return
  <2>2. mem'.imap = mem.imap /\ mem'.bmap = mem.bmap \ NewBlocks
    BY <1>1, <2>1, RollbackIs DEF NewBlocks
  <2>3. 0 \in mem'.bmap /\ \A j \in Live : InodeBlocks(j) \subseteq mem'.bmap
    <3>1. 0 \notin NewBlocks
      BY DEF NewBlocks
    <3> QED BY <2>2, <3>1 DEF TreeSound, BlocksSound
  <2>4. \A f \in Fd : fdt'[f] # NoFd => fdt'[f].ino \in Live /\ ~IsDir(fdt'[f].ino)
    BY <1>2 DEF TreeSound, FilesSound
  <2>5. loc'.op # "open"
    BY <2>1 DEF NoCall
  <2> QED BY <1>1, <2>1, <2>2, <2>3, <2>4, <2>5, RestStep DEF TreeSteps
<1> QED BY <1>3, <1>4

-----------------------------------------------------------------------------
(* Steps of creations and removals.                                        *)

\* What a step that writes neither inodes nor blocks must leave alone.
LEMMA TreeFrame ==
  ASSUME IInv, TreeSound, UNCHANGED <<itab, blk>>, Live' \subseteq Live,
         \A i \in Inode : Entries(i)' = Entries(i) /\ (Shifting(i) => Shifting(i)'),
         \A i \in Live' : InodeBlocks(i) \subseteq mem'.bmap /\ InodeBlocks(i) \cap NewBlocks' = {},
         NewBlocks' \cup {0} \subseteq mem'.bmap,
         \A d \in LiveDirs, i \in Inode : \A k \in DOMAIN Entries(d) :
           NamedBy(d, k, i) => i \in mem'.imap
  PROVE  /\ BlocksSound' /\ DirsLaid' /\ RecordsSound'
         /\ \A i : IsDir(i)' = IsDir(i)
         /\ LiveDirs' \subseteq LiveDirs
<1>1. \A i : IsDir(i)' = IsDir(i)
  BY DEF IsDir
<1>2. LiveDirs' \subseteq LiveDirs
  BY <1>1 DEF LiveDirs
<1>3. Live \subseteq Inode /\ LiveDirs \subseteq Inode /\ None \notin Live'
      /\ None \notin LiveDirs'
  BY <1>2, LiveInodes DEF LiveDirs, None, Inode
<1>4. BlocksSound'
  <2>1. BlocksSound
    BY DEF TreeSound
  <2> QED BY <1>3, <2>1, BlocksFrame
<1>5. DirsLaid'
  <2>1. DirsLaid /\ \A b \in Block : Len(blk'[b].ents) <= PerBlock
    BY DEF TreeSound, DirsLaid
  <2> QED BY <1>2, <1>3, <2>1, DirsFrame
<1>6. RecordsSound'
  <2>1. RecordsSound
    BY DEF TreeSound
  <2>2. \A d \in LiveDirs' : d \in LiveDirs /\ Entries(d)' = Entries(d)
    BY <1>2, <1>3
  <2> QED BY <1>1, <2>1, <2>2, RecordsFrame
<1> QED BY <1>1, <1>2, <1>4, <1>5, <1>6

\* Creations begin with an inode that no record names.
LEMMA AllocatedKeepsTree ==
  ASSUME IInv, TreeSound, pc = "idle", NEW op \in {"open", "mkdir"}, NEW p, NEW fl,
         p \in IF op = "open" THEN FilePaths ELSE DirPaths, op = "open" => fl \in Flags,
         Allocated(op, p, fl), UNCHANGED <<itab, blk, fdt>>
  PROVE  TreeSound'
<1>0. PICK x : x = FreeInodeNo(mem)
  OBVIOUS
<1>1. x \in Inode \ mem.imap /\ mem'.imap = mem.imap \cup {x} /\ mem'.bmap = mem.bmap
  BY <1>0, AllocateInodeIs DEF Allocated, IInv, Typed
<1>2. /\ pc' = "newInode" /\ loc'.op = op /\ loc'.path = p /\ loc'.flags = fl /\ loc'.ino = x
      /\ loc'.k = 0
  BY <1>0 DEF Allocated, Goto, NoCall
<1>3. Live' = Live /\ Live = mem.imap
  BY <1>1, <1>2 DEF Live, Removing
<1>4. NewBlocks' = {} /\ \A i : ~Shifting(i) /\ ~Shifting(i)'
  BY <1>2 DEF NewBlocks, Shifting
<1>5. \A i \in Inode : Entries(i)' = Entries(i)
  BY <1>4 DEF Entries, ReadDirectory
<1>6. \A d \in LiveDirs, i \in Inode : \A k \in DOMAIN Entries(d) :
        NamedBy(d, k, i) => i \in mem.imap
  BY DEF TreeSound, RecordsSound
<1>7. /\ BlocksSound' /\ DirsLaid' /\ RecordsSound'
      /\ \A i : IsDir(i)' = IsDir(i)
      /\ LiveDirs' \subseteq LiveDirs
  <2>1. /\ \A i \in Live' : InodeBlocks(i) \subseteq mem'.bmap /\ InodeBlocks(i) \cap NewBlocks' = {}
        /\ NewBlocks' \cup {0} \subseteq mem'.bmap
    BY <1>1, <1>3, <1>4 DEF TreeSound, BlocksSound
  <2> QED BY <1>1, <1>3, <1>4, <1>5, <1>6, <2>1, TreeFrame
<1>8. FilesSound' /\ CopySound' /\ RemovalSound' /\ WritingSound'
  BY <1>2, <1>3, <1>7
     DEF FilesSound, CopySound, RemovalSound, WritingSound, Removing, TreeSound
<1>9. CreationSound'
  <2>1. ASSUME NEW d \in LiveDirs', NEW k \in DOMAIN Entries(d)', NamedBy(d, k, x)'
        PROVE  FALSE
    <3>1. d \in LiveDirs /\ d \in Inode
      BY <1>7, LiveInodes DEF LiveDirs
    <3>2. k \in DOMAIN Entries(d) /\ NamedBy(d, k, x)
      BY <1>5, <2>1, <3>1 DEF NamedBy
    <3> QED BY <1>1, <1>6, <3>1, <3>2
  <2>2. \A f \in Fd : fdt'[f] # NoFd => fdt'[f].ino # x
    BY <1>1, <1>3 DEF TreeSound, FilesSound
  <2> QED BY <1>1, <1>2, <2>1, <2>2 DEF CreationSound, NamedBy
<1> QED BY <1>2, <1>7, <1>8, <1>9 DEF TreeSound

\* A creation that fails gives back an inode that no record names, and blocks
\* that belong to no other.
LEMMA FailKeepsTree ==
  ASSUME IInv, TreeSound, Creating, Return, UNCHANGED <<itab, blk, fdt>>,
         mem'.imap = mem.imap \ {loc.ino}, 0 \in mem'.bmap,
         \A i \in Live \ {loc.ino} : InodeBlocks(i) \subseteq mem'.bmap
  PROVE  TreeSound'
<1>1. pc' = "idle" /\ loc'.op = "none"
  BY DEF Return, NoCall
<1>2. Live' = Live \ {loc.ino}
  BY <1>1 DEF Live, Removing, Creating
<1>3. NewBlocks' = {} /\ \A i : ~Shifting(i) /\ ~Shifting(i)'
  BY <1>1 DEF NewBlocks, Shifting, Creating
<1>4. \A i \in Inode : Entries(i)' = Entries(i)
  BY <1>3 DEF Entries, ReadDirectory
<1>5. \A d \in LiveDirs, i \in Inode : \A k \in DOMAIN Entries(d) :
        NamedBy(d, k, i) => i \in mem'.imap
  <2>1. \A d \in LiveDirs, i \in Inode : \A k \in DOMAIN Entries(d) :
          NamedBy(d, k, i) => i \in mem.imap
    BY DEF TreeSound, RecordsSound
  <2>2. \A d \in LiveDirs : \A k \in DOMAIN Entries(d) : ~NamedBy(d, k, loc.ino)
    BY DEF TreeSound, CreationSound
  <2> QED BY <2>1, <2>2
<1>6. /\ BlocksSound' /\ DirsLaid' /\ RecordsSound'
      /\ \A i : IsDir(i)' = IsDir(i)
      /\ LiveDirs' \subseteq LiveDirs
  BY <1>2, <1>3, <1>4, <1>5, TreeFrame
<1>7. \A f \in Fd : fdt[f] # NoFd => fdt[f].ino \in Live' /\ ~IsDir(fdt[f].ino)
  BY <1>2 DEF TreeSound, FilesSound, CreationSound
<1>8. FilesSound' /\ CopySound' /\ RemovalSound' /\ WritingSound' /\ CreationSound'
  BY <1>1, <1>6, <1>7
     DEF FilesSound, CopySound, RemovalSound, WritingSound, CreationSound, Removing, Creating
<1> QED BY <1>1, <1>6, <1>8 DEF TreeSound

\* A new inode is empty, and its neighbour may become a file by it, but nothing
\* names the new one yet.
LEMMA NewInodeKeepsTree ==
  ASSUME Careful, IInv, TreeSound, NEW ok, NewInode(ok)
  PROVE  TreeSound'
<1>0. PICK x, par : x = loc.ino /\ par = ResolveParent(loc.path)
  OBVIOUS
<1>1. /\ pc = "newInode" /\ Creating /\ x \in Inode \ Reserved /\ x \in mem.imap
      /\ loc.op \in {"open", "mkdir"} /\ loc.k = 0
      /\ loc.path \in FilePaths \cup DirPaths
      /\ UNCHANGED <<dsk, blk, fdt, image>>
  BY <1>0 DEF NewInode, Creating, TreeSound, CreationSound, IInv, CallSound
<1>2. x \notin Live /\ Live = mem.imap \ {x}
  BY <1>0, <1>1 DEF Live
<1>3. CASE par = None \/ ~ok
  <2>1. mem' = FreeInode(mem, x) /\ Return /\ UNCHANGED itab
    BY <1>0, <1>1, <1>3 DEF NewInode, Fail
  <2>2. mem'.imap = mem.imap \ {x} /\ mem'.bmap = mem.bmap
    BY <2>1, FreeInodeIs DEF IInv, Typed
  <2>3. 0 \in mem'.bmap /\ \A i \in Live : InodeBlocks(i) \subseteq mem'.bmap
    BY <2>2 DEF TreeSound, BlocksSound
  <2> QED BY <1>0, <1>1, <2>1, <2>2, <2>3, FailKeepsTree
<1>4. CASE ~ (par = None \/ ~ok)
  <2> DEFINE mode == IF loc.op = "mkdir" THEN "dir" ELSE "file"
  <2> DEFINE node == FreshInode(mode)
  <2>1. /\ WriteInode(x, node) /\ UNCHANGED mem
        /\ IF loc.op = "mkdir"
             THEN /\ pc' = "wdBlock"
                  /\ loc' = [loc EXCEPT !.par = par, !.dir = x,
                                        !.ents = <<Rec(".", x), Rec("..", par)>>,
                                        !.node = node, !.orig = node]
             ELSE pc' = "entry" /\ loc' = [loc EXCEPT !.par = par]
    BY <1>0, <1>1, <1>4 DEF NewInode, Goto
  <2>2. /\ node.mode = mode /\ node.size = 0 /\ node.tail = "file"
        /\ node.direct = [k \in 0 .. NDirect - 1 |-> 0]
    BY DEF FreshInode
  <2> HIDE DEF node, mode
  <2>3. /\ loc'.op = loc.op /\ loc'.ino = x /\ loc'.par = par /\ loc'.path = loc.path
        /\ loc'.k = 0 /\ loc'.flags = loc.flags
        /\ loc.op = "mkdir" =>
             /\ loc'.dir = x /\ loc'.ents = <<Rec(".", x), Rec("..", par)>>
             /\ loc'.node = node /\ loc'.orig = node
    <3>1. loc \in CallTypes
      BY DEF IInv, Typed
    <3> QED BY <1>0, <1>1, <2>1, <3>1, ZenonT(30) DEF CallTypes
  <2>4. par \in Live /\ par # x /\ par \in Inode
    BY <1>0, <1>1, <1>2, <1>4, ResolveLive, LiveInodes
  <2>5. /\ itab'[x].mode = mode /\ itab'[x].size = 0 /\ itab'[x].direct = node.direct
        /\ \A j \in Inode \ {x} :
             /\ itab'[j].direct = itab[j].direct /\ itab'[j].size = itab[j].size
             /\ IF HasNeighbour(x) /\ j = x + 1 THEN itab'[j].mode = "file"
                ELSE itab'[j].mode = itab[j].mode
    BY <1>1, <2>1, <2>2, WriteInodeIs DEF IInv
  <2>6. Live' = mem.imap /\ Live' \ {x} = Live /\ Live' \subseteq Inode
    BY <1>1, <1>2, <2>1, <2>3 DEF Live, Removing, IInv, Typed, Allocator
  <2>7. NewBlocks' = {} /\ (\A i : ~Shifting(i) /\ ~Shifting(i)')
    <3>1. \A k \in 0 .. NDirect - 1 : node.direct[k] = 0
      BY <2>2
    <3> QED BY <1>1, <2>1, <2>3, <3>1 DEF NewBlocks, Shifting
  <2>8. \A j \in Inode \ {x} : IsDir(j)' => IsDir(j)
    BY <2>5 DEF IsDir
  <2>9. LiveDirs' \ {x} \subseteq LiveDirs
    BY <2>6, <2>8 DEF LiveDirs
  <2>10. \A j \in Inode \ {x} : Entries(j)' = Entries(j)
    <3>1. ASSUME NEW j \in Inode \ {x}  PROVE ReadDirectory(j)' = ReadDirectory(j)
      <4> DEFINE slot == itab[j]
      <4> DEFINE new == itab'[j]
      <4>1. new.direct = slot.direct /\ new.size = slot.size
        BY <2>5
      <4> HIDE DEF slot, new
      <4>3. DirectoryOf(new, blk) = DirectoryOf(slot, blk)
        BY <4>1, Zenon DEF DirectoryOf
      <4> QED BY <1>1, <4>3 DEF slot, new, ReadDirectory
    <3> QED BY <2>7, <3>1 DEF Entries
  <2>11. Entries(x)' = <<>> /\ ReadDirectory(x)' = <<>>
    <3>1. /\ ReadDirectory(x)' \in Seq(SoundRecs) /\ Len(ReadDirectory(x)') <= itab'[x].size
      <4> DEFINE slot == itab'[x]
      <4>1. slot.direct \in Pointers /\ slot.size \in Nat
        BY <2>2, <2>5, StartTyped DEF Pointers
      <4>2. \A b \in Block : blk[b].ents \in Seq(SoundRecs)
        BY DEF IInv, Typed
      <4> HIDE DEF slot
      <4>3. DirectoryOf(slot, blk) \in Seq(SoundRecs) /\ Len(DirectoryOf(slot, blk)) <= slot.size
        BY <4>1, <4>2, DirectoryTyped
      <4> QED BY <1>1, <4>3 DEF slot, ReadDirectory
    <3>2. ReadDirectory(x)' = <<>>
      <4> DEFINE es == ReadDirectory(x)'
      <4> HIDE DEF es
      <4>1. es \in Seq(SoundRecs) /\ Len(es) <= 0
        BY <2>5, <3>1 DEF es
      <4>2. es = <<>>
        BY <4>1
      <4> QED BY <4>2 DEF es
    <3> QED BY <2>7, <3>2 DEF Entries
  <2>12. BlocksSound'
    <3>1. BlocksSound
      BY DEF TreeSound
    <3>2. /\ \A i \in Live' \ {x} : i \in Live /\ itab'[i].direct = itab[i].direct
                                    /\ InodeBlocks(i) \subseteq mem'.bmap
          /\ 0 \in mem'.bmap
      BY <2>1, <2>5, <2>6, <3>1 DEF BlocksSound
    <3>3. /\ Distinct(itab'[x].direct) /\ itab'[x].direct[NDirect - 1] = 0
          /\ InodeBlocks(x)' = {}
      BY <2>2, <2>5, DiskFSAssumption DEF Distinct, InodeBlocks
    <3> QED BY <2>7, <3>1, <3>2, <3>3, BlocksFrame
  <2>13. DirsLaid'
    <3>1. DirsLaid /\ \A b \in Block : Len(blk'[b].ents) <= PerBlock
      BY <1>1 DEF TreeSound, DirsLaid
    <3>2. \A i \in LiveDirs' \ {x} : i \in LiveDirs
            /\ itab'[i].direct = itab[i].direct /\ itab'[i].size = itab[i].size
      BY <2>5, <2>6, <2>9 DEF LiveDirs
    <3>3. Len(ReadDirectory(x)') = itab'[x].size /\ Holds(blk', itab'[x].direct, ReadDirectory(x)')
      <4>1. \A k \in 0 .. NDirect - 1 : ~ (k * PerBlock < 0)
        BY Bases, DiskFSAssumption
      <4> QED BY <2>5, <2>11, <4>1 DEF Holds
    <3> QED BY <1>1, <2>7, <3>1, <3>2, <3>3, DirsFrame
  <2>14. \A d \in LiveDirs : \A k \in DOMAIN Entries(d) : ~NamedBy(d, k, x)
    BY <1>0, <1>1 DEF TreeSound, CreationSound
  <2>15. RecordsSound'
    <3>1. RecordsSound
      BY DEF TreeSound
    <3>2. \A d \in LiveDirs' : Entries(d)' = <<>> \/ (d \in LiveDirs /\ Entries(d)' = Entries(d))
      <4>1. LiveDirs' \subseteq Inode
        BY <2>6 DEF LiveDirs
      <4> QED BY <2>9, <2>10, <2>11, <4>1
    <3>3. \A d \in LiveDirs, i \in Inode : \A k \in DOMAIN Entries(d) :
            NamedBy(d, k, i) => i \in mem'.imap /\ (IsDir(i)' => IsDir(i))
      BY <2>1, <2>8, <2>14, <3>1 DEF RecordsSound
    <3> QED BY <3>1, <3>2, <3>3, RecordsFrame
  <2>16. FilesSound'
    <3>1. \A f \in Fd : fdt[f] # NoFd => fdt[f].ino \in Live /\ fdt[f].ino \in Inode \ {x}
                                         /\ ~IsDir(fdt[f].ino)
      BY <1>2, LiveInodes DEF TreeSound, FilesSound
    <3>2. \A f \in Fd : fdt[f] # NoFd => fdt[f].ino \in Live' /\ itab'[fdt[f].ino].mode # "dir"
      BY <2>6, <2>8, <3>1 DEF IsDir
    <3> QED BY <1>1, <2>1, <3>2 DEF FilesSound, IsDir
  <2>17. CopySound'
    <3>1. CASE loc.op = "mkdir"
      <4>1. Target' = x /\ x \in Live'
        BY <1>1, <2>1, <2>3, <2>6, <3>1 DEF Target
      <4>2. Distinct(node.direct) /\ node.direct[NDirect - 1] = 0
        BY <2>2, DiskFSAssumption DEF Distinct
      <4> QED BY <2>1, <2>2, <2>3, <2>5, <3>1, <4>1, <4>2 DEF CopySound
    <3>2. CASE loc.op # "mkdir"
      BY <2>1, <3>2 DEF CopySound
    <3> QED BY <3>1, <3>2
  <2>18. RemovalSound' /\ WritingSound'
    <3>1. RemovalSound'
      BY <1>1, <2>3 DEF RemovalSound, Removing
    <3>2. pc' = "wdBlock" => Len(loc'.ents) <= MaxEntries
      <4>1. pc' = "wdBlock" => Len(loc'.ents) = 2
        BY <2>1, <2>3
      <4> QED BY <4>1 DEF Careful
    <3>3. \A k \in 0 .. NDirect - 1 : ~ (k < loc'.k)
      BY <2>3
    <3> QED BY <3>1, <3>2, <3>3 DEF WritingSound
  <2>19. CreationSound'
    <3>1. \A d \in LiveDirs' : \A k \in DOMAIN Entries(d)' : ~NamedBy(d, k, x)'
      <4>1. LiveDirs' \subseteq Inode
        BY <2>6 DEF LiveDirs
      <4> QED BY <2>9, <2>10, <2>11, <2>14, <4>1 DEF NamedBy
    <3>2. \A f \in Fd : fdt'[f] # NoFd => fdt'[f].ino # x
      BY <1>1, <1>2 DEF TreeSound, FilesSound
    <3>3. loc'.path \in IF loc'.op = "open" THEN FilePaths ELSE DirPaths
      BY <1>1, <2>3 DEF TreeSound, CreationSound
    <3>4. loc.op = "open" => ~IsDir(x)' /\ pc' = "entry"
      BY <2>1, <2>5 DEF IsDir, mode
    <3>5. loc.op = "mkdir" => pc' = "wdBlock" /\ loc'.dir = x /\ itab'[x].size = 0
      BY <2>1, <2>3, <2>5
    <3>6. x \in mem'.imap /\ par \in Live' /\ Creating' /\ pc' # "newInode"
      BY <1>1, <2>1, <2>3, <2>4, <2>6 DEF Creating
    <3> QED BY <1>1, <2>3, <2>4, <3>1, <3>2, <3>3, <3>4, <3>5, <3>6
            DEF CreationSound, IsDir, NamedBy
  <2> QED BY <2>3, <2>12, <2>13, <2>15, <2>16, <2>17, <2>18, <2>19 DEF TreeSound
<1> QED BY <1>3, <1>4

\* A deletion begins with a file that no descriptor has open, and frees its blocks.
LEMMA UnlinkKeepsTree ==
  ASSUME Careful, IInv, TreeSound, NEW p \in FilePaths \cup DirPaths, Unlink(p)
  PROVE  TreeSound'
<1>0. PICK i, par : i = Resolve(p) /\ par = ResolveParent(p)
  OBVIOUS
<1>1. /\ pc = "idle" /\ "unlink" \in Calls /\ i # None /\ par # None
      /\ \A f \in Fd : fdt[f].ino # i
      /\ mem' = FreeBlocks(mem, ChainBlocks(ReadInode(i)))
      /\ pc' = "entry" /\ UNCHANGED <<itab, blk, fdt>>
  BY <1>0 DEF Unlink, Begin, Goto, Careful
<1>2. loc'.op = "unlink" /\ loc'.path = p /\ loc'.ino = i /\ loc'.par = par
  BY <1>0 DEF Unlink, Goto, NoCall
<1>3. /\ i \in Live /\ par \in LiveDirs /\ i # par /\ Last(p) \notin Dots
      /\ FindEntry(par, Last(p)) = i
  BY <1>0, <1>1, ResolveLive
<1>4. Live' = Live \ {i} /\ Live \subseteq Inode
  <2>1. mem'.imap = mem.imap
    BY <1>1, FreeBlocksIs DEF IInv, Typed
  <2> QED BY <1>1, <1>2, <2>1, LiveInodes DEF Live, Removing
<1>5. NewBlocks' = {} /\ \A j : ~Shifting(j) /\ ~Shifting(j)'
  BY <1>1 DEF NewBlocks, Shifting
<1>6. \A j \in Inode : Entries(j)' = Entries(j)
  BY <1>1, <1>5 DEF Entries, ReadDirectory
<1>7. /\ mem'.imap = mem.imap /\ 0 \in mem'.bmap
      /\ \A j \in Live \ {i} : InodeBlocks(j) \subseteq mem'.bmap
  <2>1. mem'.imap = mem.imap /\ mem'.bmap = mem.bmap \ ChainBlocks(ReadInode(i))
    BY <1>1, FreeBlocksIs DEF IInv, Typed
  <2>2. ReadInode(i).direct = itab[i].direct /\ ReadInode(i).direct[NDirect - 1] = 0
    BY <1>3, FreshCopy
  <2>3. ASSUME NEW b \in ChainBlocks(ReadInode(i))  PROVE b \in InodeBlocks(i)
    BY <2>2, ChainIs DEF InodeBlocks
  <2>4. ASSUME NEW j \in Live \ {i}, NEW b \in InodeBlocks(j)  PROVE b \in mem'.bmap
    BY <1>3, <2>1, <2>3 DEF TreeSound, BlocksSound
  <2>5. 0 \in mem'.bmap
    BY <2>1, <2>2, ChainIs DEF TreeSound, BlocksSound
  <2> QED BY <2>1, <2>4, <2>5
<1>8. /\ BlocksSound' /\ DirsLaid' /\ RecordsSound'
      /\ \A j : IsDir(j)' = IsDir(j)
      /\ LiveDirs' \subseteq LiveDirs
  <2>1. \A d \in LiveDirs, j \in Inode : \A k \in DOMAIN Entries(d) :
          NamedBy(d, k, j) => j \in mem'.imap
    BY <1>7 DEF TreeSound, RecordsSound
  <2> QED BY <1>1, <1>4, <1>5, <1>6, <1>7, <2>1, TreeFrame
<1>9. FilesSound' /\ CopySound' /\ CreationSound' /\ WritingSound'
  BY <1>1, <1>2, <1>4, <1>8
     DEF FilesSound, CopySound, CreationSound, WritingSound, Creating, TreeSound
<1>10. RemovalSound'
  <2>1. par \in LiveDirs'
    BY <1>3, <1>4, <1>8 DEF LiveDirs
  <2>2. FindEntry(par, Last(p))' = FindEntry(par, Last(p))
    BY <1>1, <1>8 DEF FindEntry, Positions, ReadDirectory
  <2> QED BY <1>1, <1>2, <1>3, <2>1, <2>2 DEF RemovalSound, FindEntry, Positions, ReadDirectory
<1> QED BY <1>2, <1>8, <1>9, <1>10 DEF TreeSound

LEMMA RemovedIs ==
  ASSUME NEW S, NEW es \in Seq(S), NEW pos \in 1 .. Len(es)
  PROVE  /\ RemoveAt(es, pos) \in Seq(S) /\ Len(RemoveAt(es, pos)) = Len(es) - 1
         /\ \A j \in 1 .. Len(es) - 1 :
              RemoveAt(es, pos)[j] = es[IF j < pos THEN j ELSE j + 1]
<1> DEFINE a == SubSeq(es, 1, pos - 1)
<1> DEFINE b == SubSeq(es, pos + 1, Len(es))
<1>1. /\ a \in Seq(S) /\ Len(a) = pos - 1 /\ \A j \in 1 .. pos - 1 : a[j] = es[j]
  OBVIOUS
<1>2. /\ b \in Seq(S) /\ Len(b) = Len(es) - pos
      /\ \A j \in 1 .. Len(es) - pos : b[j] = es[pos + j]
  OBVIOUS
<1>3. RemoveAt(es, pos) = a \o b
  BY DEF RemoveAt
<1> HIDE DEF a, b
<1>4. /\ a \o b \in Seq(S) /\ Len(a \o b) = Len(a) + Len(b)
      /\ \A j \in 1 .. Len(a) + Len(b) :
           (a \o b)[j] = IF j <= Len(a) THEN a[j] ELSE b[j - Len(a)]
  BY <1>1, <1>2, ConcatProperties, Zenon
<1>5. ASSUME NEW j \in 1 .. Len(es) - 1, j >= pos  PROVE (a \o b)[j] = es[j + 1]
  <2>1. j - (pos - 1) \in 1 .. Len(es) - pos /\ pos + (j - (pos - 1)) = j + 1
    BY <1>5
  <2>2. (a \o b)[j] = b[j - (pos - 1)]
    BY <1>1, <1>2, <1>4, <1>5
  <2>3. b[j - (pos - 1)] = es[pos + (j - (pos - 1))]
    BY <1>2, <2>1
  <2> QED BY <2>1, <2>2, <2>3
<1>6. ASSUME NEW j \in 1 .. Len(es) - 1, j < pos  PROVE (a \o b)[j] = es[j]
  BY <1>1, <1>2, <1>4, <1>6
<1> QED BY <1>1, <1>2, <1>3, <1>4, <1>5, <1>6

\* What inode_add_entry and inode_remove_entry begin with: the parent's inode, read again.
LEMMA EntryBegins ==
  ASSUME IInv, TreeSound, NEW ok, Entry(ok), pc' = "wdBlock", NEW par \in LiveDirs, par = loc.par
  PROVE  /\ pc = "entry" /\ UNCHANGED <<mem, dsk, itab, blk, fdt, image>>
         /\ loc'.op = loc.op /\ loc'.path = loc.path /\ loc'.flags = loc.flags
         /\ loc'.ino = loc.ino /\ loc'.par = par /\ loc'.dir = par /\ loc'.k = 0
         /\ loc'.ents = NewEntries
         /\ loc'.node = ReadInode(par) /\ loc'.orig = ReadInode(par)
         /\ NewBlocks' = {} /\ Live' = Live /\ CopySound' /\ FilesSound'
<1>1. /\ pc = "entry" /\ UNCHANGED <<mem, dsk, itab, blk, fdt, image>>
      /\ loc' = [loc EXCEPT !.dir = par, !.ents = NewEntries, !.k = 0,
                            !.node = ReadInode(par), !.orig = ReadInode(par)]
  BY DEF Entry, Fail, Return, Goto
<1>2. /\ loc'.op = loc.op /\ loc'.path = loc.path /\ loc'.flags = loc.flags
      /\ loc'.ino = loc.ino /\ loc'.par = par /\ loc'.dir = par /\ loc'.k = 0
      /\ loc'.ents = NewEntries
      /\ loc'.node = ReadInode(par) /\ loc'.orig = ReadInode(par)
  <2>1. loc \in CallTypes
    BY DEF IInv, Typed
  <2> QED BY <1>1, <2>1 DEF CallTypes
<1>3. NewBlocks' = {}
  BY <1>2 DEF NewBlocks
<1>4. Live' = Live
  BY <1>1, <1>2 DEF Live, Removing
<1>5. CopySound'
  <2>1. Target' = par /\ par \in Live
    BY <1>2 DEF Target, LiveDirs
  <2>2. /\ ReadInode(par).mode = itab[par].mode /\ ReadInode(par).direct = itab[par].direct
        /\ HasNeighbour(par) => ReadInode(par).tail = itab[par + 1].mode
        /\ Distinct(itab[par].direct) /\ itab[par].direct[NDirect - 1] = 0
    BY <2>1, FreshCopy
  <2> QED BY <1>1, <1>2, <1>4, <2>1, <2>2 DEF CopySound
<1>6. FilesSound'
  BY <1>1, <1>4 DEF FilesSound, TreeSound, IsDir
<1> QED BY <1>1, <1>2, <1>3, <1>4, <1>5, <1>6

LEMMA AddEntryKeepsTree ==
  ASSUME IInv, TreeSound, NEW ok, Entry(ok), loc.op # "unlink"
  PROVE  TreeSound'
<1>0. PICK x, par : x = loc.ino /\ par = loc.par
  OBVIOUS
<1>1. /\ pc = "entry" /\ Creating /\ x \in Inode \ Reserved /\ x \in mem.imap
      /\ UNCHANGED <<dsk, itab, blk, fdt, image>>
      /\ par \in Live /\ par # x
      /\ loc.op = "open" => ~IsDir(x)
      /\ \A d \in LiveDirs : \A k \in DOMAIN Entries(d) : ~NamedBy(d, k, x)
      /\ \A f \in Fd : fdt[f] # NoFd => fdt[f].ino # x
      /\ IsDir(x) =>
           /\ \A k \in DOMAIN Entries(x) : Entries(x)[k].name \in Dots
           /\ DotsRight(Entries(x), x, par)
  <2>1. pc = "entry" /\ Creating
    BY DEF Entry, Creating
  <2> QED BY <1>0, <2>1 DEF Entry, TreeSound, CreationSound, IInv, CallSound
<1>2. CASE Fail(mem)
  <2>1. mem' = FreeInode(mem, x) /\ Return
    BY <1>0, <1>2 DEF Fail
  <2>2. mem'.imap = mem.imap \ {x} /\ mem'.bmap = mem.bmap
    BY <2>1, FreeInodeIs DEF IInv, Typed
  <2>3. 0 \in mem'.bmap /\ \A i \in Live : InodeBlocks(i) \subseteq mem'.bmap
    BY <2>2 DEF TreeSound, BlocksSound
  <2> QED BY <1>0, <1>1, <2>1, <2>2, <2>3, FailKeepsTree
<1>3. CASE EntryPossible /\ pc' = "wdBlock"
  <2>1. par \in LiveDirs /\ Len(ReadDirectory(par)) < MaxEntries
    BY <1>0, <1>1, <1>3 DEF EntryPossible, LiveDirs
  <2>2. /\ loc'.op = loc.op /\ loc'.path = loc.path /\ loc'.flags = loc.flags
        /\ loc'.ino = x /\ loc'.par = par /\ loc'.dir = par /\ loc'.k = 0
        /\ loc'.ents = NewEntries /\ UNCHANGED <<mem, itab, blk, fdt>>
        /\ NewBlocks' = {} /\ Live' = Live /\ CopySound' /\ FilesSound'
    BY <1>0, <1>3, <2>1, EntryBegins
  <2>3. NewEntries = Append(ReadDirectory(par), Rec(Last(loc.path), x))
    BY <1>0 DEF NewEntries
  <2>4. \A i : ~Shifting(i) /\ ~Shifting(i)'
    BY <1>1, <2>2 DEF Shifting
  <2>5. \A i : Entries(i)' = Entries(i) /\ ReadDirectory(i)' = ReadDirectory(i)
    BY <1>1, <2>4 DEF Entries, ReadDirectory
  <2>6. /\ BlocksSound' /\ DirsLaid' /\ RecordsSound'
        /\ \A i : IsDir(i)' = IsDir(i)
        /\ LiveDirs' \subseteq LiveDirs
    <3>1. 0 \in mem'.bmap /\ \A i \in Live' : InodeBlocks(i) \subseteq mem'.bmap
      BY <2>2 DEF TreeSound, BlocksSound
    <3>2. \A d \in LiveDirs, i \in Inode : \A k \in DOMAIN Entries(d) :
            NamedBy(d, k, i) => i \in mem'.imap
      BY <2>2 DEF TreeSound, RecordsSound
    <3> QED BY <2>2, <2>4, <2>5, <3>1, <3>2, TreeFrame
  <2>7. RemovalSound'
    BY <2>2 DEF RemovalSound, Removing
  <2>8. WritingSound'
    <3>1. ReadDirectory(par) \in Seq(SoundRecs)
      BY <1>1, ReadDirectoryTyped, LiveInodes DEF IInv
    <3>2. Len(loc'.ents) = Len(ReadDirectory(par)) + 1 /\ Len(ReadDirectory(par)) \in Nat
      BY <2>2, <2>3, <3>1
    <3>3. \A k \in 0 .. NDirect - 1 : ~ (k < loc'.k)
      BY <2>2
    <3>4. Len(loc'.ents) <= MaxEntries
      BY <2>1, <3>2, DiskFSAssumption
    <3> QED BY <3>3, <3>4 DEF WritingSound
  <2>9. CreationSound'
    <3>1. Creating' /\ pc' = "wdBlock"
      BY <1>1, <1>3, <2>2 DEF Creating
    <3>2. IsDir(par)'
      BY <2>1, <2>6 DEF LiveDirs
    <3>3. \A d \in LiveDirs' : \A k \in DOMAIN Entries(d)' : ~NamedBy(d, k, x)'
      BY <1>1, <2>5, <2>6 DEF NamedBy
    <3>4. loc'.op \in {"open", "mkdir"}
          /\ loc'.path \in IF loc'.op = "open" THEN FilePaths ELSE DirPaths
      BY <1>1, <2>2 DEF TreeSound, CreationSound
    <3>5. loc'.ents = Append(ReadDirectory(par)', Rec(Last(loc'.path), x))
      BY <2>2, <2>3, <2>5
    <3>6. x \in mem'.imap /\ par \in Live' /\ (loc'.op = "open" => ~IsDir(x)')
          /\ \A f \in Fd : fdt'[f] # NoFd => fdt'[f].ino # x
      BY <1>1, <2>2, <2>6
    <3>7. IsDir(x)' =>
            /\ \A k \in DOMAIN Entries(x)' : Entries(x)'[k].name \in Dots
            /\ DotsRight(Entries(x)', x, par)
      BY <1>1, <2>5, <2>6
    <3> QED BY <1>1, <2>2, <3>1, <3>2, <3>3, <3>4, <3>5, <3>6, <3>7
            DEF CreationSound, NamedBy, IsDir, Entries, ReadDirectory, Shifting
  <2> QED BY <2>2, <2>6, <2>7, <2>8, <2>9 DEF TreeSound
<1> QED BY <1>2, <1>3 DEF Entry, Goto

\* Removing a record leaves all others, each once, and none that names the file.
LEMMA RemoveEntryKeepsTree ==
  ASSUME Careful, IInv, TreeSound, NEW ok, Entry(ok), loc.op = "unlink"
  PROVE  TreeSound'
<1>0. PICK x, par, name : x = loc.ino /\ par = loc.par /\ name = Last(loc.path)
  OBVIOUS
<1> DEFINE es == ReadDirectory(par)
<1> DEFINE at == Positions(par, name)
<1> DEFINE pos == Min(at)
<1>1. /\ pc = "entry" /\ Removing /\ x \in Inode \ Reserved /\ "unlink" \in Calls
      /\ par \in LiveDirs /\ par \in Inode /\ name \notin Dots /\ FindEntry(par, name) = x
      /\ UNCHANGED <<dsk, itab, blk, fdt, image>>
      /\ \A f \in Fd : fdt[f] # NoFd => fdt[f].ino # x
  <2>1. pc = "entry" /\ Removing
    BY DEF Entry, Removing
  <2>2. par \in LiveDirs
    BY <1>0, <2>1 DEF TreeSound, RemovalSound
  <2> QED BY <1>0, <2>1, <2>2, LiveInodes
          DEF Entry, TreeSound, RemovalSound, IInv, CallSound, LiveDirs
<1>2. es \in Seq(SoundRecs) /\ Len(es) \in Nat /\ Len(es) <= MaxEntries
  BY <1>1, ReadDirectoryTyped DEF IInv
<1>3. /\ at # {} /\ pos \in 1 .. Len(es) /\ es[pos].name = name /\ es[pos].ino = x
  <2>1. FindEntry(par, name) # None
    BY <1>1 DEF None, Inode
  <2>2. \E k \in DOMAIN es : k = pos /\ es[k].name = name /\ es[k].ino = FindEntry(par, name)
    BY <1>1, <2>1, EntryFound DEF IInv
  <2>3. at # {}
    BY <2>1 DEF FindEntry
  <2> HIDE DEF es, at, pos
  <2> QED BY <1>1, <1>2, <2>2, <2>3
<1>4. pc' = "wdBlock"
  <2>1. ok
    BY <1>1 DEF Careful, Entry, Outcome
  <2>2. EntryPossible
    BY <1>0, <1>3 DEF EntryPossible
  <2> QED BY <2>1, <2>2 DEF Entry, Goto
<1>5. /\ loc'.op = "unlink" /\ loc'.path = loc.path /\ loc'.ino = x /\ loc'.par = par
      /\ loc'.dir = par /\ loc'.k = 0 /\ loc'.ents = NewEntries
      /\ loc'.orig = ReadInode(par) /\ UNCHANGED <<mem, itab, blk, fdt>>
      /\ NewBlocks' = {} /\ Live' = Live /\ CopySound' /\ FilesSound'
  BY <1>0, <1>1, <1>4, EntryBegins
<1>6. NewEntries = RemoveAt(es, pos)
  BY <1>0 DEF NewEntries
<1> DEFINE new == loc'.ents
<1> DEFINE n == Len(es) - 1
<1>7. /\ new \in Seq(SoundRecs) /\ Len(new) = n /\ n \in Nat
      /\ \A j \in 1 .. n : new[j] = es[IF j < pos THEN j ELSE j + 1]
  <2>1. new = RemoveAt(es, pos)
    BY <1>5, <1>6
  <2>2. /\ RemoveAt(es, pos) \in Seq(SoundRecs) /\ Len(RemoveAt(es, pos)) = Len(es) - 1
        /\ \A j \in 1 .. Len(es) - 1 :
             RemoveAt(es, pos)[j] = es[IF j < pos THEN j ELSE j + 1]
    <3> HIDE DEF es, pos
    <3> QED BY <1>2, <1>3, RemovedIs
  <2> HIDE DEF es, pos, new
  <2> QED BY <1>2, <1>3, <2>1, <2>2
<1>8. \A i : Shifting(i)' <=> i = par
  BY <1>4, <1>5 DEF Shifting
<1>9. (\A i : ~Shifting(i)) /\ \A i : IsDir(i)' = IsDir(i)
  BY <1>1 DEF Shifting, IsDir
<1>10. /\ Entries(par) = es /\ Entries(par)' = new
       /\ \A i \in Inode \ {par} : Entries(i)' = Entries(i)
  BY <1>1, <1>8, <1>9 DEF Entries, ReadDirectory
<1>11. LiveDirs' = LiveDirs /\ LiveDirs \subseteq Inode
  BY <1>5, <1>9, LiveInodes DEF LiveDirs
<1> HIDE DEF es, at, pos, new
<1>12. ASSUME NEW d \in LiveDirs, NEW k \in DOMAIN Entries(d)'
       PROVE  LET h == IF d = par /\ k >= pos THEN k + 1 ELSE k
              IN  h \in DOMAIN Entries(d) /\ Entries(d)'[k] = Entries(d)[h] /\ k \in Nat
  <2>1. CASE d = par
    <3>1. k \in 1 .. n
      BY <1>7, <1>10, <1>12, <2>1
    <3> QED BY <1>2, <1>3, <1>7, <1>10, <2>1, <3>1
  <2>2. CASE d # par
    <3>1. Entries(d)' = Entries(d) /\ Entries(d) = ReadDirectory(d)
      BY <1>9, <1>10, <1>11, <2>2 DEF Entries
    <3>2. ReadDirectory(d) \in Seq(SoundRecs)
      BY <1>11, ReadDirectoryTyped DEF IInv
    <3> QED BY <1>12, <2>2, <3>1, <3>2
  <2> QED BY <2>1, <2>2
<1>13. ASSUME NEW d \in LiveDirs, NEW k \in DOMAIN Entries(d)', NEW i \in Inode,
              NamedBy(d, k, i)'
       PROVE  /\ NamedBy(d, IF d = par /\ k >= pos THEN k + 1 ELSE k, i)
              /\ Entries(d)'[k].name = Entries(d)[IF d = par /\ k >= pos THEN k + 1 ELSE k].name
  BY <1>12, <1>13 DEF NamedBy
<1>14. RecordsSound /\ DirsLaid /\ BlocksSound
  BY DEF TreeSound
<1>15. ASSUME NEW i \in Inode, NEW d, DotsRight(Entries(i), i, d), i \in LiveDirs
       PROVE  DotsRight(Entries(i)', i, d)
  BY <1>12, <1>15 DEF DotsRight
<1>16. RecordsSound'
  <2>1. Root \in LiveDirs' => \A k \in DOMAIN Entries(Root)' : Entries(Root)'[k].name \notin Dots
    BY <1>11, <1>12, <1>14 DEF RecordsSound
  <2>2. ASSUME NEW d \in LiveDirs', NEW i \in Inode, NEW k \in DOMAIN Entries(d)',
               NamedBy(d, k, i)'
        PROVE  /\ i \in mem'.imap /\ i # d
               /\ IsDir(i)' => Entries(d)'[k].name \notin FileNames
               /\ i \in LiveDirs' => DotsRight(Entries(i)', i, d)
    <3> DEFINE h == IF d = par /\ k >= pos THEN k + 1 ELSE k
    <3>1. h \in DOMAIN Entries(d) /\ NamedBy(d, h, i) /\ Entries(d)'[k] = Entries(d)[h]
          /\ d \in LiveDirs
      BY <1>11, <1>12, <1>13, <2>2
    <3> HIDE DEF h
    <3>2. /\ i \in mem.imap /\ i # d
          /\ IsDir(i) => Entries(d)[h].name \notin FileNames
          /\ i \in LiveDirs => DotsRight(Entries(i), i, d)
      BY <1>14, <3>1 DEF RecordsSound
    <3> QED BY <1>5, <1>9, <1>11, <1>15, <3>1, <3>2
  <2>3. ASSUME NEW d1 \in LiveDirs', NEW d2 \in LiveDirs', NEW i \in Inode,
               NEW j \in DOMAIN Entries(d1)', NEW k \in DOMAIN Entries(d2)',
               NamedBy(d1, j, i)', NamedBy(d2, k, i)'
        PROVE  d1 = d2 /\ j = k
    <3> DEFINE h(d, r) == IF d = par /\ r >= pos THEN r + 1 ELSE r
    <3>1. h(d1, j) \in DOMAIN Entries(d1) /\ NamedBy(d1, h(d1, j), i) /\ d1 \in LiveDirs
          /\ j \in Nat
      BY <1>11, <1>12, <1>13, <2>3
    <3>2. h(d2, k) \in DOMAIN Entries(d2) /\ NamedBy(d2, h(d2, k), i) /\ d2 \in LiveDirs
          /\ k \in Nat
      BY <1>11, <1>12, <1>13, <2>3
    <3>3. d1 = d2 /\ h(d1, j) = h(d2, k)
      <4> HIDE DEF h
      <4> QED BY <1>14, <3>1, <3>2 DEF RecordsSound
    <3> QED BY <1>3, <3>1, <3>2, <3>3
  <2> QED BY <2>1, <2>2, <2>3 DEF RecordsSound
<1>17. BlocksSound'
  <2>1. 0 \in mem'.bmap /\ \A i \in Live : InodeBlocks(i) \subseteq mem'.bmap
    BY <1>5, <1>14 DEF BlocksSound
  <2>2. None \notin Live'
    BY <1>5, LiveInodes DEF None, Inode
  <2> QED BY <1>1, <1>5, <1>14, <2>1, <2>2, BlocksFrame
<1>18. DirsLaid'
  <2>1. \A b \in Block : Len(blk'[b].ents) <= PerBlock
    BY <1>5, <1>14 DEF DirsLaid
  <2>2. None \notin LiveDirs'
    BY <1>11 DEF None, Inode
  <2> QED BY <1>1, <1>9, <1>11, <1>14, <2>1, <2>2, DirsFrame
<1>19. CreationSound' /\ WritingSound'
  <2>1. CreationSound'
    BY <1>4, <1>5 DEF CreationSound, Creating
  <2>2. \A k \in 0 .. NDirect - 1 : ~ (k < loc'.k)
    BY <1>5
  <2>3. Len(loc'.ents) <= MaxEntries
    BY <1>2, <1>7, DiskFSAssumption DEF new
  <2> QED BY <2>1, <2>2, <2>3 DEF WritingSound
<1>20. RemovalSound'
  <2>1. ASSUME NEW d \in LiveDirs', NEW k \in DOMAIN Entries(d)', NamedBy(d, k, x)'
        PROVE  FALSE
    <3> DEFINE h == IF d = par /\ k >= pos THEN k + 1 ELSE k
    <3>1. h \in DOMAIN Entries(d) /\ NamedBy(d, h, x) /\ d \in LiveDirs /\ k \in Nat
      BY <1>1, <1>11, <1>12, <1>13, <2>1
    <3>2. pos \in DOMAIN Entries(par) /\ NamedBy(par, pos, x)
      BY <1>1, <1>2, <1>3, <1>10 DEF NamedBy
    <3>3. d = par /\ h = pos
      <4> HIDE DEF h
      <4> QED BY <1>1, <1>14, <3>1, <3>2 DEF RecordsSound
    <3> QED BY <1>3, <3>1, <3>3
  <2>2. ASSUME NEW k \in 0 .. NDirect - 1, k * PerBlock < n  PROVE loc'.orig.direct[k] # 0
    <3>1. Holds(blk, itab[par].direct, es)
      BY <1>1, <1>9, <1>14 DEF DirsLaid, es
    <3>2. k * PerBlock < Len(es)
      <4>1. k * PerBlock \in Nat
        BY Bases
      <4> QED BY <1>2, <2>2, <4>1
    <3>3. itab[par].direct[k] # 0
      BY <3>1, <3>2 DEF Holds, HoldsAt
    <3> QED BY <1>5, <3>3 DEF ReadInode
  <2>3. Len(loc'.ents) = n
    BY <1>7 DEF new
  <2>4. par \in LiveDirs'
    BY <1>1, <1>11
  <2> QED BY <1>1, <1>4, <1>5, <2>1, <2>2, <2>3, <2>4 DEF RemovalSound, NamedBy
<1> QED BY <1>5, <1>16, <1>17, <1>18, <1>19, <1>20 DEF TreeSound

-----------------------------------------------------------------------------
(* Writing a directory, block by block.                                    *)

LEMMA DirBlockFits ==
  ASSUME Careful, IInv, TreeSound, pc = "wdBlock", loc.k * PerBlock < Len(loc.ents)
  PROVE  /\ loc.k \in 0 .. NDirect - 1 /\ loc.k # NDirect - 1 /\ loc.k \in Nat
         /\ loc \in CallTypes /\ mem \in Allocator
         /\ GetBlock(loc.node, loc.k) = loc.node.direct[loc.k]
<1>1. loc \in CallTypes /\ mem \in Allocator /\ loc.k \in Nat /\ Len(loc.ents) \in Nat
  BY DEF IInv, Typed, CallTypes
<1>2. Len(loc.ents) <= MaxEntries /\ MaxEntries <= (NDirect - 1) * PerBlock
  BY DEF TreeSound, WritingSound, Careful
<1>3. NDirect \in Nat \ {0} /\ PerBlock \in Nat /\ MaxEntries \in Nat
  BY DiskFSAssumption
<1>4. loc.k * PerBlock \in Nat /\ (NDirect - 1) * PerBlock \in Nat
  <2>1. NDirect - 1 \in Nat
    BY <1>3
  <2> QED BY <1>1, <2>1, Bases
<1>5. ~ (NDirect - 1 < loc.k) /\ NDirect - 1 # loc.k
  <2>1. NDirect - 1 < loc.k => ((NDirect - 1) * PerBlock) + PerBlock <= loc.k * PerBlock
    <3>1. NDirect - 1 \in Nat
      BY <1>3
    <3> QED BY <1>1, <3>1, Bases
  <2> QED BY <1>1, <1>2, <1>3, <1>4, <2>1
<1>6. loc.k \in 0 .. NDirect - 1 /\ loc.k < NDirect
  BY <1>1, <1>3, <1>5
<1> QED BY <1>1, <1>5, <1>6 DEF GetBlock

\* A block of the directory gets its share of the records.
LEMMA ChunkIs ==
  ASSUME loc \in CallTypes, loc.k * PerBlock < Len(loc.ents)
  PROVE  /\ Len(Chunk) <= PerBlock
         /\ \A r \in 1 .. PerBlock : loc.k * PerBlock + r <= Len(loc.ents) =>
              r <= Len(Chunk) /\ Chunk[r] = loc.ents[loc.k * PerBlock + r]
<1> DEFINE m == loc.k * PerBlock
<1> DEFINE n == Len(loc.ents)
<1> DEFINE S == {(loc.k + 1) * PerBlock, n}
<1> DEFINE e == Min(S)
<1>1. /\ loc.ents \in Seq(SoundRecs) /\ loc.k \in Nat /\ PerBlock \in Nat \ {0}
  BY DiskFSAssumption DEF CallTypes
<1>2. /\ m \in Nat /\ (loc.k + 1) * PerBlock = m + PerBlock /\ n \in Nat
  BY <1>1, Bases
<1>3. e \in S /\ e <= n /\ e <= m + PerBlock
  <2>1. S \in SUBSET Nat /\ n \in S /\ m + PerBlock \in S
    BY <1>1, <1>2
  <2> HIDE DEF S
  <2> QED BY <2>1, MinIsLowest
<1>4. e = n \/ e = m + PerBlock
  BY <1>2, <1>3
<1>5. Chunk = SubSeq(loc.ents, m + 1, e)
  BY DEF Chunk
<1> HIDE DEF S, e, m
<1>6. m < n
  BY DEF m
<1>7. /\ Len(SubSeq(loc.ents, m + 1, e)) = e - m
      /\ \A r \in 1 .. e - m : SubSeq(loc.ents, m + 1, e)[r] = loc.ents[m + r]
  <2>1. e \in Nat /\ m < e /\ e <= n
    BY <1>1, <1>2, <1>3, <1>4, <1>6
  <2> QED BY <1>1, <1>2, <2>1
<1>8. Len(Chunk) <= PerBlock /\ \A r \in 1 .. PerBlock : m + r <= n =>
        r <= Len(Chunk) /\ Chunk[r] = loc.ents[m + r]
  <2>1. ASSUME NEW r \in 1 .. PerBlock, m + r <= n  PROVE r \in 1 .. e - m /\ r <= e - m
    BY <1>1, <1>2, <1>4, <2>1
  <2>2. e - m <= PerBlock
    BY <1>1, <1>2, <1>3, <1>4
  <2> QED BY <1>5, <1>7, <2>1, <2>2
<1> QED BY <1>8 DEF m

\* Such a write changes no directory: what it overwrites are blocks of the one it
\* is made for, whose records are the first of the new ones, or a removal is under way.
LEMMA DirBlockLeaves ==
  ASSUME Careful, IInv, TreeSound, pc = "wdBlock", pc' = "wdBlock",
         loc.k * PerBlock < Len(loc.ents), NEW b \in Block, b # 0,
         b = loc.node.direct[loc.k] \/ b \notin mem.bmap,
         blk' = [blk EXCEPT ![b] = DirBlock(Chunk)], itab' = itab,
         loc'.op = loc.op, loc'.dir = loc.dir, loc'.ents = loc.ents
  PROVE  /\ \A c \in Block : Len(blk'[c].ents) <= PerBlock /\ (c # b => blk'[c] = blk[c])
         /\ blk'[b].ents = Chunk
         /\ \A d \in LiveDirs : Entries(d)' = Entries(d)
         /\ \A d \in LiveDirs : ~Shifting(d) =>
              /\ ReadDirectory(d)' = ReadDirectory(d)
              /\ Len(ReadDirectory(d)) = itab[d].size
              /\ Holds(blk', itab[d].direct, ReadDirectory(d))
<1>0. PICK t : t = loc.dir
  OBVIOUS
<1>1. /\ loc.k \in 0 .. NDirect - 1 /\ loc.k \in Nat /\ loc \in CallTypes /\ Target = t
      /\ t \in Live /\ t \in Inode
  BY <1>0, DirBlockFits, LiveInodes DEF TreeSound, CopySound, Target
<1>2. /\ Len(Chunk) <= PerBlock
      /\ \A r \in 1 .. PerBlock : loc.k * PerBlock + r <= Len(loc.ents) =>
           r <= Len(Chunk) /\ Chunk[r] = loc.ents[loc.k * PerBlock + r]
  BY <1>1, ChunkIs
<1>3. \A c \in Block : blk'[c] = IF c = b THEN DirBlock(Chunk) ELSE blk[c]
  BY DEF IInv, Typed
<1>4. /\ \A c \in Block : Len(blk'[c].ents) <= PerBlock /\ (c # b => blk'[c] = blk[c])
      /\ blk'[b].ents = Chunk
  BY <1>2, <1>3 DEF DirBlock, TreeSound, DirsLaid
<1>5. \A c \in Block : blk'[c].ents \in Seq(SoundRecs)
  BY <1>1, <1>3, ChunkTyped DEF DirBlock, IInv, Typed
<1>6. ASSUME NEW d \in LiveDirs, d # t
      PROVE  b \notin InodeBlocks(d)
  <2>1. d \in Live \ {t}
    BY <1>6 DEF LiveDirs
  <2>2. CASE b \notin mem.bmap
    BY <2>1, <2>2 DEF TreeSound, BlocksSound
  <2>3. CASE b = loc.node.direct[loc.k]
    BY <1>1, <2>1, <2>3, CopyBlocks
  <2> QED BY <2>2, <2>3
<1>7. \A d : Shifting(d)' <=> Shifting(d)
  BY DEF Shifting
<1>8. ASSUME NEW d \in LiveDirs, d # t
      PROVE  /\ ReadDirectory(d)' = ReadDirectory(d)
             /\ Len(ReadDirectory(d)) = itab[d].size
             /\ Holds(blk', itab[d].direct, ReadDirectory(d))
  <2>1. d \in Inode /\ \A k \in 0 .. NDirect - 1 : itab[d].direct[k] \in Block
    BY LiveInodes, PointersTyped DEF LiveDirs
  <2>2. \A k \in 0 .. NDirect - 1 : itab[d].direct[k] # 0 =>
          blk[itab[d].direct[k]].ents = blk'[itab[d].direct[k]].ents
    <3>1. ASSUME NEW k \in 0 .. NDirect - 1, itab[d].direct[k] # 0
          PROVE  itab[d].direct[k] # b
      BY <1>6, <1>8, <3>1 DEF InodeBlocks
    <3> QED BY <1>4, <2>1, <3>1, Zenon
  <2>3. DirectoryOf(itab[d], blk') = DirectoryOf(itab[d], blk)
    <3> DEFINE slot == itab[d]
    <3> DEFINE C == blk'
    <3>1. \A k \in 0 .. NDirect - 1 : slot.direct[k] # 0 =>
            blk[slot.direct[k]].ents = C[slot.direct[k]].ents
      BY <2>2
    <3> HIDE DEF slot, C
    <3>2. DirectoryOf(slot, C) = DirectoryOf(slot, blk)
      BY <3>1, SameDirectory, ZenonT(30)
    <3> QED BY <3>2 DEF slot, C
  <2>4. Len(ReadDirectory(d)) = itab[d].size /\ Holds(blk, itab[d].direct, ReadDirectory(d))
    BY <1>0, <1>8 DEF TreeSound, DirsLaid, Shifting
  <2>5. Holds(blk', itab[d].direct, ReadDirectory(d))
    BY <2>2, <2>4 DEF Holds, HoldsAt
  <2> QED BY <2>3, <2>4, <2>5 DEF ReadDirectory
<1>9. ASSUME t \in LiveDirs, ~Shifting(t)
      PROVE  /\ ReadDirectory(t)' = ReadDirectory(t)
             /\ Len(ReadDirectory(t)) = itab[t].size
             /\ Holds(blk', itab[t].direct, ReadDirectory(t))
  <2> DEFINE ds == ReadDirectory(t)
  <2> DEFINE es == loc.ents
  <2>1. loc.op # "unlink" /\ Creating
    BY <1>0, <1>9 DEF Shifting, Creating
  <2>2. Len(ds) = itab[t].size /\ Holds(blk, itab[t].direct, ds)
    BY <1>9 DEF TreeSound, DirsLaid
  <2>3. ds \in Seq(SoundRecs) /\ Len(ds) <= MaxEntries
    BY <1>1, ReadDirectoryTyped DEF IInv
  <2>4. es \in Seq(SoundRecs)
    BY <1>1 DEF CallTypes
  <2>5. Len(ds) <= Len(es) /\ \A j \in 1 .. Len(ds) : es[j] = ds[j]
    <3>1. CASE itab[t].size = 0
      BY <2>2, <2>3, <2>4, <3>1
    <3>2. CASE es = Append(ds, Rec(Last(loc.path), loc.ino))
      <4> HIDE DEF ds
      <4> QED BY <2>3, <3>2
    <3> QED BY <1>0, <2>1, <3>1, <3>2 DEF TreeSound, CreationSound
  <2>6. /\ itab[t].direct \in Pointers
        /\ \A k \in 0 .. NDirect - 1 : itab[t].direct[k] \in Block
    BY <1>1, PointersTyped
  <2> HIDE DEF ds, es
  <2>7. Holds(blk', itab[t].direct, ds)
    <3>1. ASSUME NEW h \in 0 .. NDirect - 1, h * PerBlock < Len(ds)
          PROVE  HoldsAt(blk', itab[t].direct, ds, h)
      <4>1. HoldsAt(blk, itab[t].direct, ds, h) /\ itab[t].direct[h] # 0
        BY <2>2, <3>1 DEF Holds, HoldsAt
      <4>2. CASE itab[t].direct[h] # b
        <5>1. blk'[itab[t].direct[h]] = blk[itab[t].direct[h]]
          BY <1>4, <2>6, <4>2
        <5> QED BY <4>1, <5>1 DEF HoldsAt
      <4>3. CASE itab[t].direct[h] = b
        <5>1. loc.node.direct[h] = b /\ b \in mem.bmap
          <6>1. b \in InodeBlocks(t)
            BY <4>1, <4>3 DEF InodeBlocks
          <6>2. loc.node.direct[h] = itab[t].direct[h]
            BY <1>1, <4>1 DEF TreeSound, CopySound
          <6> QED BY <1>1, <4>3, <6>1, <6>2 DEF TreeSound, BlocksSound
        <5>2. h = loc.k
          <6>1. Distinct(loc.node.direct)
            BY DEF TreeSound, CopySound
          <6> QED BY <1>1, <5>1, <6>1 DEF Distinct
        <5>3. ASSUME NEW r \in 1 .. PerBlock, h * PerBlock + r <= Len(ds)
              PROVE  r <= Len(Chunk) /\ Chunk[r] = ds[h * PerBlock + r]
          <6> DEFINE q == h * PerBlock + r
          <6>1. h * PerBlock \in Nat /\ PerBlock \in Nat
            <7>1. PerBlock \in Nat
              BY DiskFSAssumption
            <7>2. h \in Nat
              OBVIOUS
            <7> QED BY <7>1, <7>2, Bases
          <6>2. q \in 1 .. Len(ds) /\ q <= Len(es)
            <7>1. PICK n \in Nat : n = h * PerBlock
              BY <6>1
            <7>2. PICK x \in Nat : x = Len(ds)
              BY <2>3
            <7>3. PICK y \in Nat : y = Len(es)
              BY <2>4
            <7>4. x <= y /\ n + r <= x
              BY <2>5, <5>3, <7>1, <7>2, <7>3
            <7>5. r \in Nat /\ 1 <= r
              BY <6>1
            <7>6. n + r \in 1 .. x /\ n + r <= y
              BY <7>4, <7>5
            <7> QED BY <7>1, <7>2, <7>3, <7>6
          <6>3. es[q] = ds[q]
            BY <2>5, <6>2
          <6>4. r <= Len(Chunk) /\ Chunk[r] = es[q]
            BY <1>2, <5>2, <6>2 DEF es
          <6> QED BY <6>3, <6>4
        <5> QED BY <1>4, <4>1, <4>3, <5>3 DEF HoldsAt
      <4> QED BY <4>2, <4>3
    <3> QED BY <3>1 DEF Holds
  <2>8. DirectoryOf(itab[t], blk') = ds
    <3> DEFINE slot == itab[t]
    <3> DEFINE C == blk'
    <3> DEFINE S == SoundRecs
    <3>1. /\ slot.direct \in Pointers /\ ds \in Seq(S) /\ slot.size = Len(ds)
          /\ Len(ds) <= MaxEntries
          /\ \A c \in Block : C[c].ents \in Seq(S) /\ Len(C[c].ents) <= PerBlock
          /\ Holds(C, slot.direct, ds)
      BY <1>4, <1>5, <2>2, <2>3, <2>6, <2>7
    <3> HIDE DEF slot, C, S
    <3>2. DirectoryOf(slot, C) = ds
      BY <3>1, DirectoryIsHeld
    <3> QED BY <3>2 DEF slot, C
  <2> QED BY <2>2, <2>7, <2>8 DEF ReadDirectory, ds
<1>10. \A d \in LiveDirs : ~Shifting(d) =>
         /\ ReadDirectory(d)' = ReadDirectory(d)
         /\ Len(ReadDirectory(d)) = itab[d].size
         /\ Holds(blk', itab[d].direct, ReadDirectory(d))
  BY <1>8, <1>9
<1>11. \A d \in LiveDirs : Entries(d)' = Entries(d)
  BY <1>7, <1>10 DEF Entries
<1> QED BY <1>4, <1>10, <1>11

\* A creation whose directory cannot be written frees its inode and the blocks that
\* are new in copy, the inode as it would have been written.
LEMMA GivenBackKeepsTree ==
  ASSUME IInv, TreeSound, pc = "wdBlock", Creating, NEW m \in Allocator, NEW copy,
         m.imap = mem.imap, mem.bmap \subseteq m.bmap,
         \A j \in 0 .. NDirect - 1 : loc.orig.direct[j] = 0 /\ copy.direct[j] # 0 =>
           copy.direct[j] \in NewBlocks \/ copy.direct[j] \notin mem.bmap,
         Fail(Rollback(m, loc.orig, copy)), UNCHANGED <<itab, blk, fdt>>
  PROVE  TreeSound'
<1> DEFINE r == Rollback(m, loc.orig, copy)
<1> DEFINE freed == {copy.direct[k] : k \in {j \in 0 .. NDirect - 1 :
                                        loc.orig.direct[j] = 0 /\ copy.direct[j] # 0}}
<1>1. r.imap = mem.imap /\ r.bmap = m.bmap \ freed /\ r \in Allocator
  BY RollbackIs, AfterRollback DEF After
<1>2. mem' = FreeInode(r, loc.ino) /\ Return
  BY DEF Fail, Creating
<1>3. mem'.imap = mem.imap \ {loc.ino} /\ mem'.bmap = m.bmap \ freed
  <2> HIDE DEF r, freed
  <2> QED BY <1>1, <1>2, FreeInodeIs
<1>4. \A c \in freed : c # 0 /\ (c \in NewBlocks \/ c \notin mem.bmap)
  OBVIOUS
<1> HIDE DEF r, freed
<1>5. 0 \in mem'.bmap /\ \A i \in Live : InodeBlocks(i) \subseteq mem'.bmap
  BY <1>3, <1>4 DEF TreeSound, BlocksSound
<1> QED BY <1>2, <1>3, <1>5, FailKeepsTree

LEMMA WriteDirBlockKeepsTree ==
  ASSUME Careful, IInv, TreeSound, NEW ok, WriteDirBlock(ok)
  PROVE  TreeSound'
<1>0. PICK t : t = loc.dir
  OBVIOUS
<1> DEFINE old == GetBlock(loc.node, loc.k)
<1> DEFINE b == IF old = 0 THEN FreeBlockNo(mem) ELSE old
<1> DEFINE m == IF old = 0 THEN AllocateBlock(mem) ELSE mem
<1> DEFINE node == SetBlock(loc.node, loc.k, b)
<1>1. /\ pc = "wdBlock" /\ loc.k * PerBlock < Len(loc.ents) /\ UNCHANGED <<itab, fdt>>
  BY DEF WriteDirBlock
<1>2. /\ loc.k \in 0 .. NDirect - 1 /\ loc.k # NDirect - 1 /\ loc.k \in Nat
      /\ loc \in CallTypes /\ mem \in Allocator /\ old = loc.node.direct[loc.k]
      /\ t \in Live /\ t \in Inode /\ Target = t
  <2>1. Target = t /\ t \in Live
    BY <1>0, <1>1 DEF TreeSound, CopySound, Target
  <2> QED BY <1>1, <2>1, DirBlockFits, LiveInodes
<1>3. old \in Block /\ loc.node \in Copies
  <2>1. loc.node \in Copies
    BY <1>2 DEF CallTypes
  <2>2. loc.node.direct[loc.k] \in Block
    BY <1>2, <2>1 DEF Copies, Pointers
  <2> QED BY <1>2, <2>1, <2>2
<1>4. /\ m.imap = mem.imap /\ mem.bmap \subseteq m.bmap /\ m \in Allocator
      /\ b # None => b \in m.bmap /\ b \in Block /\ b # 0
      /\ old = 0 /\ b # None => b \notin mem.bmap
      /\ old # 0 => b = old /\ m = mem
  <2>1. old # 0 => old \in mem.bmap
    BY <1>1, <1>2, CopyBlocks
  <2>2. 0 \in mem.bmap
    BY DEF TreeSound, BlocksSound
  <2> QED BY <1>2, <1>3, <2>1, <2>2, AllocateBlockIs, AllocateBlockKeeps
<1>5. /\ \A k \in 0 .. NDirect - 1 :
           /\ k # loc.k => node.direct[k] = loc.node.direct[k]
           /\ k = loc.k => node.direct[k] = b
      /\ node.mode = loc.node.mode /\ node.tail = loc.node.tail
  BY <1>2, <1>3 DEF SetBlock, Copies, Pointers
<1>6. ASSUME \/ Creating /\ b = None /\ Fail(Rollback(mem, loc.orig, loc.node)) /\ UNCHANGED blk
             \/ Creating /\ b # None /\ Fail(Rollback(m, loc.orig, node)) /\ UNCHANGED blk
      PROVE  TreeSound'
  <2> HIDE DEF old, b, m, node
  <2>1. \A j \in 0 .. NDirect - 1 : loc.orig.direct[j] = 0 /\ loc.node.direct[j] # 0 =>
          loc.node.direct[j] \in NewBlocks
    BY <1>1 DEF NewBlocks
  <2>2. CASE Creating /\ b = None /\ Fail(Rollback(mem, loc.orig, loc.node)) /\ UNCHANGED blk
    BY <1>1, <1>2, <2>1, <2>2, GivenBackKeepsTree
  <2>3. CASE Creating /\ b # None /\ Fail(Rollback(m, loc.orig, node)) /\ UNCHANGED blk
    <3>1. \A j \in 0 .. NDirect - 1 : loc.orig.direct[j] = 0 /\ node.direct[j] # 0 =>
            node.direct[j] \in NewBlocks \/ node.direct[j] \notin mem.bmap
      BY <1>2, <1>4, <1>5, <2>1, <2>3
    <3> QED BY <1>1, <1>4, <2>3, <3>1, GivenBackKeepsTree
  <2> QED BY <1>6, <2>2, <2>3
<1>7. ASSUME b # None, mem' = m, blk' = [blk EXCEPT ![b] = DirBlock(Chunk)],
             pc' = "wdBlock", loc' = [loc EXCEPT !.node = node, !.k = @ + 1]
      PROVE  TreeSound'
  <2> HIDE DEF old, b, m, node
  <2>1. /\ loc'.node = node /\ loc'.orig = loc.orig /\ loc'.ino = loc.ino /\ loc'.op = loc.op
        /\ loc'.dir = t /\ loc'.par = loc.par /\ loc'.path = loc.path /\ loc'.ents = loc.ents
        /\ loc'.k = loc.k + 1 /\ loc'.flags = loc.flags
    BY <1>0, <1>2, <1>7 DEF CallTypes
  <2>2. b \in Block /\ b # 0 /\ (b = loc.node.direct[loc.k] \/ b \notin mem.bmap)
    BY <1>2, <1>4, <1>7
  <2>3. /\ \A c \in Block : Len(blk'[c].ents) <= PerBlock /\ (c # b => blk'[c] = blk[c])
        /\ blk'[b].ents = Chunk
        /\ \A d \in LiveDirs : Entries(d)' = Entries(d)
        /\ \A d \in LiveDirs : ~Shifting(d) =>
             /\ ReadDirectory(d)' = ReadDirectory(d)
             /\ Len(ReadDirectory(d)) = itab[d].size
             /\ Holds(blk', itab[d].direct, ReadDirectory(d))
    BY <1>0, <1>1, <1>7, <2>1, <2>2, DirBlockLeaves
  <2>4. /\ Live' = Live /\ (\A d : IsDir(d)' = IsDir(d)) /\ LiveDirs' = LiveDirs
        /\ (\A d : Shifting(d)' = Shifting(d)) /\ Target' = t
    <3>1. Live' = Live
      BY <1>1, <1>4, <1>7, <2>1 DEF Live, Removing
    <3>2. \A d : IsDir(d)' = IsDir(d)
      BY <1>1 DEF IsDir
    <3> QED BY <1>0, <1>1, <1>7, <2>1, <3>1, <3>2 DEF LiveDirs, Shifting, Target
  <2>5. \A c \in NewBlocks' : c \in NewBlocks \/ (c = b /\ old = 0)
    <3>1. ASSUME NEW k \in 0 .. NDirect - 1, loc.orig.direct[k] = 0, node.direct[k] # 0
          PROVE  node.direct[k] \in NewBlocks \/ (node.direct[k] = b /\ old = 0)
      <4>1. CASE node.direct[k] = loc.node.direct[k]
        BY <1>1, <3>1, <4>1 DEF NewBlocks
      <4>2. CASE node.direct[k] # loc.node.direct[k]
        BY <1>2, <1>4, <1>5, <4>2
      <4> QED BY <4>1, <4>2
    <3> QED BY <1>7, <2>1, <3>1, ZenonT(30) DEF NewBlocks
  <2>6. BlocksSound'
    <3>1. BlocksSound
      BY DEF TreeSound
    <3>2. NewBlocks' \cup {0} \subseteq mem'.bmap
      BY <1>4, <1>7, <2>5, <3>1 DEF BlocksSound
    <3>3. \A i \in Live' : InodeBlocks(i) \subseteq mem'.bmap /\ InodeBlocks(i) \cap NewBlocks' = {}
      BY <1>4, <1>7, <2>4, <2>5, <3>1 DEF BlocksSound
    <3>4. None \notin Live'
      BY <2>4, LiveInodes DEF None, Inode
    <3> QED BY <1>1, <2>4, <3>1, <3>2, <3>3, <3>4, BlocksFrame
  <2>7. DirsLaid'
    BY <1>1, <2>3, <2>4 DEF DirsLaid
  <2>8. RecordsSound'
    <3>1. RecordsSound
      BY DEF TreeSound
    <3>2. \A d \in LiveDirs, i \in Inode : \A k \in DOMAIN Entries(d) :
            NamedBy(d, k, i) => i \in mem'.imap
      BY <1>4, <1>7, <3>1 DEF RecordsSound
    <3> QED BY <2>3, <2>4, <3>1, <3>2, RecordsFrame
  <2>9. FilesSound'
    BY <1>1, <1>7, <2>4 DEF FilesSound, TreeSound
  <2>10. CopySound'
    <3>1. Distinct(node.direct)
      <4>1. \A k \in 0 .. NDirect - 1 : loc.node.direct[k] # 0 => loc.node.direct[k] \in mem.bmap
        BY <1>1, CopyBlocks
      <4>2. Distinct(loc.node.direct)
        BY <1>1 DEF TreeSound, CopySound
      <4>3. CASE old = 0
        BY <1>4, <1>5, <1>7, <4>1, <4>2, <4>3 DEF Distinct
      <4>4. CASE old # 0
        BY <1>2, <1>4, <1>5, <4>2, <4>4 DEF Distinct
      <4> QED BY <4>3, <4>4
    <3>2. /\ node.direct[NDirect - 1] = 0 /\ node.mode = itab[t].mode
          /\ HasNeighbour(t) /\ node.tail = "dir" => itab[t + 1].mode = "dir"
          /\ loc.orig.direct = itab[t].direct
      BY <1>1, <1>2, <1>5, DiskFSAssumption DEF TreeSound, CopySound
    <3>3. ASSUME NEW k \in 0 .. NDirect - 1, itab[t].direct[k] # 0
          PROVE  node.direct[k] = itab[t].direct[k]
      <4>1. loc.node.direct[k] = itab[t].direct[k]
        BY <1>1, <1>2, <3>3 DEF TreeSound, CopySound
      <4> QED BY <1>2, <1>4, <1>5, <3>3, <4>1
    <3> QED BY <1>1, <1>2, <1>7, <2>1, <2>4, <3>1, <3>2, <3>3 DEF CopySound
  <2>11. WritingSound'
    <3>1. ASSUME NEW h \in 0 .. NDirect - 1, h < loc'.k
          PROVE  HoldsAt(blk', node.direct, loc.ents, h)
      <4>1. CASE h = loc.k
        <5>1. node.direct[h] = b /\ b # 0 /\ blk'[b].ents = Chunk
          BY <1>5, <2>2, <2>3, <4>1
        <5>2. \A r \in 1 .. PerBlock : loc.k * PerBlock + r <= Len(loc.ents) =>
                r <= Len(Chunk) /\ Chunk[r] = loc.ents[loc.k * PerBlock + r]
          BY <1>1, <1>2, ChunkIs
        <5> QED BY <4>1, <5>1, <5>2 DEF HoldsAt
      <4>2. CASE h # loc.k
        <5>1. h < loc.k
          BY <1>2, <2>1, <3>1, <4>2
        <5>2. HoldsAt(blk, loc.node.direct, loc.ents, h) /\ loc.node.direct[h] # 0
          BY <1>1, <5>1 DEF TreeSound, WritingSound, HoldsAt
        <5>3. loc.node.direct[h] \in mem.bmap /\ loc.node.direct[h] \in Block
          BY <1>1, <5>2, CopyBlocks
        <5>4. loc.node.direct[h] # b
          <6>1. Distinct(loc.node.direct)
            BY <1>1 DEF TreeSound, CopySound
          <6> QED BY <1>2, <2>2, <4>2, <5>2, <5>3, <6>1 DEF Distinct
        <5>5. node.direct[h] = loc.node.direct[h]
              /\ blk'[loc.node.direct[h]] = blk[loc.node.direct[h]]
          BY <1>5, <2>3, <4>2, <5>3, <5>4
        <5> QED BY <5>2, <5>5 DEF HoldsAt
      <4> QED BY <4>1, <4>2
    <3>2. Len(loc'.ents) <= MaxEntries
      BY <1>1, <2>1 DEF TreeSound, WritingSound
    <3> QED BY <2>1, <3>1, <3>2 DEF WritingSound
  <2>12. CreationSound'
    <3>1. SUFFICES ASSUME Creating  PROVE CreationSound'
      BY <1>1, <1>7, <2>1 DEF CreationSound, Creating
    <3>2. PICK x, par : x = loc.ino /\ par = loc.par
      OBVIOUS
    <3>3. /\ loc.op \in {"open", "mkdir"} /\ x \in mem'.imap
          /\ loc.path \in IF loc.op = "open" THEN FilePaths ELSE DirPaths
          /\ \A f \in Fd : fdt'[f] # NoFd => fdt'[f].ino # x
          /\ par \in Live' /\ par # x /\ x \in Live
          /\ loc.op = "open" => ~IsDir(x)'
      BY <1>1, <1>4, <1>7, <2>4, <3>1, <3>2
         DEF TreeSound, CreationSound, Live, Removing, Creating
    <3>4. \A d \in LiveDirs' : \A k \in DOMAIN Entries(d)' : ~NamedBy(d, k, x)'
      <4>1. \A d \in LiveDirs : \A k \in DOMAIN Entries(d) : ~NamedBy(d, k, x)
        BY <3>1, <3>2 DEF TreeSound, CreationSound
      <4> QED BY <2>3, <2>4, <4>1 DEF NamedBy
    <3>5. t = par /\ IsDir(x)' =>
            /\ \A k \in DOMAIN Entries(x)' : Entries(x)'[k].name \in Dots
            /\ DotsRight(Entries(x)', x, par)
      <4>1. t = par /\ IsDir(x) =>
              /\ \A k \in DOMAIN Entries(x) : Entries(x)[k].name \in Dots
              /\ DotsRight(Entries(x), x, par)
        BY <1>0, <1>1, <3>1, <3>2 DEF TreeSound, CreationSound
      <4> QED BY <2>3, <2>4, <3>3, <4>1 DEF LiveDirs
    <3>6. \/ /\ loc.op = "mkdir" /\ t = x
             /\ loc.ents = <<Rec(".", x), Rec("..", par)>>
             /\ itab'[x].size = 0
          \/ /\ t = par /\ IsDir(par)'
             /\ loc.ents = Append(ReadDirectory(par)', Rec(Last(loc.path), x))
      <4>1. ~Shifting(par) /\ par \in Live
        BY <2>4, <3>1, <3>3 DEF Shifting, Creating
      <4>2. \/ /\ loc.op = "mkdir" /\ t = x
               /\ loc.ents = <<Rec(".", x), Rec("..", par)>>
               /\ itab[x].size = 0
            \/ /\ t = par /\ IsDir(par)
               /\ loc.ents = Append(ReadDirectory(par), Rec(Last(loc.path), x))
        BY <1>0, <1>1, <3>1, <3>2 DEF TreeSound, CreationSound
      <4>3. IsDir(par) => ReadDirectory(par)' = ReadDirectory(par)
        BY <2>3, <4>1 DEF LiveDirs
      <4> QED BY <1>1, <2>4, <4>2, <4>3
    <3>7. loc'.ino = x /\ loc'.par = par
      BY <2>1, <3>2
    <3> QED BY <1>7, <2>1, <3>3, <3>4, <3>5, <3>6, <3>7
            DEF CreationSound, NamedBy, IsDir, Entries, ReadDirectory, Shifting
  <2>13. RemovalSound'
    <3>1. SUFFICES ASSUME Removing  PROVE RemovalSound'
      BY <1>1, <1>7, <2>1 DEF RemovalSound, Removing
    <3>2. PICK x, par : x = loc.ino /\ par = loc.par
      OBVIOUS
    <3>3. /\ "unlink" \in Calls /\ par \in LiveDirs' /\ t = par
          /\ \A f \in Fd : fdt'[f] # NoFd => fdt'[f].ino # x
          /\ \A k \in 0 .. NDirect - 1 :
               k * PerBlock < Len(loc.ents) => loc.orig.direct[k] # 0
      BY <1>0, <1>1, <2>4, <3>1, <3>2 DEF TreeSound, RemovalSound
    <3>4. \A d \in LiveDirs' : \A k \in DOMAIN Entries(d)' : ~NamedBy(d, k, x)'
      <4>1. \A d \in LiveDirs : \A k \in DOMAIN Entries(d) : ~NamedBy(d, k, x)
        BY <1>1, <3>1, <3>2 DEF TreeSound, RemovalSound
      <4> QED BY <2>3, <2>4, <4>1 DEF NamedBy
    <3>5. loc'.ino = x /\ loc'.par = par
      BY <2>1, <3>2
    <3> QED BY <1>7, <2>1, <3>3, <3>4, <3>5 DEF RemovalSound, NamedBy
  <2> QED BY <2>1, <2>6, <2>7, <2>8, <2>9, <2>10, <2>11, <2>12, <2>13 DEF TreeSound
<1>8. CASE loc.op = "unlink"
  <2>1. /\ "unlink" \in Calls /\ loc.orig.direct[loc.k] # 0
        /\ loc.orig.direct = itab[t].direct
    BY <1>1, <1>2, <1>8 DEF TreeSound, RemovalSound, Removing, CopySound
  <2>2. ok
    BY <2>1 DEF Careful, WriteDirBlock, Outcome
  <2>3. old # 0
    BY <1>1, <1>2, <2>1 DEF TreeSound, CopySound
  <2>4. b # None
    <3>1. b = old
      BY <2>3
    <3> HIDE DEF old, b
    <3> QED BY <1>3, <3>1 DEF None, Block
  <2> QED BY <1>7, <2>2, <2>4 DEF WriteDirBlock, Goto
<1>9. CASE loc.op # "unlink"
  <2>1. Creating
    BY <1>1, <1>9 DEF Creating
  <2> QED BY <1>6, <1>7, <2>1 DEF WriteDirBlock, Goto
<1> QED BY <1>8, <1>9

\* Once the inode is written, its directory is what the call wrote block by block.
LEMMA DirInodeLeaves ==
  ASSUME Careful, IInv, TreeSound, pc = "wdBlock", loc.k * PerBlock >= Len(loc.ents),
         pc' \in {"idle", "created", "entry"}, loc' = loc \/ pc' = "idle",
         NEW t, t = loc.dir,
         WriteInode(t, [loc.node EXCEPT !.size = Len(loc.ents)]), UNCHANGED <<blk, fdt>>,
         Live' = Live, mem'.bmap = mem.bmap
  PROVE  /\ t \in Live /\ t \in Inode /\ NewBlocks' = {}
         /\ \A j \in Inode : IsDir(j)' => IsDir(j)
         /\ LiveDirs' \subseteq LiveDirs /\ LiveDirs \subseteq Inode
         /\ Entries(t)' = loc.ents
         /\ \A d \in Inode \ {t} : Entries(d)' = Entries(d)
         /\ BlocksSound' /\ DirsLaid'
         /\ \A f \in Fd : fdt'[f] # NoFd => fdt'[f].ino \in Live' /\ ~IsDir(fdt[f].ino)'
<1> DEFINE node == [loc.node EXCEPT !.size = Len(loc.ents)]
<1> DEFINE es == loc.ents
<1>1. /\ t \in Live /\ t \in Inode /\ Target = t /\ loc \in CallTypes /\ mem \in Allocator
  <2>1. Target = t /\ t \in Live
    BY DEF TreeSound, CopySound, Target
  <2> QED BY <2>1, LiveInodes DEF IInv, Typed
<1>2. es \in Seq(SoundRecs) /\ Len(es) \in Nat /\ Len(es) <= MaxEntries /\ loc.k \in Nat
      /\ loc.node \in Copies
  BY <1>1 DEF CallTypes, TreeSound, WritingSound
<1>3. node.mode = loc.node.mode /\ node.tail = loc.node.tail /\ node.direct = loc.node.direct
      /\ node.size = Len(es)
  BY <1>2 DEF Copies
<1> HIDE DEF node, es
<1>4. /\ itab'[t].mode = node.mode /\ itab'[t].direct = node.direct /\ itab'[t].size = node.size
      /\ \A j \in Inode \ {t} :
           /\ itab'[j].direct = itab[j].direct /\ itab'[j].size = itab[j].size
           /\ IF HasNeighbour(t) /\ j = t + 1 THEN itab'[j].mode = node.tail
              ELSE itab'[j].mode = itab[j].mode
  <2>1. WriteInode(t, node) /\ Typed
    BY DEF IInv, node
  <2> QED BY <1>1, <2>1, WriteInodeIs
<1>5. /\ loc.node.mode = itab[t].mode
      /\ HasNeighbour(t) /\ loc.node.tail = "dir" => itab[t + 1].mode = "dir"
      /\ Distinct(loc.node.direct) /\ loc.node.direct[NDirect - 1] = 0
  BY <1>1 DEF TreeSound, CopySound
<1>6. \A j \in Inode : IsDir(j)' => IsDir(j)
  BY <1>3, <1>4, <1>5 DEF IsDir
<1>7. NewBlocks' = {} /\ (\A d : ~Shifting(d)') /\ \A d : d # t => ~Shifting(d)
  BY DEF NewBlocks, Shifting
<1>8. LiveDirs' \subseteq LiveDirs /\ LiveDirs \subseteq Inode
  BY <1>6, LiveInodes DEF LiveDirs
<1>9. Holds(blk, loc.node.direct, es)
  <2>1. ASSUME NEW h \in 0 .. NDirect - 1, h * PerBlock < Len(es)
        PROVE  HoldsAt(blk, loc.node.direct, es, h)
    <3>1. h \in Nat /\ h * PerBlock \in Nat /\ loc.k * PerBlock \in Nat /\ PerBlock \in Nat
      <4>1. h \in Nat
        OBVIOUS
      <4> QED BY <1>2, <4>1, Bases, DiskFSAssumption
    <3>2. ~ (loc.k < h)
      <4>1. loc.k < h => (loc.k * PerBlock) + PerBlock <= h * PerBlock
        BY <1>2, <3>1, Bases
      <4> QED BY <1>2, <2>1, <3>1, <4>1, SMTT(30) DEF es
    <3>3. h # loc.k
      BY <1>2, <2>1, <3>1 DEF es
    <3>4. h < loc.k
      BY <1>2, <3>1, <3>2, <3>3
    <3> QED BY <3>4 DEF TreeSound, WritingSound, es
  <2> QED BY <2>1 DEF Holds
<1>10. ReadDirectory(t)' = es
  <2> DEFINE slot == itab'[t]
  <2> DEFINE S == SoundRecs
  <2>1. /\ slot.direct \in Pointers /\ es \in Seq(S) /\ slot.size = Len(es)
        /\ Len(es) <= MaxEntries /\ Holds(blk, slot.direct, es)
    BY <1>2, <1>3, <1>4, <1>9 DEF Copies
  <2>2. \A c \in Block : blk[c].ents \in Seq(S) /\ Len(blk[c].ents) <= PerBlock
    BY DEF IInv, Typed, TreeSound, DirsLaid
  <2> HIDE DEF slot, S
  <2>3. DirectoryOf(slot, blk) = es
    BY <2>1, <2>2, DirectoryIsHeld
  <2> QED BY <2>3 DEF slot, ReadDirectory
<1>11. \A d \in Inode \ {t} : Entries(d)' = Entries(d)
  <2>1. ASSUME NEW j \in Inode \ {t}  PROVE ReadDirectory(j)' = ReadDirectory(j)
    <3> DEFINE slot == itab[j]
    <3> DEFINE new == itab'[j]
    <3>1. new.direct = slot.direct /\ new.size = slot.size
      BY <1>4
    <3> HIDE DEF slot, new
    <3>2. DirectoryOf(new, blk) = DirectoryOf(slot, blk)
      BY <3>1, Zenon DEF DirectoryOf
    <3> QED BY <3>2 DEF slot, new, ReadDirectory
  <2> QED BY <1>7, <2>1 DEF Entries
<1>12. Entries(t)' = es
  BY <1>7, <1>10 DEF Entries
<1>13. BlocksSound'
  <2>1. BlocksSound
    BY DEF TreeSound
  <2>2. \A c \in InodeBlocks(t)' : \E k \in 0 .. NDirect - 1 :
          c = loc.node.direct[k] /\ loc.node.direct[k] # 0
    BY <1>3, <1>4 DEF InodeBlocks
  <2>3. InodeBlocks(t)' \subseteq mem'.bmap
        /\ \A j \in Live \ {t} : InodeBlocks(j) \cap InodeBlocks(t)' = {}
    BY <1>1, <2>2, CopyBlocks
  <2>4. \A i \in Live' \ {t} : i \in Live /\ itab'[i].direct = itab[i].direct
                               /\ InodeBlocks(i) \subseteq mem'.bmap
    BY <1>4, <2>1, LiveInodes DEF BlocksSound
  <2>5. Distinct(itab'[t].direct) /\ itab'[t].direct[NDirect - 1] = 0 /\ 0 \in mem'.bmap
    BY <1>3, <1>4, <1>5, <2>1 DEF BlocksSound
  <2> QED BY <1>7, <2>1, <2>3, <2>4, <2>5, BlocksFrame
<1>14. DirsLaid'
  <2>1. DirsLaid /\ \A c \in Block : Len(blk'[c].ents) <= PerBlock
    BY DEF TreeSound, DirsLaid
  <2>2. \A i \in LiveDirs' \ {t} : i \in LiveDirs /\ ~Shifting(i)
          /\ itab'[i].direct = itab[i].direct /\ itab'[i].size = itab[i].size
    BY <1>4, <1>7, <1>8
  <2>3. Len(ReadDirectory(t)') = itab'[t].size
        /\ Holds(blk', itab'[t].direct, ReadDirectory(t)')
    BY <1>3, <1>4, <1>9, <1>10
  <2> QED BY <2>1, <2>2, <2>3, DirsFrame
<1>15. \A f \in Fd : fdt'[f] # NoFd => fdt'[f].ino \in Live' /\ itab'[fdt[f].ino].mode # "dir"
  <2>1. \A f \in Fd : fdt[f] # NoFd => fdt[f].ino \in Live /\ fdt[f].ino \in Inode
                                       /\ ~IsDir(fdt[f].ino)
    BY LiveInodes DEF TreeSound, FilesSound
  <2> QED BY <1>6, <2>1 DEF IsDir
<1> QED BY <1>1, <1>6, <1>7, <1>8, <1>11, <1>12, <1>13, <1>14, <1>15 DEF IsDir, es

\* The last name of a path is no dot, and it is a file's if the path is.
LEMMA LastNames ==
  ASSUME Careful, NEW p \in FilePaths \cup DirPaths, p # <<>>
  PROVE  Last(p) \notin Dots /\ (p \in DirPaths => Last(p) \notin FileNames)
<1>1. p \in Seq(STRING) /\ ToSet(p) \cap Dots = {}
  BY DiskFSAssumption
<1>2. Len(p) \in 1 .. Len(p) /\ Last(p) = p[Len(p)]
  BY <1>1 DEF Last
<1> QED BY <1>1, <1>2 DEF ToSet, Careful

\* A directory that gains one record, of an inode that no record names.
LEMMA RecordAdded ==
  ASSUME RecordsSound, LiveDirs' \subseteq LiveDirs, LiveDirs \subseteq Inode,
         mem'.imap = mem.imap, \A j \in Inode : IsDir(j)' => IsDir(j),
         NEW par \in LiveDirs, NEW x \in Inode, x # par, x \in mem.imap, NEW name, name \notin Dots,
         Entries(par) \in Seq(SoundRecs), Entries(par)' = Append(Entries(par), Rec(name, x)),
         \A d \in Inode \ {par} : Entries(d)' = Entries(d),
         \A d \in LiveDirs : \A k \in DOMAIN Entries(d) : ~NamedBy(d, k, x),
         IsDir(x) => name \notin FileNames,
         x \in LiveDirs => DotsRight(Entries(x), x, par)
  PROVE  RecordsSound'
<1> DEFINE n == Len(Entries(par)) + 1
<1>1. /\ DOMAIN Entries(par)' = 1 .. n /\ DOMAIN Entries(par) = 1 .. n - 1 /\ n \in Nat
      /\ \A k \in 1 .. n - 1 : Entries(par)'[k] = Entries(par)[k]
      /\ Entries(par)'[n] = Rec(name, x)
  <2>1. PICK es : es = Entries(par)
    OBVIOUS
  <2>2. Entries(par)' = Append(es, Rec(name, x)) /\ es \in Seq(SoundRecs)
    BY <2>1
  <2> QED BY <2>1, <2>2
<1> HIDE DEF n
<1>2. Rec(name, x).name = name /\ Rec(name, x).ino = x
  BY DEF Rec
<1>3. ASSUME NEW d \in LiveDirs', NEW k \in DOMAIN Entries(d)'
      PROVE  /\ d \in LiveDirs
             /\ \/ k \in DOMAIN Entries(d) /\ Entries(d)'[k] = Entries(d)[k]
                \/ d = par /\ k = n /\ Entries(d)'[k] = Rec(name, x)
  BY <1>1, <1>3
<1>4. ASSUME NEW d \in LiveDirs', NEW k \in DOMAIN Entries(d)', NEW i, NamedBy(d, k, i)'
      PROVE  /\ d \in LiveDirs
             /\ \/ /\ k \in DOMAIN Entries(d) /\ Entries(d)'[k] = Entries(d)[k]
                   /\ NamedBy(d, k, i)
                \/ d = par /\ k = n /\ Entries(d)'[k] = Rec(name, x) /\ i = x
  BY <1>2, <1>3, <1>4 DEF NamedBy
<1>5. ASSUME NEW i \in LiveDirs', NEW d, DotsRight(Entries(i), i, d)
      PROVE  DotsRight(Entries(i)', i, d)
  BY <1>2, <1>3, <1>5 DEF DotsRight
<1>6. Root \in LiveDirs' => \A k \in DOMAIN Entries(Root)' : Entries(Root)'[k].name \notin Dots
  BY <1>2, <1>3 DEF RecordsSound
<1>7. ASSUME NEW d \in LiveDirs', NEW i \in Inode, NEW k \in DOMAIN Entries(d)', NamedBy(d, k, i)'
      PROVE  /\ i \in mem'.imap /\ i # d
             /\ IsDir(i)' => Entries(d)'[k].name \notin FileNames
             /\ i \in LiveDirs' => DotsRight(Entries(i)', i, d)
  <2>1. CASE k \in DOMAIN Entries(d) /\ Entries(d)'[k] = Entries(d)[k] /\ NamedBy(d, k, i)
    <3>1. /\ i \in mem.imap /\ i # d
          /\ IsDir(i) => Entries(d)[k].name \notin FileNames
          /\ i \in LiveDirs => DotsRight(Entries(i), i, d)
      BY <1>4, <1>7, <2>1 DEF RecordsSound
    <3> QED BY <1>5, <2>1, <3>1
  <2>2. CASE d = par /\ k = n /\ Entries(d)'[k] = Rec(name, x) /\ i = x
    BY <1>2, <1>5, <2>2
  <2> QED BY <1>4, <1>7, <2>1, <2>2
<1>8. ASSUME NEW d1 \in LiveDirs', NEW d2 \in LiveDirs', NEW i \in Inode,
             NEW j \in DOMAIN Entries(d1)', NEW k \in DOMAIN Entries(d2)',
             NamedBy(d1, j, i)', NamedBy(d2, k, i)'
      PROVE  d1 = d2 /\ j = k
  <2>1. /\ d1 \in LiveDirs
        /\ (j \in DOMAIN Entries(d1) /\ NamedBy(d1, j, i)) \/ (d1 = par /\ j = n /\ i = x)
    BY <1>4, <1>8
  <2>2. /\ d2 \in LiveDirs
        /\ (k \in DOMAIN Entries(d2) /\ NamedBy(d2, k, i)) \/ (d2 = par /\ k = n /\ i = x)
    BY <1>4, <1>8
  <2> QED BY <2>1, <2>2 DEF RecordsSound
<1> QED BY <1>6, <1>7, <1>8 DEF RecordsSound

\* The inode of a directory is written last: a new directory is then entered in its
\* parent, a record is in its directory, or a record has left it.
LEMMA WriteDirInodeKeepsTree ==
  ASSUME Careful, IInv, TreeSound, NEW ok, WriteDirInode(ok)
  PROVE  TreeSound'
<1>0. PICK x, par, t : x = loc.ino /\ par = loc.par /\ t = loc.dir
  OBVIOUS
<1>1. /\ pc = "wdBlock" /\ loc.k * PerBlock >= Len(loc.ents) /\ UNCHANGED <<blk, fdt>>
      /\ Creating <=> loc.op # "unlink"
      /\ Removing <=> loc.op = "unlink"
      /\ loc.path \in FilePaths \cup DirPaths \cup {<<>>} /\ loc.path # <<>>
      /\ mem \in Allocator /\ x \in Inode
  BY <1>0 DEF WriteDirInode, Creating, Removing, IInv, CallSound, Typed, CallTypes
<1>2. CASE ~ok
  <2>1. Fail(Rollback(mem, loc.orig, loc.node)) /\ UNCHANGED itab /\ "io" \in Faults
    BY <1>2 DEF WriteDirInode, Outcome
  <2>2. Creating
    BY <1>1, <2>1 DEF TreeSound, RemovalSound, Careful
  <2>3. \A j \in 0 .. NDirect - 1 : loc.orig.direct[j] = 0 /\ loc.node.direct[j] # 0 =>
          loc.node.direct[j] \in NewBlocks
    BY <1>1 DEF NewBlocks
  <2> QED BY <1>1, <2>1, <2>2, <2>3, GivenBackKeepsTree
<1>3. CASE ok
  <2>1. /\ WriteInode(t, [loc.node EXCEPT !.size = Len(loc.ents)])
        /\ mem' = IF loc.op = "unlink" THEN FreeInode(mem, x) ELSE mem
        /\ \/ loc.op = "open" /\ pc' = "created" /\ loc' = loc
           \/ loc.op = "mkdir" /\ t = x /\ pc' = "entry" /\ loc' = loc
           \/ loc.op # "open" /\ ~ (loc.op = "mkdir" /\ t = x) /\ pc' = "idle" /\ loc'.op = "none"
    BY <1>0, <1>3 DEF WriteDirInode, Goto, Return, NoCall
  <2>2. mem'.bmap = mem.bmap
        /\ mem'.imap = IF loc.op = "unlink" THEN mem.imap \ {x} ELSE mem.imap
    BY <1>1, <2>1, FreeInodeIs
  <2>3. Live' = Live
    BY <1>0, <1>1, <2>1, <2>2 DEF Live, Removing
  <2>4. /\ t \in Live /\ t \in Inode /\ NewBlocks' = {}
        /\ \A j \in Inode : IsDir(j)' => IsDir(j)
        /\ LiveDirs' \subseteq LiveDirs /\ LiveDirs \subseteq Inode
        /\ Entries(t)' = loc.ents
        /\ \A d \in Inode \ {t} : Entries(d)' = Entries(d)
        /\ BlocksSound' /\ DirsLaid'
        /\ \A f \in Fd : fdt'[f] # NoFd => fdt'[f].ino \in Live' /\ ~IsDir(fdt[f].ino)'
    BY <1>0, <1>1, <2>1, <2>2, <2>3, DirInodeLeaves
  <2>5. CopySound' /\ WritingSound' /\ RemovalSound'
    BY <1>1, <2>1 DEF CopySound, WritingSound, RemovalSound, Removing
  <2>6. RecordsSound
    BY DEF TreeSound
  <2>7. loc.op = "open" => x \in Live /\ ~IsDir(x) /\ loc.flags \in Flags
    BY <1>0, <1>1 DEF TreeSound, CreationSound, Live, Removing, Creating
  <2>8. FilesSound'
    BY <1>0, <1>1, <2>1, <2>3, <2>4, <2>7 DEF FilesSound, IsDir
  <2>9. loc'.op = "open" => loc'.flags \in Flags
    BY <2>1, <2>7
  <2>10. CASE loc.op = "unlink"
    <3>1. Entries(t) = loc.ents
      BY <1>0, <1>1, <2>10 DEF Entries, Shifting
    <3>2. CreationSound'
      BY <2>1, <2>10 DEF CreationSound, Creating
    <3>3. \A d \in LiveDirs : \A k \in DOMAIN Entries(d) : ~NamedBy(d, k, x)
      BY <1>0, <1>1, <2>10 DEF TreeSound, RemovalSound
    <3>4. RecordsSound'
      <4>1. \A d \in LiveDirs, i \in Inode : \A k \in DOMAIN Entries(d) :
              NamedBy(d, k, i) => i \in mem'.imap
        BY <2>2, <2>6, <3>3 DEF RecordsSound
      <4>2. \A d \in LiveDirs' : d \in LiveDirs /\ Entries(d)' = Entries(d)
        BY <2>4, <3>1
      <4> QED BY <2>4, <2>6, <4>1, <4>2, RecordsFrame
    <3> QED BY <2>4, <2>5, <2>8, <2>9, <3>2, <3>4 DEF TreeSound
  <2>11. CASE loc.op # "unlink"
    <3>1. /\ Creating /\ loc.op \in {"open", "mkdir"} /\ x \in mem.imap /\ x \in Live
          /\ mem'.imap = mem.imap
          /\ loc.path \in IF loc.op = "open" THEN FilePaths ELSE DirPaths
          /\ \A d \in LiveDirs : \A k \in DOMAIN Entries(d) : ~NamedBy(d, k, x)
          /\ \A f \in Fd : fdt[f] # NoFd => fdt[f].ino # x
          /\ par \in Live /\ par # x
          /\ t = par /\ IsDir(x) => DotsRight(Entries(x), x, par)
          /\ \/ /\ loc.op = "mkdir" /\ t = x
                /\ loc.ents = <<Rec(".", x), Rec("..", par)>>
             \/ /\ t = par /\ IsDir(par)
                /\ loc.ents = Append(ReadDirectory(par), Rec(Last(loc.path), x))
      BY <1>0, <1>1, <2>2, <2>11 DEF TreeSound, CreationSound, Live, Removing, Creating
    <3>2. CASE t = x
      <4>1. /\ loc.op = "mkdir" /\ pc' = "entry" /\ loc' = loc
            /\ Entries(x)' = <<Rec(".", x), Rec("..", par)>>
        BY <2>1, <2>4, <3>1, <3>2
      <4>2. /\ \A k \in DOMAIN Entries(x)' : Entries(x)'[k].name \in Dots
            /\ DotsRight(Entries(x)', x, par)
        <5> DEFINE es == <<Rec(".", x), Rec("..", par)>>
        <5>1. DOMAIN es = 1 .. 2 /\ es[1] = Rec(".", x) /\ es[2] = Rec("..", par)
          OBVIOUS
        <5> HIDE DEF es
        <5>2. /\ \A k \in DOMAIN es : es[k].name \in Dots
              /\ DotsRight(es, x, par)
          BY <5>1 DEF Rec, Dots, DotsRight
        <5> QED BY <4>1, <5>2 DEF es
      <4>3. ASSUME NEW d \in LiveDirs', NEW i, NEW k \in DOMAIN Entries(d)', NamedBy(d, k, i)'
            PROVE  /\ d \in LiveDirs /\ d # x /\ k \in DOMAIN Entries(d) /\ NamedBy(d, k, i)
                   /\ Entries(d)' = Entries(d)
        BY <2>4, <3>2, <4>2, <4>3 DEF NamedBy
      <4>4. RecordsSound'
        <5>1. Root \in LiveDirs' =>
                \A k \in DOMAIN Entries(Root)' : Entries(Root)'[k].name \notin Dots
          <6>1. Root # x
            BY <1>0, <1>1 DEF IInv, CallSound, Reserved, Root
          <6> QED BY <2>4, <2>6, <3>2, <6>1 DEF RecordsSound
        <5>2. ASSUME NEW d \in LiveDirs', NEW i \in Inode, NEW k \in DOMAIN Entries(d)',
                     NamedBy(d, k, i)'
              PROVE  /\ i \in mem'.imap /\ i # d
                     /\ IsDir(i)' => Entries(d)'[k].name \notin FileNames
                     /\ i \in LiveDirs' => DotsRight(Entries(i)', i, d)
          <6>1. /\ d \in LiveDirs /\ k \in DOMAIN Entries(d) /\ NamedBy(d, k, i)
                /\ Entries(d)' = Entries(d)
            BY <4>3, <5>2
          <6>2. /\ i \in mem.imap /\ i # d
                /\ IsDir(i) => Entries(d)[k].name \notin FileNames
                /\ i \in LiveDirs => DotsRight(Entries(i), i, d)
            BY <2>6, <6>1 DEF RecordsSound
          <6>3. i # x
            BY <3>1, <6>1
          <6> QED BY <2>4, <3>1, <3>2, <6>1, <6>2, <6>3
        <5>3. ASSUME NEW d1 \in LiveDirs', NEW d2 \in LiveDirs', NEW i \in Inode,
                     NEW j \in DOMAIN Entries(d1)', NEW k \in DOMAIN Entries(d2)',
                     NamedBy(d1, j, i)', NamedBy(d2, k, i)'
              PROVE  d1 = d2 /\ j = k
          <6>1. d1 \in LiveDirs /\ j \in DOMAIN Entries(d1) /\ NamedBy(d1, j, i)
            BY <4>3, <5>3
          <6>2. d2 \in LiveDirs /\ k \in DOMAIN Entries(d2) /\ NamedBy(d2, k, i)
            BY <4>3, <5>3
          <6> QED BY <2>6, <6>1, <6>2 DEF RecordsSound
        <5> QED BY <5>1, <5>2, <5>3 DEF RecordsSound
      <4>5. CreationSound'
        <5>1. \A d \in LiveDirs' : \A k \in DOMAIN Entries(d)' : ~NamedBy(d, k, x)'
          BY <3>1, <4>3
        <5>2. loc'.ino = x /\ loc'.par = par
          BY <1>0, <4>1
        <5> QED BY <1>1, <2>3, <3>1, <4>1, <4>2, <5>1, <5>2
                DEF CreationSound, NamedBy, IsDir, Entries, ReadDirectory, Shifting
      <4> QED BY <2>4, <2>5, <2>8, <2>9, <4>4, <4>5 DEF TreeSound
    <3>3. CASE t # x
      <4> DEFINE name == Last(loc.path)
      <4>1. pc' \in {"created", "idle"} /\ (pc' = "idle" => loc'.op = "none")
        BY <2>1, <3>3
      <4>2. CreationSound'
        BY <4>1 DEF CreationSound, Creating
      <4>3. /\ t = par /\ par \in LiveDirs /\ Entries(par) = ReadDirectory(par)
            /\ Entries(par)' = Append(Entries(par), Rec(name, x))
            /\ Entries(par) \in Seq(SoundRecs)
        <5>1. t = par /\ par \in LiveDirs
          BY <3>1, <3>3 DEF LiveDirs
        <5>2. Entries(par) = ReadDirectory(par)
          BY <2>11 DEF Entries, Shifting
        <5>3. ReadDirectory(par) \in Seq(SoundRecs)
          BY <2>4, <5>1, ReadDirectoryTyped DEF IInv
        <5> QED BY <2>4, <3>1, <3>3, <5>1, <5>2, <5>3
      <4>4. name \notin Dots /\ (IsDir(x) => name \notin FileNames)
        BY <1>1, <2>7, <3>1, LastNames
      <4> HIDE DEF name
      <4>5. RecordsSound'
        BY <1>1, <2>4, <2>6, <3>1, <4>3, <4>4, RecordAdded DEF LiveDirs
      <4> QED BY <2>4, <2>5, <2>8, <2>9, <4>2, <4>5 DEF TreeSound
    <3> QED BY <3>2, <3>3
  <2> QED BY <2>10, <2>11
<1> QED BY <1>2, <1>3

-----------------------------------------------------------------------------
(* The formatted disk.                                                     *)

\* The disk as format leaves it: the root, whose one record names /tmp, and /tmp.
LEMMA FormattedIs ==
  ASSUME Careful, Init
  PROVE  /\ pc = "idle" /\ loc.op = "none" /\ mem.imap = {0, 1, 2} /\ mem.bmap = {0, 1, 2}
         /\ \A f \in Fd : fdt[f] = NoFd
         /\ itab[0].direct = [k \in 0 .. NDirect - 1 |-> 0] /\ itab[0].mode = "file"
         /\ itab[1].direct = [k \in 0 .. NDirect - 1 |-> IF k = 0 THEN 2 ELSE 0]
         /\ itab[1].size = 1
         /\ itab[2].direct = [k \in 0 .. NDirect - 1 |-> IF k = 0 THEN 1 ELSE 0]
         /\ itab[2].size = 2
         /\ blk[2].ents = <<Rec("tmp", 2)>>
         /\ blk[1].ents = <<Rec(".", 2), Rec("..", 1)>>
         /\ \A b \in Block : Len(blk[b].ents) <= 2
         /\ PerBlock \in Nat /\ 2 <= PerBlock /\ 2 <= MaxEntries
         /\ \A k \in 0 .. NDirect - 1 : k * PerBlock < 2 => k = 0
         /\ ReadDirectory(1) = <<Rec("tmp", 2)>>
         /\ Holds(blk, itab[1].direct, <<Rec("tmp", 2)>>)
         /\ ReadDirectory(2) = <<Rec(".", 2), Rec("..", 1)>>
         /\ Holds(blk, itab[2].direct, <<Rec(".", 2), Rec("..", 1)>>)
         /\ Live = {0, 1, 2} /\ LiveDirs \subseteq {1, 2} /\ NewBlocks = {} /\ \A d : ~Shifting(d)
         /\ InodeBlocks(0) = {} /\ InodeBlocks(1) = {2} /\ InodeBlocks(2) = {1}
<1>0. IInv
  BY InitIInv
<1>1. /\ pc = "idle" /\ loc.op = "none" /\ mem.imap = {0, 1, 2} /\ mem.bmap = {0, 1, 2}
      /\ \A f \in Fd : fdt[f] = NoFd
  BY FormattedExact DEF Init, NoCall, Root, Tmp
<1>2. {0, 1, 2} \subseteq Inode /\ {0, 1, 2} \subseteq Block
  BY StartTyped
<1>3. NDirect - 1 \in 0 .. NDirect - 1 /\ NDirect - 1 # 0 /\ 0 \in 0 .. NDirect - 1
  <2>1. NDirect \in Nat \ {0} /\ MaxEntries \in Nat /\ 0 * PerBlock = 0
    BY DiskFSAssumption
  <2>2. NDirect - 1 = 0 => MaxEntries <= 0 * PerBlock
    BY DEF Careful
  <2> QED BY <2>1, <2>2 DEF Careful
<1>4. /\ itab[0].direct = [k \in 0 .. NDirect - 1 |-> 0] /\ itab[0].mode = "file"
      /\ itab[1].direct = [k \in 0 .. NDirect - 1 |-> IF k = 0 THEN 2 ELSE 0]
      /\ itab[1].size = 1
      /\ itab[2].direct = [k \in 0 .. NDirect - 1 |-> IF k = 0 THEN 1 ELSE 0]
      /\ itab[2].size = 2
  <2> DEFINE slot(node) == [mode |-> node.mode, size |-> node.size, direct |-> node.direct]
  <2> DEFINE first(i) == CASE i = Root -> [SetBlock(FreshInode("dir"), 0, 2) EXCEPT !.size = 1]
                           [] i = Tmp -> [SetBlock(FreshInode("dir"), 0, 1) EXCEPT !.size = 2]
                           [] OTHER -> FreshInode("file")
  <2>1. itab = [i \in Inode |-> slot(first(i))]
    BY DEF Init
  <2>2. /\ first(0).direct = [k \in 0 .. NDirect - 1 |-> 0] /\ first(0).mode = "file"
        /\ first(1).direct = [k \in 0 .. NDirect - 1 |-> IF k = 0 THEN 2 ELSE 0]
        /\ first(1).size = 1
        /\ first(2).direct = [k \in 0 .. NDirect - 1 |-> IF k = 0 THEN 1 ELSE 0]
        /\ first(2).size = 2
    <3> DEFINE zero == [k \in 0 .. NDirect - 1 |-> 0]
    <3>1. \A mode : FreshInode(mode).direct = zero /\ FreshInode(mode).mode = mode
      BY DEF FreshInode
    <3>2. /\ first(1).direct = [k \in 0 .. NDirect - 1 |-> IF k = 0 THEN 2 ELSE 0]
          /\ first(1).size = 1
      <4>1. PICK node : node = FreshInode("dir")
        OBVIOUS
      <4>2. PICK x : x = first(1)
        OBVIOUS
      <4>3. x = [[node EXCEPT !.direct[0] = 2] EXCEPT !.size = 1]
        BY <4>1, <4>2 DEF SetBlock, Root, Tmp
      <4>4. node \in Copies /\ node.direct = zero
        BY <3>1, <4>1, StartTyped DEF Modes
      <4> HIDE DEF first
      <4>5. x.direct = [zero EXCEPT ![0] = 2] /\ x.size = 1
        <5> HIDE DEF zero
        <5> QED BY <4>3, <4>4 DEF Copies
      <4>6. [zero EXCEPT ![0] = 2] = [k \in 0 .. NDirect - 1 |-> IF k = 0 THEN 2 ELSE 0]
        BY <1>3
      <4> QED BY <4>2, <4>5, <4>6
    <3>3. /\ first(2).direct = [k \in 0 .. NDirect - 1 |-> IF k = 0 THEN 1 ELSE 0]
          /\ first(2).size = 2
      <4>1. PICK node : node = FreshInode("dir")
        OBVIOUS
      <4>2. PICK x : x = first(2)
        OBVIOUS
      <4>3. x = [[node EXCEPT !.direct[0] = 1] EXCEPT !.size = 2]
        BY <4>1, <4>2 DEF SetBlock, Root, Tmp
      <4>4. node \in Copies /\ node.direct = zero
        BY <3>1, <4>1, StartTyped DEF Modes
      <4> HIDE DEF first
      <4>5. x.direct = [zero EXCEPT ![0] = 1] /\ x.size = 2
        <5> HIDE DEF zero
        <5> QED BY <4>3, <4>4 DEF Copies
      <4>6. [zero EXCEPT ![0] = 1] = [k \in 0 .. NDirect - 1 |-> IF k = 0 THEN 1 ELSE 0]
        BY <1>3
      <4> QED BY <4>2, <4>5, <4>6
    <3>4. first(0).direct = zero /\ first(0).mode = "file"
      <4>1. first(0) = FreshInode("file")
        BY DEF Root, Tmp
      <4> HIDE DEF first
      <4> QED BY <3>1, <4>1
    <3> HIDE DEF first
    <3> QED BY <3>2, <3>3, <3>4
  <2> HIDE DEF first
  <2> QED BY <1>2, <2>1, <2>2
<1>5. /\ blk[2].ents = <<Rec("tmp", 2)>>
      /\ blk[1].ents = <<Rec(".", 2), Rec("..", 1)>>
      /\ \A b \in Block : Len(blk[b].ents) <= 2
  <2>1. /\ blk[0] = DirBlock(<<Rec(".", 1), Rec("..", 1)>>)
        /\ blk[1] = DirBlock(<<Rec(".", 2), Rec("..", 1)>>)
        /\ blk[2] = DirBlock(<<Rec("tmp", 2)>>)
    BY <1>2 DEF Init, Root, Tmp
  <2>2. \A b \in Block \ {0, 1, 2} : blk[b] = ZeroBlock
    BY DEF Init
  <2>3. \A es : DirBlock(es).ents = es
    BY DEF DirBlock
  <2>4. ZeroBlock.ents = <<>> /\ Len(<<>>) = 0
    BY DEF ZeroBlock
  <2>5. \A b \in Block \ {0, 1, 2} : Len(blk[b].ents) <= 2
    BY <2>2, <2>4
  <2>6. Len(blk[0].ents) <= 2 /\ Len(blk[1].ents) <= 2 /\ Len(blk[2].ents) <= 2
    <3>1. \A r1, r2 : Len(<<r1>>) = 1 /\ Len(<<r1, r2>>) = 2
      OBVIOUS
    <3>2. /\ blk[0].ents = <<Rec(".", 1), Rec("..", 1)>>
          /\ blk[1].ents = <<Rec(".", 2), Rec("..", 1)>>
          /\ blk[2].ents = <<Rec("tmp", 2)>>
      BY <2>1, <2>3
    <3>3. Len(blk[0].ents) = 2 /\ Len(blk[1].ents) = 2 /\ Len(blk[2].ents) = 1
      BY <3>1, <3>2
    <3> QED BY <3>3
  <2> QED BY <2>1, <2>3, <2>5, <2>6
<1>6. PerBlock \in Nat /\ 2 <= PerBlock /\ 2 <= MaxEntries
      /\ \A k \in 0 .. NDirect - 1 : k * PerBlock < 2 => k = 0
  <2>1. PerBlock \in Nat /\ 2 <= PerBlock /\ 0 * PerBlock = 0
    BY DiskFSAssumption
  <2>2. ASSUME NEW k \in 0 .. NDirect - 1, k * PerBlock < 2, k # 0  PROVE FALSE
    <3>1. k \in Nat /\ 0 \in Nat /\ 0 < k
      BY <2>2
    <3>2. (0 * PerBlock) + PerBlock <= k * PerBlock /\ k * PerBlock \in Nat
      BY <3>1, Bases
    <3> QED BY <2>1, <2>2, <3>2
  <2> QED BY <2>1, <2>2 DEF Careful
<1>7. ASSUME NEW i \in {1, 2}, NEW b \in {1, 2}, NEW es \in Seq(SoundRecs), Len(es) \in {1, 2},
             itab[i].direct = [k \in 0 .. NDirect - 1 |-> IF k = 0 THEN b ELSE 0],
             itab[i].size = Len(es), blk[b].ents = es
      PROVE  ReadDirectory(i) = es /\ Holds(blk, itab[i].direct, es)
  <2>1. Holds(blk, itab[i].direct, es)
    <3>1. ASSUME NEW k \in 0 .. NDirect - 1, k * PerBlock < Len(es)
          PROVE  HoldsAt(blk, itab[i].direct, es, k)
      <4>1. k = 0 /\ k * PerBlock = 0 /\ itab[i].direct[k] = b
        <5>1. k * PerBlock \in Nat /\ 0 * PerBlock = 0
          BY Bases
        <5>2. k * PerBlock < 2
          <6>1. PICK n \in {1, 2} : n = Len(es)
            BY <1>7
          <6> QED BY <3>1, <5>1, <6>1, SMTT(30)
        <5>3. k = 0
          BY <1>6, <5>2
        <5>4. itab[i].direct[k] = b
          BY <1>7, <5>3
        <5> QED BY <5>1, <5>3, <5>4
      <4> QED BY <1>6, <1>7, <4>1 DEF HoldsAt
    <3> QED BY <3>1 DEF Holds
  <2> DEFINE slot == itab[i]
  <2> DEFINE S == SoundRecs
  <2>2. slot.direct \in Pointers /\ es \in Seq(S) /\ slot.size = Len(es) /\ Len(es) <= MaxEntries
    <3>1. i \in Inode
      BY <1>2
    <3>2. itab[i].direct \in Pointers
      BY <1>0, <3>1, PointersTyped
    <3>3. Len(es) <= MaxEntries
      <4>1. PICK n \in {1, 2} : n = Len(es)
        BY <1>7
      <4>2. MaxEntries \in Nat
        BY DiskFSAssumption
      <4>3. 2 <= MaxEntries
        BY <1>6
      <4>4. n <= MaxEntries
        BY <4>1, <4>2, <4>3
      <4> QED BY <4>1, <4>4
    <3>4. slot.size = Len(es)
      BY <1>7
    <3> QED BY <1>7, <3>2, <3>3, <3>4
  <2>3. \A c \in Block : blk[c].ents \in Seq(S) /\ Len(blk[c].ents) <= PerBlock
    <3>1. \A c \in Block : blk[c].ents \in Seq(S) /\ Len(blk[c].ents) \in Nat
      BY <1>0 DEF IInv, Typed
    <3> QED BY <1>5, <1>6, <3>1
  <2>4. DirectoryOf(slot, blk) = es
    <3> HIDE DEF slot, S
    <3>1. Holds(blk, slot.direct, es)
      BY <2>1 DEF slot
    <3> QED BY <2>2, <2>3, <3>1, DirectoryIsHeld
  <2> QED BY <2>1, <2>4 DEF ReadDirectory
<1>8. /\ ReadDirectory(1) = <<Rec("tmp", 2)>>
      /\ Holds(blk, itab[1].direct, <<Rec("tmp", 2)>>)
      /\ ReadDirectory(2) = <<Rec(".", 2), Rec("..", 1)>>
      /\ Holds(blk, itab[2].direct, <<Rec(".", 2), Rec("..", 1)>>)
  <2>1. blk[2].ents \in Seq(SoundRecs) /\ blk[1].ents \in Seq(SoundRecs)
    BY <1>0, <1>2 DEF IInv, Typed
  <2>2. Len(<<Rec("tmp", 2)>>) = 1 /\ Len(<<Rec(".", 2), Rec("..", 1)>>) = 2
    OBVIOUS
  <2> QED BY <1>4, <1>5, <1>7, <2>1, <2>2
<1>9. Live = {0, 1, 2} /\ LiveDirs \subseteq {1, 2} /\ NewBlocks = {} /\ \A d : ~Shifting(d)
  <2>1. Live = {0, 1, 2} /\ NewBlocks = {} /\ \A d : ~Shifting(d)
    BY <1>1 DEF Live, Removing, NewBlocks, Shifting
  <2> QED BY <1>4, <2>1 DEF LiveDirs, IsDir
<1>10. InodeBlocks(0) = {} /\ InodeBlocks(1) = {2} /\ InodeBlocks(2) = {1}
  BY <1>3, <1>4 DEF InodeBlocks
<1> QED BY <1>1, <1>4, <1>5, <1>6, <1>8, <1>9, <1>10

LEMMA FormattedTree == ASSUME Careful, Init  PROVE TreeSound
<1>0. IInv
  BY InitIInv
<1>1. /\ pc = "idle" /\ loc.op = "none" /\ mem.imap = {0, 1, 2} /\ mem.bmap = {0, 1, 2}
      /\ \A f \in Fd : fdt[f] = NoFd
  BY FormattedIs
<1>2. {0, 1, 2} \subseteq Inode /\ {0, 1, 2} \subseteq Block
  BY StartTyped
<1>3. NDirect - 1 \in 0 .. NDirect - 1 /\ NDirect - 1 # 0 /\ 0 \in 0 .. NDirect - 1
  <2>1. NDirect \in Nat \ {0} /\ MaxEntries \in Nat /\ 0 * PerBlock = 0
    BY DiskFSAssumption
  <2>2. NDirect - 1 = 0 => MaxEntries <= 0 * PerBlock
    BY DEF Careful
  <2> QED BY <2>1, <2>2 DEF Careful
<1>4. /\ itab[0].direct = [k \in 0 .. NDirect - 1 |-> 0] /\ itab[0].mode = "file"
      /\ itab[1].direct = [k \in 0 .. NDirect - 1 |-> IF k = 0 THEN 2 ELSE 0]
      /\ itab[1].size = 1
      /\ itab[2].direct = [k \in 0 .. NDirect - 1 |-> IF k = 0 THEN 1 ELSE 0]
      /\ itab[2].size = 2
  BY FormattedIs
<1>5. /\ blk[2].ents = <<Rec("tmp", 2)>>
      /\ blk[1].ents = <<Rec(".", 2), Rec("..", 1)>>
      /\ \A b \in Block : Len(blk[b].ents) <= 2
  BY FormattedIs
<1>6. PerBlock \in Nat /\ 2 <= PerBlock /\ 2 <= MaxEntries
      /\ \A k \in 0 .. NDirect - 1 : k * PerBlock < 2 => k = 0
  BY FormattedIs
<1>8. /\ ReadDirectory(1) = <<Rec("tmp", 2)>>
      /\ Holds(blk, itab[1].direct, <<Rec("tmp", 2)>>)
      /\ ReadDirectory(2) = <<Rec(".", 2), Rec("..", 1)>>
      /\ Holds(blk, itab[2].direct, <<Rec(".", 2), Rec("..", 1)>>)
  BY FormattedIs
<1>9. Live = {0, 1, 2} /\ LiveDirs \subseteq {1, 2} /\ NewBlocks = {} /\ \A d : ~Shifting(d)
  BY FormattedIs
<1>10. InodeBlocks(0) = {} /\ InodeBlocks(1) = {2} /\ InodeBlocks(2) = {1}
  BY FormattedIs
<1>11. BlocksSound
  <2>1. \A i \in Live : Distinct(itab[i].direct) /\ itab[i].direct[NDirect - 1] = 0
    <3>1. itab[0].direct = [k \in 0 .. NDirect - 1 |-> IF k = 0 THEN 0 ELSE 0]
      BY <1>4
    <3>2. ASSUME NEW b, NEW ptr, ptr = [k \in 0 .. NDirect - 1 |-> IF k = 0 THEN b ELSE 0]
          PROVE  Distinct(ptr) /\ ptr[NDirect - 1] = 0
      BY <1>3, <3>2 DEF Distinct
    <3>3. \A i \in {0, 1, 2} : Distinct(itab[i].direct) /\ itab[i].direct[NDirect - 1] = 0
      <4>1. Distinct(itab[0].direct) /\ itab[0].direct[NDirect - 1] = 0
        BY <3>1, <3>2
      <4>2. Distinct(itab[1].direct) /\ itab[1].direct[NDirect - 1] = 0
        <5>1. PICK ptr : ptr = itab[1].direct
          OBVIOUS
        <5>2. PICK b : b = 2
          OBVIOUS
        <5>3. ptr = [k \in 0 .. NDirect - 1 |-> IF k = 0 THEN b ELSE 0]
          BY <1>4, <5>1, <5>2
        <5>4. Distinct(ptr) /\ ptr[NDirect - 1] = 0
          BY <3>2, <5>3, Zenon
        <5> QED BY <5>1, <5>4
      <4>3. Distinct(itab[2].direct) /\ itab[2].direct[NDirect - 1] = 0
        <5>1. PICK ptr : ptr = itab[2].direct
          OBVIOUS
        <5>2. PICK b : b = 1
          OBVIOUS
        <5>3. ptr = [k \in 0 .. NDirect - 1 |-> IF k = 0 THEN b ELSE 0]
          BY <1>4, <5>1, <5>2
        <5>4. Distinct(ptr) /\ ptr[NDirect - 1] = 0
          BY <3>2, <5>3, Zenon
        <5> QED BY <5>1, <5>4
      <4> QED BY <4>1, <4>2, <4>3
    <3> QED BY <1>9, <3>3
  <2> QED BY <1>1, <1>9, <1>10, <2>1 DEF BlocksSound
<1>12. DirsLaid
  <2>1. \A b \in Block : Len(blk[b].ents) <= PerBlock
    <3>1. \A b \in Block : Len(blk[b].ents) \in Nat
      BY <1>0 DEF IInv, Typed
    <3> QED BY <1>5, <1>6, <3>1
  <2>2. Len(<<Rec("tmp", 2)>>) = 1 /\ Len(<<Rec(".", 2), Rec("..", 1)>>) = 2
    OBVIOUS
  <2>3. \A i \in {1, 2} : Len(ReadDirectory(i)) = itab[i].size
                           /\ Holds(blk, itab[i].direct, ReadDirectory(i))
    <3>1. /\ Len(ReadDirectory(1)) = itab[1].size
          /\ Holds(blk, itab[1].direct, ReadDirectory(1))
      BY <1>4, <1>8, <2>2, Zenon
    <3>2. /\ Len(ReadDirectory(2)) = itab[2].size
          /\ Holds(blk, itab[2].direct, ReadDirectory(2))
      BY <1>4, <1>8, <2>2, Zenon
    <3> QED BY <3>1, <3>2
  <2> QED BY <1>9, <2>1, <2>3 DEF DirsLaid
<1>13. /\ Entries(1) = <<Rec("tmp", 2)>> /\ Entries(2) = <<Rec(".", 2), Rec("..", 1)>>
       /\ DOMAIN Entries(1) = {1} /\ DOMAIN Entries(2) = {1, 2}
       /\ Entries(1)[1].name = "tmp" /\ Entries(1)[1].ino = 2
       /\ Entries(2)[1].name = "." /\ Entries(2)[1].ino = 2
       /\ Entries(2)[2].name = ".." /\ Entries(2)[2].ino = 1
  <2>1. Entries(1) = <<Rec("tmp", 2)>> /\ Entries(2) = <<Rec(".", 2), Rec("..", 1)>>
    BY <1>8, <1>9 DEF Entries
  <2> QED BY <2>1 DEF Rec
<1>14. \A d \in {1, 2} : \A i : \A k \in DOMAIN Entries(d) : NamedBy(d, k, i) =>
         d = 1 /\ k = 1 /\ i = 2 /\ Entries(d)[k].name = "tmp"
  BY <1>13 DEF NamedBy, Dots
<1>15. RecordsSound
  <2>1. DotsRight(Entries(2), 2, 1)
    BY <1>13 DEF DotsRight, Dots
  <2>2. "tmp" \notin FileNames /\ "tmp" \notin Dots
    BY DEF Careful, Dots
  <2>3. \A d \in LiveDirs, i \in Inode : \A k \in DOMAIN Entries(d) :
          NamedBy(d, k, i) =>
            /\ i \in mem.imap /\ i # d
            /\ IsDir(i) => Entries(d)[k].name \notin FileNames
            /\ i \in LiveDirs => DotsRight(Entries(i), i, d)
    <3>1. SUFFICES ASSUME NEW d \in LiveDirs, NEW i \in Inode, NEW k \in DOMAIN Entries(d),
                          NamedBy(d, k, i)
                   PROVE  /\ i \in mem.imap /\ i # d
                          /\ IsDir(i) => Entries(d)[k].name \notin FileNames
                          /\ i \in LiveDirs => DotsRight(Entries(i), i, d)
      OBVIOUS
    <3>2. d \in {1, 2}
      BY <1>9
    <3>3. d = 1 /\ k = 1 /\ i = 2 /\ Entries(d)[k].name = "tmp"
      BY <1>14, <3>1, <3>2
    <3>4. 2 \in mem.imap
      BY <1>1, <1>9
    <3> QED BY <2>1, <2>2, <3>3, <3>4
  <2>4. \A d1, d2 \in LiveDirs : \A i \in Inode :
          \A j \in DOMAIN Entries(d1), k \in DOMAIN Entries(d2) :
            NamedBy(d1, j, i) /\ NamedBy(d2, k, i) => d1 = d2 /\ j = k
    BY <1>9, <1>14
  <2> QED BY <1>13, <2>2, <2>3, <2>4 DEF RecordsSound, Root
<1>16. CopySound /\ FilesSound /\ CreationSound /\ RemovalSound /\ WritingSound
  BY <1>1 DEF CopySound, FilesSound, CreationSound, RemovalSound, WritingSound, Creating, Removing
<1> QED BY <1>1, <1>11, <1>12, <1>15, <1>16 DEF TreeSound

-----------------------------------------------------------------------------
(* Every step keeps the tree sound.                                        *)

LEMMA NextKeepsTree ==
  ASSUME Careful, IInv, Tree, [Next]_vars, image' # "torn"  PROVE TreeSound'
<1>1. image # "torn"
  <2>1. CASE \E ok : FlushSuper(ok) \/ FlushInodeBitmap(ok) \/ FlushBlockBitmap(ok)
    BY <2>1 DEF FlushSuper, FlushInodeBitmap, FlushBlockBitmap
  <2>2. CASE PowerFailure
    BY <2>2 DEF PowerFailure
  <2>3. CASE image' = image
    BY <2>3
  <2>4. ASSUME NEW ok, \/ NewInode(ok) \/ Entry(ok) \/ WriteDirBlock(ok) \/ WriteDirInode(ok)
                       \/ ReadBack(ok) \/ Truncate(ok) \/ WriteBlock(ok) \/ WriteEnd(ok)
        PROVE  image' = image
    BY <2>4 DEF NewInode, Entry, WriteDirBlock, WriteDirInode, ReadBack, Truncate, WriteBlock,
                WriteEnd
  <2>5. ASSUME NEW p, NEW fl, NEW ok, Open(p, fl, ok) \/ Mkdir(p) \/ Unlink(p)
        PROVE  image' = image
    BY <2>5 DEF Open, Mkdir, Unlink
  <2>6. ASSUME NEW fd, NEW n, NEW v, Read(fd, n) \/ Write(fd, n, v) \/ Close(fd) \/ OpenFd
        PROVE  image' = image
    BY <2>6 DEF Read, Write, Close, OpenFd
  <2> QED BY <2>1, <2>2, <2>3, <2>4, <2>5, <2>6 DEF Next, vars
<1>2. TreeSound
  BY <1>1 DEF Tree
<1>3. ASSUME NEW fl \in Flags, NEW p \in FilePaths, NEW ok \in BOOLEAN, Open(p, fl, ok)
      PROVE  TreeSound'
  <2>1. CASE pc' # "newInode"
    BY <1>2, <1>3, <2>1, OpenKeepsTree
  <2>2. CASE pc' = "newInode"
    <3>1. Allocated("open", p, fl) /\ pc = "idle" /\ UNCHANGED <<itab, blk, fdt>>
      BY <1>3, <2>2 DEF Open, Begin, Goto
    <3> QED BY <1>2, <3>1, AllocatedKeepsTree
  <2> QED BY <2>1, <2>2
<1>4. ASSUME NEW p \in DirPaths, Mkdir(p)  PROVE TreeSound'
  <2>1. Allocated("mkdir", p, {}) /\ pc = "idle" /\ UNCHANGED <<itab, blk, fdt>>
    BY <1>4 DEF Mkdir, Begin
  <2> QED BY <1>2, <2>1, AllocatedKeepsTree
<1>5. ASSUME NEW p \in FilePaths \cup DirPaths, Unlink(p)  PROVE TreeSound'
  BY <1>2, <1>5, UnlinkKeepsTree
<1>6. ASSUME NEW fd \in Fd, NEW n \in 1 .. MaxWrite, Read(fd, n)  PROVE TreeSound'
  BY <1>2, <1>6, ReadKeepsTree
<1>7. ASSUME NEW fd \in Fd, NEW n \in 1 .. MaxWrite, NEW v \in Values, Write(fd, n, v)
      PROVE  TreeSound'
  BY <1>2, <1>7, WriteKeepsTree
<1>8. ASSUME NEW fd \in Fd, Close(fd)  PROVE TreeSound'
  BY <1>2, <1>8, CloseKeepsTree
<1>9. ASSUME OpenFd  PROVE TreeSound'
  BY <1>2, <1>9, OpenFdKeepsTree
<1>10. ASSUME PowerFailure  PROVE TreeSound'
  BY <1>2, <1>10, PowerFailureKeepsTree
<1>11. ASSUME NEW ok \in BOOLEAN, NewInode(ok) \/ ReadBack(ok) \/ Truncate(ok)  PROVE TreeSound'
  BY <1>2, <1>11, NewInodeKeepsTree, ReadBackKeepsTree, TruncateKeepsTree
<1>12. ASSUME NEW ok \in BOOLEAN, Entry(ok)  PROVE TreeSound'
  BY <1>2, <1>12, AddEntryKeepsTree, RemoveEntryKeepsTree
<1>13. ASSUME NEW ok \in BOOLEAN, WriteDirBlock(ok) \/ WriteDirInode(ok)  PROVE TreeSound'
  BY <1>2, <1>13, WriteDirBlockKeepsTree, WriteDirInodeKeepsTree
<1>14. ASSUME NEW ok \in BOOLEAN, WriteBlock(ok) \/ WriteEnd(ok)  PROVE TreeSound'
  BY <1>2, <1>14, WriteBlockKeepsTree, WriteEndKeepsTree
<1>15. ASSUME NEW ok \in BOOLEAN, FlushSuper(ok) \/ FlushInodeBitmap(ok) \/ FlushBlockBitmap(ok)
       PROVE  TreeSound'
  BY <1>2, <1>15, FlushKeepsTree
<1>16. CASE UNCHANGED vars
  <2>1. /\ Live' = Live /\ LiveDirs' = LiveDirs /\ NewBlocks' = NewBlocks /\ Target' = Target
        /\ (\A i : InodeBlocks(i)' = InodeBlocks(i))
        /\ (\A i : Shifting(i)' = Shifting(i)) /\ (\A i : Entries(i)' = Entries(i))
        /\ (\A i : ReadDirectory(i)' = ReadDirectory(i)) /\ (\A i : IsDir(i)' = IsDir(i))
        /\ Creating' = Creating /\ Removing' = Removing
    BY <1>16 DEF vars, Live, LiveDirs, NewBlocks, Target, InodeBlocks, Shifting, Entries,
                 ReadDirectory, IsDir, Creating, Removing
  <2>2. BlocksSound' /\ CopySound' /\ DirsLaid' /\ FilesSound' /\ WritingSound'
    BY <1>2, <1>16, <2>1
       DEF TreeSound, vars, BlocksSound, CopySound, DirsLaid, FilesSound, WritingSound, IsDir
  <2>3. RecordsSound'
    BY <1>2, <1>16, <2>1 DEF TreeSound, vars, RecordsSound, NamedBy
  <2>4. CreationSound'
    BY <1>2, <1>16
       DEF TreeSound, vars, CreationSound, NamedBy, IsDir, Creating, Entries, Shifting,
           ReadDirectory, Live, LiveDirs, Removing
  <2>5. RemovalSound'
    <3>1. \A d, name : FindEntry(d, name)' = FindEntry(d, name)
      <4>1. SUFFICES ASSUME NEW d, NEW name
                     PROVE  FindEntry(d, name)' = FindEntry(d, name)
        OBVIOUS
      <4>2. PICK es : es = ReadDirectory(d)
        OBVIOUS
      <4>3. ReadDirectory(d)' = es /\ IsDir(d)' = IsDir(d)
        BY <2>1, <4>2, Zenon
      <4>4. Positions(d, name)' = Positions(d, name)
        BY <4>2, <4>3 DEF Positions
      <4> QED BY <4>2, <4>3, <4>4 DEF FindEntry
    <3> QED BY <1>2, <1>16, <2>1, <3>1 DEF TreeSound, vars, RemovalSound, NamedBy
  <2> QED BY <1>2, <1>16, <2>2, <2>3, <2>4, <2>5 DEF TreeSound, vars
<1> QED BY <1>3, <1>4, <1>5, <1>6, <1>7, <1>8, <1>9, <1>10, <1>11, <1>12, <1>13, <1>14, <1>15, <1>16
        DEF Next

\* Through whole calls, with their error paths and rollbacks, and power failures
\* between them: what every inode in use owns, what every directory holds and what a
\* call under way has taken (filesystem_inode.c:101-240, 380-660; filesystem_fileio.c:161-402).
THEOREM TreeHolds == Careful => (Spec => []Tree)
<1> SUFFICES ASSUME Careful  PROVE Spec => []Tree
  OBVIOUS
<1>1. Init => Tree
  BY FormattedTree DEF Tree
<1>2. IInv /\ Tree /\ [Next]_vars => Tree'
  BY NextKeepsTree DEF Tree
<1> QED BY <1>1, <1>2, InvariantHolds, PTL DEF Spec

\* For every disk, and every set of paths and calls that are careful: between calls no
\* block belongs to two files or twice to one, and none in use is marked free.
THEOREM BlocksDistinctHolds == Careful => (Spec => []BlocksDistinct)
<1> SUFFICES ASSUME Careful  PROVE Spec => []BlocksDistinct
  OBVIOUS
<1>1. Tree => BlocksDistinct
  <2> SUFFICES ASSUME Tree, Settled  PROVE BlocksDistinct
    BY DEF BlocksDistinct
  <2>1. Live = mem.imap /\ BlocksSound
    BY DEF Settled, Tree, TreeSound, Live, Removing
  <2> QED BY <2>1 DEF BlocksDistinct, BlocksSound, Distinct
<1> QED BY <1>1, TreeHolds, PTL

\* The root and what is reached from it: every inode but the root is named by a
\* directory among them.
Rooted(T) ==
  /\ T \subseteq Live
  /\ \A i \in T : i = Root \/ \E d \in T : \E k \in DOMAIN Entries(d) :
                                d \in LiveDirs /\ NamedBy(d, k, i)

LEMMA ChildrenRooted ==
  ASSUME IInv, TreeSound, pc = "idle", NEW T, Rooted(T)
  PROVE  Rooted(T \cup Children(T))
<1>1. Live = mem.imap /\ (\A i : Entries(i) = ReadDirectory(i)) /\ RecordsSound
  BY DEF Live, Removing, Entries, Shifting, TreeSound
<1>2. ASSUME NEW i \in T, IsDir(i), NEW k \in DOMAIN Entries(i), NEW c, c = Entries(i)[k].ino
      PROVE  /\ c \in Live
             /\ c \in T \/ (i \in LiveDirs /\ NamedBy(i, k, c))
  <2>1. i \in LiveDirs /\ i \in Inode
    BY <1>2, LiveInodes DEF LiveDirs, Rooted
  <2>2. c \in Inode
    <3>1. ReadDirectory(i) \in Seq(SoundRecs)
      BY <2>1, ReadDirectoryTyped DEF IInv
    <3> QED BY <1>1, <1>2, <3>1 DEF SoundRecs
  <2>3. CASE Entries(i)[k].name \notin Dots
    <3>1. NamedBy(i, k, c)
      BY <1>2, <2>3 DEF NamedBy
    <3> QED BY <1>1, <1>2, <2>1, <2>2, <3>1 DEF RecordsSound
  <2>4. CASE Entries(i)[k].name \in Dots
    <3>1. i # Root
      BY <1>1, <1>2, <2>1, <2>4 DEF RecordsSound
    <3>2. PICK d \in T : \E h \in DOMAIN Entries(d) : d \in LiveDirs /\ NamedBy(d, h, i)
      BY <3>1 DEF Rooted
    <3>3. DotsRight(Entries(i), i, d)
      BY <1>1, <2>1, <3>2 DEF RecordsSound
    <3>4. c = i \/ c = d
      BY <1>2, <2>4, <3>3 DEF DotsRight
    <3> QED BY <3>2, <3>4 DEF Rooted
  <2> QED BY <2>3, <2>4
<1>3. ASSUME NEW c \in Children(T)
      PROVE  /\ c \in Live
             /\ c \in T \/ \E i \in T : \E k \in DOMAIN Entries(i) : i \in LiveDirs /\ NamedBy(i, k, c)
  <2>1. PICK i \in T : IsDir(i) /\ \E k \in DOMAIN ReadDirectory(i) : c = ReadDirectory(i)[k].ino
    BY DEF Children
  <2>2. PICK k \in DOMAIN Entries(i) : c = Entries(i)[k].ino
    BY <1>1, <2>1
  <2> QED BY <1>2, <2>1, <2>2
<1> QED BY <1>3 DEF Rooted

\* A record never names a free inode, and no two name the same file, for every disk
\* and every set of paths and calls that are careful (inode_add_entry and
\* inode_remove_entry, and the failures of create, mkdir and delete between them).
THEOREM RecordsValidHolds == Careful => (Spec => []RecordsValid)
<1> SUFFICES ASSUME Careful  PROVE Spec => []RecordsValid
  OBVIOUS
<1>1. ASSUME IInv, Tree, TypeOK  PROVE RecordsValid
  <2>1. SUFFICES ASSUME Settled
                 PROVE  /\ Reachable \subseteq Live /\ Live = mem.imap
                        /\ \A d1, d2 \in Live :
                             IsDir(d1) /\ IsDir(d2) =>
                               \A j \in DOMAIN ReadDirectory(d1), k \in DOMAIN ReadDirectory(d2) :
                                 /\ ReadDirectory(d1)[j].ino = ReadDirectory(d2)[k].ino
                                 /\ ReadDirectory(d1)[j].name \notin Dots
                                 /\ ReadDirectory(d2)[k].name \notin Dots
                                 => d1 = d2 /\ j = k
    BY <1>1, ZenonT(30) DEF RecordsValid, Dots
  <2>2. /\ pc = "idle" /\ TreeSound /\ RecordsSound /\ Live = mem.imap
        /\ \A i : Entries(i) = ReadDirectory(i)
    BY <1>1, <2>1 DEF Settled, Tree, TreeSound, Live, Removing, Entries, Shifting
  <2> DEFINE T1 == {Root} \cup Children({Root})
  <2> DEFINE T2 == T1 \cup Children(T1)
  <2> DEFINE T3 == T2 \cup Children(T2)
  <2>3. Rooted(T3)
    <3>1. Rooted({Root})
      BY <1>1, <2>2 DEF Rooted, IInv, Reserved, Root
    <3>2. Rooted(T1)
      BY <1>1, <2>2, <3>1, ChildrenRooted
    <3> HIDE DEF T1
    <3>3. Rooted(T2)
      BY <1>1, <2>2, <3>2, ChildrenRooted
    <3> HIDE DEF T2
    <3> QED BY <1>1, <2>2, <3>3, ChildrenRooted
  <2>4. Reachable \subseteq T3
    <3>1. \A S, T : S \subseteq T => Children(S) \subseteq Children(T)
      BY DEF Children
    <3>2. Children({Root}) \subseteq T1
      OBVIOUS
    <3>3. Children(Children({Root})) \subseteq T2
      <4> HIDE DEF T1
      <4> QED BY <3>1, <3>2
    <3>4. Children(Children(Children({Root}))) \subseteq T3
      <4> HIDE DEF T2
      <4> QED BY <3>1, <3>3
    <3> QED BY <3>2, <3>3, <3>4 DEF Reachable
  <2>5. ASSUME NEW d1 \in Live, NEW d2 \in Live, IsDir(d1), IsDir(d2),
               NEW j \in DOMAIN ReadDirectory(d1), NEW k \in DOMAIN ReadDirectory(d2),
               ReadDirectory(d1)[j].ino = ReadDirectory(d2)[k].ino,
               ReadDirectory(d1)[j].name \notin Dots, ReadDirectory(d2)[k].name \notin Dots
        PROVE  d1 = d2 /\ j = k
    <3> DEFINE i == ReadDirectory(d1)[j].ino
    <3>1. d1 \in LiveDirs /\ d2 \in LiveDirs /\ d1 \in Inode
      BY <1>1, <2>5, LiveInodes DEF LiveDirs
    <3>2. i \in Inode
      <4>1. ReadDirectory(d1) \in Seq(SoundRecs)
        BY <1>1, <3>1, ReadDirectoryTyped DEF IInv
      <4> QED BY <2>5, <4>1 DEF SoundRecs
    <3>3. j \in DOMAIN Entries(d1) /\ k \in DOMAIN Entries(d2)
          /\ NamedBy(d1, j, i) /\ NamedBy(d2, k, i)
      BY <2>2, <2>5 DEF NamedBy
    <3> HIDE DEF i
    <3> QED BY <2>2, <3>1, <3>2, <3>3 DEF RecordsSound
  <2> HIDE DEF T3
  <2>6. Reachable \subseteq Live
    BY <2>3, <2>4 DEF Rooted
  <2>7. \A d1, d2 \in Live :
          IsDir(d1) /\ IsDir(d2) =>
            \A j \in DOMAIN ReadDirectory(d1), k \in DOMAIN ReadDirectory(d2) :
              /\ ReadDirectory(d1)[j].ino = ReadDirectory(d2)[k].ino
              /\ ReadDirectory(d1)[j].name \notin Dots
              /\ ReadDirectory(d2)[k].name \notin Dots
              => d1 = d2 /\ j = k
    BY <2>5
  <2> QED BY <2>2, <2>6, <2>7
<1>2. IInv /\ Tree /\ TypeOK => RecordsValid
  BY <1>1
<1> QED BY <1>2, InvariantHolds, TreeHolds, TypeCorrect, PTL

-----------------------------------------------------------------------------
(* Calls for one file leave every other file alone, when no directories     *)
(* are made.                                                                *)

\* What Isolation says of a step.
Isolated ==
  \A i \in (mem.imap \cap mem'.imap) \ {loc.ino, loc'.ino} :
    /\ itab'[i].mode = itab[i].mode
    /\ itab[i].mode = "file" => FileView(i)' = FileView(i)

\* A file is what its own blocks hold.
LEMMA SameView ==
  ASSUME MaxOffset < NDirect, NEW i, itab[i].size \in Nat, itab[i].size <= MaxOffset,
         itab'[i].size = itab[i].size, itab'[i].direct = itab[i].direct,
         \A k \in 0 .. NDirect - 1 :
           /\ itab[i].direct[k] \in Block
           /\ itab[i].direct[k] # 0 => blk'[itab[i].direct[k]].data = blk[itab[i].direct[k]].data
  PROVE  FileView(i)' = FileView(i)
<1> DEFINE ptr == itab[i].direct
<1> DEFINE n == itab[i].size
<1>1. \A k \in 0 .. n - 1 : k \in 0 .. NDirect - 1 /\ k < NDirect
  BY DiskFSAssumption
<1>2. FileView(i) = [k \in 0 .. n - 1 |-> IF ptr[k] # 0 THEN blk[ptr[k]].data ELSE "none"]
  <2>1. ReadInode(i).direct = ptr
    BY DEF ReadInode
  <2>2. \A k \in 0 .. n - 1 : GetBlock(ReadInode(i), k) = ptr[k]
    BY <1>1, <2>1 DEF GetBlock
  <2> QED BY <1>1, <2>2 DEF FileView
<1>3. FileView(i)' = [k \in 0 .. n - 1 |-> IF ptr[k] # 0 THEN blk'[ptr[k]].data ELSE "none"]
  <2>1. ReadInode(i)'.direct = ptr
    BY DEF ReadInode
  <2>2. \A k \in 0 .. n - 1 : GetBlock(ReadInode(i), k)' = ptr[k]
    BY <1>1, <2>1 DEF GetBlock
  <2> QED BY <1>1, <2>2 DEF FileView
<1> QED BY <1>1, <1>2, <1>3

\* A step that writes neither an inode nor a block leaves all files alone.
LEMMA NothingWritten ==
  ASSUME UNCHANGED <<itab, blk>>  PROVE Isolated
<1>1. \A i : FileView(i)' = FileView(i)
  BY DEF FileView, ReadInode
<1> QED BY <1>1 DEF Isolated

\* The inodes written before are files and the two directories of format.
LEMMA WrittenIs ==
  ASSUME IInv, FilesSmall, NEW i \in Written
  PROVE  /\ i \in Inode /\ itab[i].mode \in Modes /\ itab[i].size \in Nat
         /\ \A k \in 0 .. NDirect - 1 : itab[i].direct[k] \in Block
         /\ IsDir(i) <=> i \in {Root, Tmp}
         /\ itab[i].mode = "file" => itab[i].size <= MaxOffset
<1>1. i \in Inode
  BY DEF Written, IInv, Typed, Allocator
<1> QED BY <1>1, PointersTyped DEF FilesSmall, IsDir, Modes

\* An inode is written with the mode of its neighbour as it was.
LEMMA NeighbourKept ==
  ASSUME IInv, FilesSmall, NEW x \in Inode \ {0}, NEW node \in Copies, WriteInode(x, node),
         HasNeighbour(x) /\ node.tail = "dir" => itab[x + 1].mode = "dir"
  PROVE  \A j \in Written \ {x} :
           itab'[j].mode = itab[j].mode /\ itab'[j].size = itab[j].size
           /\ itab'[j].direct = itab[j].direct
<1>1. SUFFICES ASSUME NEW j \in Written \ {x}
               PROVE  itab'[j].mode = itab[j].mode /\ itab'[j].size = itab[j].size
                      /\ itab'[j].direct = itab[j].direct
  OBVIOUS
<1>2. /\ j \in Inode /\ itab[j].mode \in Modes
      /\ IsDir(j) <=> j \in {Root, Tmp}
  BY WrittenIs
<1>3. /\ itab'[j].direct = itab[j].direct /\ itab'[j].size = itab[j].size
      /\ IF HasNeighbour(x) /\ j = x + 1 THEN itab'[j].mode = node.tail
         ELSE itab'[j].mode = itab[j].mode
  BY <1>2, WriteInodeIs DEF IInv
<1>4. CASE HasNeighbour(x) /\ j = x + 1
  <2>1. j \notin {Root, Tmp}
    BY <1>4 DEF HasNeighbour, Root, Tmp, Inode
  <2>2. itab[j].mode = "file"
    BY <1>2, <2>1 DEF IsDir, Modes
  <2>3. node.tail = "file"
    BY <1>4, <2>2 DEF Copies, Modes
  <2> QED BY <1>3, <1>4, <2>2, <2>3
<1>5. CASE ~ (HasNeighbour(x) /\ j = x + 1)
  BY <1>3, <1>5
<1> QED BY <1>4, <1>5

\* So it leaves every other file alone, and none is written but the call's own one
\* and the directory it has its record in.
LEMMA InodeWritten ==
  ASSUME Careful, IInv, FilesSmall, NEW x \in Inode \ {0}, NEW node \in Copies,
         WriteInode(x, node), UNCHANGED blk,
         HasNeighbour(x) /\ node.tail = "dir" => itab[x + 1].mode = "dir",
         x = loc.ino \/ (IsDir(x) /\ node.mode = "dir"),
         pc = "newInode" => x = loc.ino
  PROVE  Isolated
<1>1. SUFFICES ASSUME NEW i \in mem.imap, i # loc.ino
               PROVE  /\ itab'[i].mode = itab[i].mode
                      /\ itab[i].mode = "file" => FileView(i)' = FileView(i)
  BY DEF Isolated
<1>2. i \in Written
  BY <1>1 DEF Written
<1>3. CASE i = x
  BY <1>1, <1>3, WriteInodeIs DEF IsDir, IInv
<1>4. CASE i # x
  <2>1. itab'[i].mode = itab[i].mode /\ itab'[i].size = itab[i].size
        /\ itab'[i].direct = itab[i].direct
    BY <1>2, <1>4, NeighbourKept
  <2> QED BY <1>2, <2>1, WrittenIs, SameView DEF Careful
<1> QED BY <1>3, <1>4

\* So does a block that is written, if no other file has it.
LEMMA BlockAlone ==
  ASSUME Careful, IInv, FilesSmall, UNCHANGED itab, NEW b \in Block, NEW d,
         blk' = [blk EXCEPT ![b] = d],
         \A i \in mem.imap \ {loc.ino} : ~IsDir(i) => b \notin InodeBlocks(i)
  PROVE  Isolated
<1>1. SUFFICES ASSUME NEW i \in mem.imap, i # loc.ino, itab[i].mode = "file"
               PROVE  FileView(i)' = FileView(i)
  BY DEF Isolated
<1>2. i \in Written
  BY <1>1 DEF Written
<1>3. b \notin InodeBlocks(i)
  BY <1>1 DEF IsDir
<1>4. \A k \in 0 .. NDirect - 1 : itab[i].direct[k] # 0 =>
        blk'[itab[i].direct[k]].data = blk[itab[i].direct[k]].data
  <2>1. ASSUME NEW k \in 0 .. NDirect - 1, itab[i].direct[k] # 0
        PROVE  blk'[itab[i].direct[k]] = blk[itab[i].direct[k]]
    <3>1. itab[i].direct[k] \in Block /\ itab[i].direct[k] # b
      BY <1>2, <1>3, <2>1, WrittenIs DEF InodeBlocks
    <3> QED BY <3>1 DEF IInv, Typed
  <2> QED BY <2>1
<1> QED BY <1>1, <1>2, <1>4, WrittenIs, SameView DEF Careful

\* The inodes a step leaves as they are stay small files and the directories of format.
LEMMA SmallFrame ==
  ASSUME FilesSmall, NEW x,
         \A i \in Written' \ {x} :
           i \in Written /\ itab'[i].mode = itab[i].mode /\ itab'[i].size = itab[i].size,
         x \in Written' =>
           /\ IsDir(x)' <=> x \in {Root, Tmp}
           /\ ~IsDir(x)' => itab'[x].size <= MaxOffset,
         pc' = "wrBlock" => loc'.node.size <= MaxOffset
  PROVE  FilesSmall'
<1>1. \A i \in Written : (IsDir(i) <=> i \in {Root, Tmp}) /\ (~IsDir(i) => itab[i].size <= MaxOffset)
  BY DEF FilesSmall
<1>2. \A i \in Written' : IsDir(i)' <=> i \in {Root, Tmp}
  BY <1>1 DEF IsDir
<1>3. \A i \in Written' : ~IsDir(i)' => itab'[i].size <= MaxOffset
  BY <1>1 DEF IsDir
<1> QED BY <1>2, <1>3 DEF FilesSmall

LEMMA SmallQuiet ==
  ASSUME FilesSmall, UNCHANGED itab, Written' \subseteq Written,
         pc' = "wrBlock" => loc'.node.size <= MaxOffset
  PROVE  FilesSmall'
<1>1. \A i \in Written : (IsDir(i) <=> i \in {Root, Tmp}) /\ (~IsDir(i) => itab[i].size <= MaxOffset)
  BY DEF FilesSmall
<1>2. \A i : IsDir(i)' = IsDir(i)
  BY DEF IsDir
<1> QED BY <1>1, <1>2 DEF FilesSmall

\* A step that writes neither.
Quiet == UNCHANGED <<itab, blk>> /\ Isolated /\ FilesSmall' /\ FormatKept'

LEMMA QuietIs ==
  ASSUME FilesSmall, UNCHANGED <<itab, blk>>, Written' \subseteq Written,
         pc' = "wrBlock" => loc'.node.size <= MaxOffset, FormatKept'
  PROVE  Quiet
BY NothingWritten, SmallQuiet DEF Quiet

\* What a descriptor may become.
LEMMA FdsNumbered ==
  ASSUME FormatKept,
         \A f \in Fd : fdt'[f].ino = fdt[f].ino \/ fdt'[f] = NoFd
                       \/ (fdt'[f].ino = loc.ino /\ pc \in {"opened", "truncated"}),
         pc' \in {"created", "opened", "truncated", "wrBlock"} =>
           \/ loc'.ino = loc.ino /\ pc \in {"created", "opened", "truncated", "wrBlock"}
           \/ \E f \in Fd : loc'.ino = fdt[f].ino,
         Tmp \in mem'.imap, pc' \in TreeSteps => loc'.ino # Tmp
  PROVE  FormatKept'
<1>1. NoFd.ino # 0
  BY DEF NoFd, None
<1> QED BY <1>1 DEF FormatKept, Written, TreeSteps

LEMMA TmpKept ==
  ASSUME FormatKept  PROVE Tmp \in mem.imap /\ (pc \in TreeSteps => loc.ino # Tmp)
BY DEF FormatKept, Written, TreeSteps

LEMMA OpenQuiet ==
  ASSUME Plain, IInv, TreeSound, FilesSmall, FormatKept,
         NEW p \in FilePaths, NEW fl \in Flags, NEW ok, Open(p, fl, ok)
  PROVE  Quiet
<1> DEFINE i == Resolve(p)
<1>1. pc = "idle" /\ UNCHANGED <<itab, blk, fdt>>
  BY DEF Open, Begin
<1>2. CASE Allocated("open", p, fl)
  <2>1. pc' = "newInode" /\ loc'.ino = FreeInodeNo(mem) /\ mem' = AllocateInode(mem)
        /\ FreeInodeNo(mem) # None
    BY <1>2 DEF Allocated, Goto, NoCall
  <2>2. mem'.imap = mem.imap \cup {FreeInodeNo(mem)}
    BY <2>1, AllocateInodeIs DEF IInv, Typed
  <2>3. FreeInodeNo(mem) # Tmp
    BY <2>1, AllocateInodeIs, TmpKept DEF IInv, Typed
  <2>4. FormatKept'
    BY <1>1, <2>1, <2>2, <2>3, TmpKept, FdsNumbered DEF TreeSteps
  <2> QED BY <1>1, <2>1, <2>2, <2>4, QuietIs DEF Written
<1>3. CASE ~Allocated("open", p, fl)
  <2>1. pc' = "opened" /\ loc'.ino = i /\ i # None /\ UNCHANGED mem
    BY <1>3 DEF Open, Goto, NoCall
  <2>2. p # <<>> /\ i \notin Reserved
    BY ResolveTyped DEF Plain, Careful, IInv
  <2>3. i # 0
    BY <2>2 DEF Reserved
  <2> HIDE DEF i
  <2>4. FormatKept'
    BY <1>1, <2>1, <2>3 DEF Written, FormatKept
  <2> QED BY <1>1, <2>1, <2>4, QuietIs DEF Written
<1> QED BY <1>2, <1>3

LEMMA UnlinkQuiet ==
  ASSUME Plain, IInv, TreeSound, FilesSmall, FormatKept, NEW p \in FilePaths, Unlink(p)
  PROVE  Quiet
<1> DEFINE i == Resolve(p)
<1>1. /\ pc = "idle" /\ pc' = "entry" /\ UNCHANGED <<itab, blk, fdt>> /\ i # None
      /\ mem' = FreeBlocks(mem, ChainBlocks(ReadInode(i))) /\ loc'.ino = i
  BY DEF Unlink, Begin, Goto, NoCall
<1>2. mem'.imap = mem.imap
  BY <1>1, FreeBlocksIs DEF IInv, Typed
<1>3. i \in Live /\ ~IsDir(i)
  <2>1. p # <<>> /\ Last(p) \in FileNames
    BY DEF Plain, Careful, FileNames
  <2> QED BY <1>1, <2>1, ResolveLive
<1> HIDE DEF i
<1>4. i # Tmp
  <2>1. IsDir(Tmp)
    BY DEF FormatKept, FilesSmall
  <2> QED BY <1>3, <2>1
<1>5. FormatKept'
  BY <1>1, <1>2, <1>4, FdsNumbered, TmpKept
<1> QED BY <1>1, <1>2, <1>5, QuietIs DEF Written

LEMMA ReadQuiet ==
  ASSUME IInv, FilesSmall, FormatKept, NEW fd \in Fd, NEW n, Read(fd, n)
  PROVE  Quiet
<1>1. pc = "idle" /\ UNCHANGED <<mem, itab, blk, pc, loc>>
      /\ \E e : fdt' = [fdt EXCEPT ![fd].off = e]
  BY DEF Read, Begin
<1>2. \A f \in Fd : fdt'[f].ino = fdt[f].ino
  <2>1. fdt \in [Fd -> {NoFd} \cup OpenFds]
    BY DEF IInv, Typed
  <2> QED BY <1>1, <2>1 DEF NoFd, OpenFds
<1>3. FormatKept'
  BY <1>1, <1>2, FdsNumbered, TmpKept DEF TreeSteps
<1> QED BY <1>1, <1>3, QuietIs DEF Written

LEMMA WriteQuiet ==
  ASSUME IInv, TreeSound, FilesSmall, FormatKept, NEW fd \in Fd, NEW n, NEW v, Write(fd, n, v)
  PROVE  Quiet
<1>0. PICK i : i = fdt[fd].ino
  OBVIOUS
<1>1. /\ pc = "idle" /\ fdt[fd] # NoFd /\ pc' = "wrBlock" /\ UNCHANGED <<mem, itab, blk, fdt>>
      /\ loc'.ino = i /\ loc'.node = ReadInode(i)
  BY <1>0 DEF Write, Begin, Goto, NoCall
<1>2. i \in Live /\ ~IsDir(i)
  BY <1>0, <1>1 DEF TreeSound, FilesSound
<1>3. i \in Written
  BY <1>1, <1>2 DEF Written, Live
<1>4. loc'.node.size <= MaxOffset
  <2>1. ReadInode(i).size = itab[i].size
    BY DEF ReadInode
  <2> QED BY <1>1, <1>2, <1>3, <2>1 DEF FilesSmall
<1>5. FormatKept'
  BY <1>0, <1>1, FdsNumbered, TmpKept DEF TreeSteps
<1> QED BY <1>1, <1>4, <1>5, QuietIs DEF Written

LEMMA OpenFdQuiet ==
  ASSUME IInv, FilesSmall, FormatKept, OpenFd
  PROVE  Quiet
<1>1. pc \in {"opened", "truncated"} /\ pc' = "idle" /\ UNCHANGED <<mem, itab, blk>>
  BY DEF OpenFd, Return
<1>2. PICK fd, fl, off :
        fdt' = fdt \/ fdt' = [fdt EXCEPT ![fd] = [ino |-> loc.ino, flags |-> fl, off |-> off]]
  BY DEF OpenFd
<1>3. \A f \in Fd : fdt'[f].ino = fdt[f].ino \/ fdt'[f].ino = loc.ino
  BY <1>2 DEF IInv, Typed
<1>4. FormatKept'
  BY <1>1, <1>3, FdsNumbered, TmpKept DEF TreeSteps
<1> QED BY <1>1, <1>4, QuietIs DEF Written

LEMMA CloseReadBackQuiet ==
  ASSUME IInv, FilesSmall, FormatKept, NEW fd, NEW ok, Close(fd) \/ ReadBack(ok)
  PROVE  Quiet
<1>1. /\ pc \in {"idle", "created"} /\ UNCHANGED <<mem, itab, blk, fdt>>
      /\ pc' \in {"flSuper", "idle"} \/ (pc = "created" /\ pc' = "opened" /\ loc'.ino = loc.ino)
  BY DEF Close, ReadBack, Begin, Goto, Return, NoCall
<1>2. FormatKept'
  BY <1>1, FdsNumbered, TmpKept DEF TreeSteps
<1> QED BY <1>1, <1>2, QuietIs DEF Written

LEMMA FlushQuiet ==
  ASSUME IInv, FilesSmall, FormatKept, NEW ok,
         FlushSuper(ok) \/ FlushInodeBitmap(ok) \/ FlushBlockBitmap(ok)
  PROVE  Quiet
<1>1. /\ pc \in {"flSuper", "flImap", "flBmap"} /\ pc' \in {"flImap", "flBmap", "idle"}
      /\ UNCHANGED <<itab, blk>>
      /\ fdt' = fdt \/ fdt' = [fdt EXCEPT ![loc.fd] = NoFd]
  BY DEF FlushSuper, FlushInodeBitmap, FlushBlockBitmap, Goto, Flushed, Return
<1>2. mem'.imap = mem.imap
  BY DEF FlushSuper, FlushInodeBitmap, FlushBlockBitmap, IInv, Typed, Allocator
<1>3. \A f \in Fd : fdt'[f] = fdt[f] \/ fdt'[f] = NoFd
  BY <1>1 DEF IInv, Typed
<1>4. FormatKept'
  BY <1>1, <1>2, <1>3, FdsNumbered, TmpKept DEF TreeSteps
<1> QED BY <1>1, <1>2, <1>4, QuietIs DEF Written

LEMMA PowerFailureQuiet ==
  ASSUME IInv, FilesSmall, FormatKept, PowerFailure, image' # "torn"
  PROVE  Quiet
<1>1. /\ pc = "idle" /\ ~mem.sbDirty /\ ~mem.bmDirty /\ image = "good"
      /\ pc' = "idle" /\ UNCHANGED <<itab, blk>>
      /\ mem' = Load(dsk) /\ fdt' = [f \in Fd |-> NoFd]
  BY DEF PowerFailure, Return, Reload
<1>2. mem'.imap = mem.imap
  BY <1>1 DEF Load, IInv, FlagsMissNothing
<1>3. FormatKept'
  BY <1>1, <1>2, FdsNumbered, TmpKept DEF TreeSteps
<1> QED BY <1>1, <1>2, <1>3, QuietIs DEF Written

\* The failures of a creation or a removal.
LEMMA FailQuiet ==
  ASSUME IInv, TreeSound, FilesSmall, FormatKept, NEW m \in Allocator, m.imap = mem.imap, Fail(m),
         UNCHANGED <<itab, blk, fdt>>, pc \in TreeSteps
  PROVE  Quiet
<1>1. pc' = "idle" /\ mem' = IF loc.op = "unlink" THEN m ELSE FreeInode(m, loc.ino)
  BY DEF Fail, Return
<1>2. mem'.imap \subseteq mem.imap /\ (loc.op # "unlink" => mem'.imap = mem.imap \ {loc.ino})
  BY <1>1, FreeInodeIs
<1>3. FormatKept'
  BY <1>1, <1>2, FdsNumbered, TmpKept DEF TreeSteps
<1>4. Written' \subseteq Written
  BY <1>1, <1>2 DEF Written, TreeSound, CreationSound, Creating
<1> QED BY <1>1, <1>3, <1>4, QuietIs

LEMMA EntryQuiet ==
  ASSUME IInv, TreeSound, FilesSmall, FormatKept, NEW ok, Entry(ok)
  PROVE  Quiet
<1>1. pc = "entry" /\ UNCHANGED <<itab, blk, fdt>> /\ mem \in Allocator
  BY DEF Entry, IInv, Typed
<1>2. CASE Fail(mem)
  BY <1>1, <1>2, FailQuiet DEF TreeSteps
<1>3. CASE ~Fail(mem)
  <2>1. UNCHANGED mem /\ pc' = "wdBlock" /\ loc'.ino = loc.ino
    BY <1>3 DEF Entry, Goto, IInv, Typed, CallTypes
  <2>2. FormatKept'
    BY <1>1, <2>1, FdsNumbered, TmpKept DEF TreeSteps
  <2> QED BY <1>1, <2>1, <2>2, QuietIs DEF Written
<1> QED BY <1>2, <1>3

\* What a step that writes leaves of the call's file.
Kept == Isolated /\ FilesSmall' /\ FormatKept'

\* The calls that create are those for files.
LEMMA OpenCreates ==
  ASSUME Plain, TreeSound, Creating
  PROVE  loc.op = "open"
BY DEF Plain, TreeSound, CreationSound

LEMMA NewInodeKept ==
  ASSUME Plain, IInv, TreeSound, FilesSmall, FormatKept, NEW ok, NewInode(ok)
  PROVE  Kept
<1>0. PICK x : x = loc.ino
  OBVIOUS
<1>1. /\ pc = "newInode" /\ loc.op = "open" /\ x \in Inode \ Reserved /\ UNCHANGED <<blk, fdt>>
      /\ mem \in Allocator
  BY <1>0, OpenCreates DEF NewInode, Creating, IInv, CallSound, Typed
<1>2. CASE Fail(mem) /\ UNCHANGED itab
  BY <1>1, <1>2, FailQuiet DEF TreeSteps, Quiet, Kept
<1>3. CASE ~ (Fail(mem) /\ UNCHANGED itab)
  <2> DEFINE node == FreshInode("file")
  <2>1. WriteInode(x, node) /\ UNCHANGED mem /\ pc' = "entry"
        /\ loc' = [loc EXCEPT !.par = ResolveParent(loc.path)]
    BY <1>0, <1>1, <1>3 DEF NewInode, Goto
  <2>2. /\ node.mode = "file" /\ node.size = 0 /\ node.tail = "file" /\ node \in Copies
    BY StartTyped DEF FreshInode, NoCall, CallTypes
  <2> HIDE DEF node
  <2>3. x \in Inode \ {0} /\ x \notin {Root, Tmp}
    BY <1>0, <1>1, TmpKept DEF Reserved, Root, TreeSteps
  <2>4. Isolated
    BY <1>0, <1>1, <2>1, <2>2, <2>3, InodeWritten DEF Plain
  <2>5. Written' \ {x} \subseteq Written
    BY <1>0, <1>1, <2>1 DEF Written
  <2>6. \A j \in Written \ {x} : itab'[j].mode = itab[j].mode /\ itab'[j].size = itab[j].size
    BY <2>1, <2>2, <2>3, NeighbourKept
  <2>7. itab'[x].mode = "file" /\ itab'[x].size = 0
    BY <1>1, <2>1, <2>2, WriteInodeIs DEF IInv
  <2>8. (IsDir(x)' <=> x \in {Root, Tmp}) /\ (~IsDir(x)' => itab'[x].size <= MaxOffset)
    BY <2>3, <2>7, DiskFSAssumption DEF IsDir
  <2>9. FilesSmall'
    BY <2>1, <2>5, <2>6, <2>8, SmallFrame
  <2>10. FormatKept'
    <3>1. loc'.ino = loc.ino
      BY <2>1 DEF IInv, Typed, CallTypes
    <3> QED BY <1>1, <2>1, <3>1, FdsNumbered, TmpKept DEF TreeSteps
  <2> QED BY <2>4, <2>9, <2>10 DEF Kept
<1> QED BY <1>2, <1>3

\* The block of a directory that is written is free or the directory's.
LEMMA WriteDirBlockKept ==
  ASSUME Plain, IInv, TreeSound, FilesSmall, FormatKept, NEW ok, WriteDirBlock(ok)
  PROVE  Kept
<1> DEFINE old == GetBlock(loc.node, loc.k)
<1> DEFINE b == IF old = 0 THEN FreeBlockNo(mem) ELSE old
<1> DEFINE m == IF old = 0 THEN AllocateBlock(mem) ELSE mem
<1> DEFINE node == SetBlock(loc.node, loc.k, b)
<1>0. PICK t : t = loc.dir
  OBVIOUS
<1>1. /\ pc = "wdBlock" /\ loc.k * PerBlock < Len(loc.ents) /\ UNCHANGED <<itab, fdt>>
      /\ mem \in Allocator
  BY DEF WriteDirBlock, IInv, Typed
<1>2. /\ loc.k \in 0 .. NDirect - 1 /\ old = loc.node.direct[loc.k]
      /\ t \in Live /\ IsDir(t) /\ Target = t
  <2>1. Target = t /\ t \in Live
    BY <1>0, <1>1 DEF TreeSound, CopySound, Target
  <2>2. IsDir(t)
    <3>1. Creating \/ Removing
      BY <1>1 DEF Creating, Removing
    <3>2. Creating => loc.op = "open"
      BY OpenCreates
    <3>3. Creating => t = loc.par /\ IsDir(loc.par)
      BY <1>0, <1>1, <3>2 DEF TreeSound, CreationSound
    <3>4. Removing => t = loc.par /\ IsDir(loc.par)
      BY <1>0, <1>1 DEF TreeSound, RemovalSound, LiveDirs
    <3> QED BY <3>1, <3>3, <3>4
  <2> QED BY <1>1, <2>1, <2>2, DirBlockFits DEF Plain
<1>3. /\ m.imap = mem.imap /\ m \in Allocator
      /\ b # None => b \in Block /\ (b \notin mem.bmap \/ (b = loc.node.direct[loc.k] /\ b # 0))
  <2>1. old # 0 => old \in Block
    BY <1>1, <1>2, CopyBlocks
  <2> QED BY <1>1, <1>2, <2>1, AllocateBlockIs, AllocateBlockKeeps
<1> HIDE DEF old, b, m, node
<1>4. ASSUME NEW n \in Allocator, n.imap = mem.imap, NEW copy, Fail(Rollback(n, loc.orig, copy)),
             UNCHANGED blk
      PROVE  Kept
  <2>1. Rollback(n, loc.orig, copy) \in Allocator /\ Rollback(n, loc.orig, copy).imap = mem.imap
    BY <1>4, RollbackIs, AfterRollback DEF After
  <2> QED BY <1>1, <1>4, <2>1, FailQuiet DEF TreeSteps, Quiet, Kept
<1>5. ASSUME b # None, mem' = m, blk' = [blk EXCEPT ![b] = DirBlock(Chunk)], pc' = "wdBlock",
             loc'.ino = loc.ino
      PROVE  Kept
  <2>1. ASSUME NEW i \in mem.imap \ {loc.ino}, ~IsDir(i)  PROVE b \notin InodeBlocks(i)
    <3>1. i \in Live \ {t}
      BY <1>2, <2>1 DEF Live
    <3>2. CASE b \notin mem.bmap
      BY <3>1, <3>2 DEF TreeSound, BlocksSound
    <3>3. CASE b = loc.node.direct[loc.k] /\ b # 0
      BY <1>1, <1>2, <3>1, <3>3, CopyBlocks
    <3> QED BY <1>3, <1>5, <3>2, <3>3
  <2>2. Isolated
    BY <1>1, <1>3, <1>5, <2>1, BlockAlone DEF Plain
  <2>3. FormatKept'
    BY <1>1, <1>3, <1>5, FdsNumbered, TmpKept DEF TreeSteps
  <2>4. FilesSmall'
    BY <1>1, <1>3, <1>5, SmallQuiet DEF Written
  <2> QED BY <2>2, <2>3, <2>4 DEF Kept
<1> USE DEF old, b, m, node
<1>6. CASE b = None
  BY <1>1, <1>4, <1>6 DEF WriteDirBlock
<1>7. CASE b # None /\ ~ok
  BY <1>3, <1>4, <1>7 DEF WriteDirBlock
<1>8. CASE b # None /\ ok
  <2>1. loc'.ino = loc.ino
    <3> HIDE DEF old, b, m, node
    <3>1. loc' = [loc EXCEPT !.node = node, !.k = @ + 1]
      BY <1>8 DEF WriteDirBlock, Goto, old, b, m, node
    <3> QED BY <3>1 DEF IInv, Typed, CallTypes
  <2> QED BY <1>5, <1>8, <2>1 DEF WriteDirBlock, Goto
<1> QED BY <1>6, <1>7, <1>8

LEMMA WriteDirInodeKept ==
  ASSUME Plain, IInv, TreeSound, FilesSmall, FormatKept, NEW ok, WriteDirInode(ok)
  PROVE  Kept
<1>0. PICK t : t = loc.dir
  OBVIOUS
<1>1. /\ pc = "wdBlock" /\ UNCHANGED <<blk, fdt>> /\ mem \in Allocator
      /\ loc \in CallTypes /\ loc.ents \in Seq(SoundRecs)
  BY DEF WriteDirInode, IInv, Typed, CallTypes
<1>2. /\ t \in Live /\ IsDir(t) /\ t \in Inode \ {0} /\ t \in {Root, Tmp} /\ Target = t
  <2>1. Target = t /\ t \in Live /\ t \in Inode
    BY <1>0, <1>1, LiveInodes DEF TreeSound, CopySound, Target
  <2>2. IsDir(t)
    <3>1. Creating \/ Removing
      BY <1>1 DEF Creating, Removing
    <3>2. Creating => loc.op = "open"
      BY OpenCreates
    <3>3. Creating => t = loc.par /\ IsDir(loc.par)
      BY <1>0, <1>1, <3>2 DEF TreeSound, CreationSound
    <3>4. Removing => t = loc.par /\ IsDir(loc.par)
      BY <1>0, <1>1 DEF TreeSound, RemovalSound, LiveDirs
    <3> QED BY <3>1, <3>3, <3>4
  <2>3. t \in Written
    BY <1>1, <2>1 DEF Live, Written
  <2> QED BY <2>1, <2>2, <2>3 DEF FilesSmall, Root, Tmp
<1>3. CASE ok
  <2> DEFINE node == [loc.node EXCEPT !.size = Len(loc.ents)]
  <2>1. /\ WriteInode(t, node)
        /\ mem' = IF loc.op = "unlink" THEN FreeInode(mem, loc.ino) ELSE mem
        /\ (loc.op # "unlink" /\ pc' = "created" /\ loc' = loc)
           \/ (loc.op # "unlink" /\ pc' = "entry" /\ loc' = loc) \/ pc' = "idle"
    BY <1>0, <1>3 DEF WriteDirInode, Goto, Return
  <2>2. /\ node.mode = itab[t].mode /\ node.mode = "dir" /\ node \in Copies
        /\ HasNeighbour(t) /\ node.tail = "dir" => itab[t + 1].mode = "dir"
    <3>1. loc.node \in Copies /\ Len(loc.ents) \in Nat
      BY <1>1 DEF CallTypes
    <3>2. node \in Copies /\ node.mode = loc.node.mode /\ node.tail = loc.node.tail
      BY <3>1 DEF Copies
    <3> HIDE DEF node
    <3> QED BY <1>1, <1>2, <3>2 DEF TreeSound, CopySound, IsDir
  <2> HIDE DEF node
  <2>3. Isolated
    BY <1>1, <1>2, <2>1, <2>2, InodeWritten DEF Plain
  <2>4. mem'.imap \subseteq mem.imap /\ mem.imap \ {loc.ino} \subseteq mem'.imap
    BY <1>1, <2>1, FreeInodeIs
  <2>5. Written' \subseteq Written
    BY <1>1, <2>1, <2>4 DEF Written
  <2>6. \A j \in Written \ {t} : itab'[j].mode = itab[j].mode /\ itab'[j].size = itab[j].size
    BY <1>2, <2>1, <2>2, NeighbourKept
  <2>7. IsDir(t)'
    BY <1>2, <2>1, <2>2, WriteInodeIs DEF IInv, IsDir
  <2>8. FilesSmall'
    BY <1>2, <2>1, <2>5, <2>6, <2>7, SmallFrame
  <2>9. FormatKept'
    <3>1. pc' = "created" => loc.ino # 0
      <4>1. pc = "wdBlock" => loc.ino \notin Reserved
        BY DEF IInv, CallSound
      <4> QED BY <1>1, <4>1 DEF Reserved
    <3> QED BY <1>1, <2>1, <2>4, <3>1 DEF FormatKept, Written
  <2> QED BY <2>3, <2>8, <2>9 DEF Kept
<1>4. CASE ~ok
  <2>1. Fail(Rollback(mem, loc.orig, loc.node)) /\ UNCHANGED itab
    BY <1>4 DEF WriteDirInode
  <2>2. /\ Rollback(mem, loc.orig, loc.node) \in Allocator
        /\ Rollback(mem, loc.orig, loc.node).imap = mem.imap
    BY <1>1, RollbackIs, AfterRollback DEF After
  <2> QED BY <1>1, <2>1, <2>2, FailQuiet DEF TreeSteps, Quiet, Kept
<1> QED BY <1>3, <1>4

LEMMA TruncateKept ==
  ASSUME Plain, IInv, TreeSound, FilesSmall, FormatKept, NEW ok, Truncate(ok)
  PROVE  Kept
<1>0. PICK i : i = loc.ino
  OBVIOUS
<1>1. /\ pc = "opened" /\ i \in Live /\ ~IsDir(i) /\ i \in Inode \ {0} /\ Target = i
      /\ UNCHANGED <<blk, fdt>> /\ mem \in Allocator /\ loc \in CallTypes
      /\ mem' = FreeBlocks(mem, ChainBlocks(loc.node))
  BY <1>0, LiveInodes DEF Truncate, TreeSound, FilesSound, FormatKept, Target, IInv, Typed
<1>2. mem'.imap = mem.imap /\ i \in Written
  BY <1>1, FreeBlocksIs DEF Written, Live
<1>3. CASE ok
  <2> DEFINE node == [FreshInode(loc.node.mode) EXCEPT !.tail = loc.node.tail]
  <2>1. WriteInode(i, node) /\ pc' = "truncated" /\ loc' = [loc EXCEPT !.node = node]
    BY <1>0, <1>3 DEF Truncate, Goto
  <2>2. /\ node.mode = loc.node.mode /\ node.tail = loc.node.tail /\ node \in Copies
        /\ node.size = 0
    <3>1. loc.node \in Copies /\ 0 \in Block
      BY <1>1, SizeAssumption, DiskFSAssumption DEF CallTypes, Block
    <3> QED BY <3>1 DEF FreshInode, Copies, Pointers
  <2> HIDE DEF node
  <2>3. /\ node.mode = itab[i].mode
        /\ HasNeighbour(i) /\ node.tail = "dir" => itab[i + 1].mode = "dir"
    BY <1>1, <2>2 DEF TreeSound, CopySound
  <2>4. Isolated
    BY <1>0, <1>1, <2>1, <2>2, <2>3, InodeWritten DEF Plain
  <2>5. \A j \in Written \ {i} : itab'[j].mode = itab[j].mode /\ itab'[j].size = itab[j].size
    BY <1>1, <2>1, <2>2, <2>3, NeighbourKept
  <2>6. itab'[i].mode = itab[i].mode /\ itab'[i].size = 0
    BY <1>1, <2>1, <2>2, <2>3, WriteInodeIs DEF IInv
  <2>7. i \notin {Root, Tmp} /\ ~IsDir(i)' /\ itab'[i].size <= MaxOffset
    BY <1>1, <1>2, <2>6, DiskFSAssumption DEF FilesSmall, IsDir
  <2>8. FilesSmall'
    BY <1>1, <1>2, <2>1, <2>5, <2>7, SmallFrame DEF Written
  <2>9. FormatKept'
    <3>1. loc'.ino = loc.ino
      BY <1>1, <2>1 DEF CallTypes
    <3> QED BY <1>1, <1>2, <2>1, <3>1, FdsNumbered, TmpKept DEF TreeSteps
  <2> QED BY <2>4, <2>8, <2>9 DEF Kept
<1>4. CASE ~ok
  <2>1. pc' = "idle" /\ UNCHANGED itab
    BY <1>4 DEF Truncate, Return
  <2>2. FormatKept'
    BY <1>1, <1>2, <2>1, FdsNumbered, TmpKept DEF TreeSteps
  <2> QED BY <1>1, <1>2, <2>1, <2>2, QuietIs DEF Written, Quiet, Kept
<1> QED BY <1>3, <1>4

\* The block of a file that is written is free or the file's.
LEMMA WriteBlockKept ==
  ASSUME Plain, IInv, TreeSound, FilesSmall, FormatKept, NEW ok, WriteBlock(ok)
  PROVE  Kept
<1>0. PICK i : i = loc.ino
  OBVIOUS
<1> DEFINE old == GetBlock(loc.node, loc.k)
<1> DEFINE b == IF old = 0 THEN FreeBlockNo(mem) ELSE old
<1> DEFINE m == IF old = 0 THEN AllocateBlock(mem) ELSE mem
<1> DEFINE node == IF old = 0 THEN SetBlock(loc.node, loc.k, b) ELSE loc.node
<1>1. /\ pc = "wrBlock" /\ Target = i /\ UNCHANGED <<itab, fdt>> /\ mem \in Allocator
      /\ loc \in CallTypes /\ loc.node \in Copies
      /\ loc.k \in 0 .. NDirect - 1 /\ loc.k < NDirect
  <2>1. pc = "wrBlock" /\ loc.left > 0 /\ loc.k \in Nat /\ loc.left \in Nat
    BY DEF WriteBlock, IInv, Typed, CallTypes
  <2>2. loc.k + loc.left <= MaxOffset
    BY <2>1 DEF TreeSound, FilesSound
  <2>3. loc.k \in 0 .. NDirect - 1 /\ loc.k < NDirect
    BY <2>1, <2>2, DiskFSAssumption DEF Plain, Careful
  <2> QED BY <1>0, <2>1, <2>3 DEF Target, WriteBlock, IInv, Typed, CallTypes
<1>2. old = loc.node.direct[loc.k]
  BY <1>1 DEF GetBlock
<1>3. /\ m.imap = mem.imap /\ m \in Allocator
      /\ b # None => b \in Block /\ (b \notin mem.bmap \/ (b = loc.node.direct[loc.k] /\ b # 0))
  <2>1. old # 0 => old \in Block
    BY <1>1, <1>2, CopyBlocks
  <2> QED BY <1>1, <1>2, <2>1, AllocateBlockIs, AllocateBlockKeeps
<1>4. node.size = loc.node.size /\ loc.node.size <= MaxOffset
  BY <1>1 DEF SetBlock, FilesSmall, Copies
<1> HIDE DEF old, b, m, node
<1>5. ASSUME NEW n \in Allocator, n.imap = mem.imap, NEW copy, Return,
             mem' = Rollback(n, loc.orig, copy), UNCHANGED blk
      PROVE  Kept
  <2>1. mem'.imap = mem.imap /\ pc' = "idle"
    BY <1>5, RollbackIs DEF Return
  <2>2. FormatKept'
    BY <1>1, <2>1, FdsNumbered, TmpKept DEF TreeSteps
  <2> QED BY <1>1, <1>5, <2>1, <2>2, QuietIs DEF Written, Quiet, Kept
<1>6. ASSUME b # None, mem' = m, blk' = [blk EXCEPT ![b] = DataBlock(loc.val)], pc' = "wrBlock",
             loc' = [loc EXCEPT !.node = node, !.k = @ + 1, !.left = @ - 1]
      PROVE  Kept
  <2>1. loc'.ino = loc.ino /\ loc'.node = node
    BY <1>1, <1>6 DEF CallTypes
  <2>2. ASSUME NEW j \in mem.imap \ {loc.ino}  PROVE b \notin InodeBlocks(j)
    <3>1. j \in Live \ {i}
      BY <1>0, <1>1, <2>2 DEF Live, Removing
    <3>2. CASE b \notin mem.bmap
      BY <3>1, <3>2 DEF TreeSound, BlocksSound
    <3>3. CASE b = loc.node.direct[loc.k] /\ b # 0
      BY <1>1, <3>1, <3>3, CopyBlocks
    <3> QED BY <1>3, <1>6, <3>2, <3>3
  <2>3. Isolated
    BY <1>1, <1>3, <1>6, <2>2, BlockAlone DEF Plain
  <2>4. FormatKept'
    BY <1>1, <1>3, <1>6, <2>1, FdsNumbered, TmpKept DEF TreeSteps
  <2>5. FilesSmall'
    BY <1>1, <1>3, <1>4, <1>6, <2>1, SmallQuiet DEF Written
  <2> QED BY <2>3, <2>4, <2>5 DEF Kept
<1> USE DEF old, b, m, node
<1>7. CASE b \in {None, BadBlock}
  BY <1>1, <1>5, <1>7 DEF WriteBlock
<1>8. CASE b \notin {None, BadBlock} /\ ~ok
  BY <1>3, <1>5, <1>8 DEF WriteBlock
<1>9. CASE b \notin {None, BadBlock} /\ ok
  BY <1>6, <1>9 DEF WriteBlock, Goto
<1> QED BY <1>7, <1>8, <1>9

LEMMA WriteEndKept ==
  ASSUME Plain, IInv, TreeSound, FilesSmall, FormatKept, NEW ok, WriteEnd(ok)
  PROVE  Kept
<1>0. PICK i : i = loc.ino
  OBVIOUS
<1>1. /\ pc = "wrBlock" /\ i \in Live /\ ~IsDir(i) /\ i \in Inode \ {0} /\ Target = i
      /\ loc.node \in Copies /\ mem \in Allocator /\ UNCHANGED blk
      /\ fdt' = [fdt EXCEPT ![loc.fd].off = loc.k] /\ loc.left = 0 /\ loc.k \in Nat
  BY <1>0, LiveInodes
     DEF WriteEnd, TreeSound, FilesSound, IInv, CallSound, Target, Typed, CallTypes, FormatKept
<1>2. \A f \in Fd : fdt'[f].ino = fdt[f].ino
  <2>1. fdt \in [Fd -> {NoFd} \cup OpenFds]
    BY DEF IInv, Typed
  <2> QED BY <1>1, <2>1 DEF NoFd, OpenFds
<1>3. i \in Written /\ i \notin {Root, Tmp} /\ loc.k <= MaxOffset /\ loc.node.size <= MaxOffset
  <2>1. i \in Written
    BY <1>1 DEF Written, Live
  <2>2. loc.k + loc.left <= MaxOffset
    BY <1>1 DEF TreeSound, FilesSound
  <2> QED BY <1>1, <2>1, <2>2, DiskFSAssumption DEF FilesSmall
<1>4. CASE ok
  <2> DEFINE n == Max({loc.node.size, loc.k})
  <2> DEFINE node == [loc.node EXCEPT !.size = n]
  <2>1. WriteInode(i, node) /\ pc' = "flSuper" /\ UNCHANGED mem
    BY <1>0, <1>1, <1>4 DEF WriteEnd, Goto
  <2>2. n \in {loc.node.size, loc.k} /\ loc.node.size \in Nat
    <3>1. loc.node.size \in Nat
      BY <1>1 DEF Copies
    <3>2. \E x \in {loc.node.size, loc.k} : \A y \in {loc.node.size, loc.k} : x >= y
      BY <1>1, <3>1
    <3> QED BY <3>1, <3>2 DEF Max
  <2>3. node.mode = loc.node.mode /\ node.tail = loc.node.tail /\ node \in Copies /\ node.size = n
    <3> HIDE DEF n
    <3> QED BY <1>1, <2>2 DEF Copies
  <2> HIDE DEF node, n
  <2>4. /\ node.mode = itab[i].mode
        /\ HasNeighbour(i) /\ node.tail = "dir" => itab[i + 1].mode = "dir"
    BY <1>1, <2>3 DEF TreeSound, CopySound
  <2>5. Isolated
    BY <1>0, <1>1, <2>1, <2>3, <2>4, InodeWritten DEF Plain
  <2>6. \A j \in Written \ {i} : itab'[j].mode = itab[j].mode /\ itab'[j].size = itab[j].size
    BY <1>1, <2>1, <2>3, <2>4, NeighbourKept
  <2>7. itab'[i].mode = itab[i].mode /\ itab'[i].size = n
    BY <1>1, <2>1, <2>3, <2>4, WriteInodeIs DEF IInv
  <2>8. ~IsDir(i)' /\ itab'[i].size <= MaxOffset
    BY <1>1, <1>3, <2>2, <2>7 DEF IsDir
  <2>9. FilesSmall'
    BY <1>1, <1>3, <2>1, <2>6, <2>8, SmallFrame DEF Written
  <2>10. FormatKept'
    BY <1>1, <1>2, <2>1, FdsNumbered, TmpKept DEF TreeSteps
  <2> QED BY <2>5, <2>9, <2>10 DEF Kept
<1>5. CASE ~ok
  <2>1. mem' = Rollback(mem, loc.orig, loc.node) /\ pc' = "idle" /\ UNCHANGED itab
    BY <1>5 DEF WriteEnd, Return
  <2>2. mem'.imap = mem.imap
    BY <1>1, <2>1, RollbackIs
  <2>3. FormatKept'
    BY <1>1, <1>2, <2>1, <2>2, FdsNumbered, TmpKept DEF TreeSteps
  <2> QED BY <1>1, <2>1, <2>2, <2>3, QuietIs DEF Written, Quiet, Kept
<1> QED BY <1>4, <1>5

-----------------------------------------------------------------------------
(* Every step leaves the other files alone.                                 *)

\* No call is made on a torn image.
TornRests == image = "torn" => pc = "idle"

LEMMA TornSteps ==
  ASSUME TornRests, [Next]_vars
  PROVE  /\ TornRests'
         /\ image = "torn" => PowerFailure \/ UNCHANGED vars
         /\ image' = "torn" => image = "torn" \/ PowerFailure
<1>1. CASE PowerFailure
  BY <1>1 DEF PowerFailure, Return, TornRests
<1>2. CASE UNCHANGED vars
  BY <1>2 DEF vars, TornRests
<1>3. ASSUME NEW ok, \/ NewInode(ok) \/ Entry(ok) \/ WriteDirBlock(ok) \/ WriteDirInode(ok)
                     \/ ReadBack(ok) \/ Truncate(ok) \/ WriteBlock(ok) \/ WriteEnd(ok)
      PROVE  image' = image /\ pc # "idle"
  BY <1>3 DEF NewInode, Entry, WriteDirBlock, WriteDirInode, ReadBack, Truncate, WriteBlock,
              WriteEnd
<1>4. ASSUME NEW ok, FlushSuper(ok) \/ FlushInodeBitmap(ok) \/ FlushBlockBitmap(ok)
      PROVE  pc # "idle" /\ (image' = "torn" => image = "torn")
  BY <1>4 DEF FlushSuper, FlushInodeBitmap, FlushBlockBitmap
<1>5. ASSUME NEW p, NEW fl, NEW ok, Open(p, fl, ok) \/ Mkdir(p) \/ Unlink(p)
      PROVE  image' = image /\ image # "torn"
  BY <1>5 DEF Open, Mkdir, Unlink, Begin
<1>6. ASSUME NEW fd, NEW n, NEW v, Read(fd, n) \/ Write(fd, n, v) \/ Close(fd)
      PROVE  image' = image /\ image # "torn"
  BY <1>6 DEF Read, Write, Close, Begin
<1>7. OpenFd => image' = image /\ pc # "idle"
  BY DEF OpenFd
<1> QED BY <1>1, <1>2, <1>3, <1>4, <1>5, <1>6, <1>7 DEF Next, TornRests

LEMMA StepKept ==
  ASSUME Plain, IInv, Tree, Small, TornRests, [Next]_vars
  PROVE  Isolated /\ Small'
<1>1. CASE PowerFailure
  <2>1. Isolated
    BY <1>1, NothingWritten DEF PowerFailure
  <2>2. ASSUME image' # "torn"  PROVE FilesSmall' /\ FormatKept'
    <3>1. image # "torn"
      BY <1>1, <2>2 DEF PowerFailure
    <3> QED BY <1>1, <2>2, <3>1, PowerFailureQuiet DEF Small, Quiet
  <2> QED BY <2>1, <2>2 DEF Small
<1>2. CASE UNCHANGED vars
  <2>1. UNCHANGED <<itab, blk>> /\ Written' = Written
    BY <1>2 DEF vars, Written
  <2>2. ASSUME FilesSmall, FormatKept  PROVE FilesSmall' /\ FormatKept'
    BY <1>2, <2>1, <2>2, SmallQuiet DEF vars, FormatKept, FilesSmall
  <2> QED BY <1>2, <2>1, <2>2, NothingWritten DEF Small, vars
<1>3. CASE ~PowerFailure /\ ~UNCHANGED vars
  <2>1. image # "torn"
    BY <1>3, TornSteps
  <2>2. TreeSound /\ FilesSmall /\ FormatKept
    BY <2>1 DEF Tree, Small
  <2>3. Quiet => Kept
    BY DEF Quiet, Kept
  <2>4. DirPaths = {}
    BY DEF Plain
  <2>5. ASSUME NEW fl \in Flags, NEW p \in FilePaths, NEW ok \in BOOLEAN, Open(p, fl, ok)  PROVE Kept
    BY <2>2, <2>3, <2>5, OpenQuiet
  <2>6. ASSUME NEW p \in FilePaths, Unlink(p)  PROVE Kept
    BY <2>2, <2>3, <2>6, UnlinkQuiet
  <2>7. ASSUME NEW fd \in Fd, NEW n, Read(fd, n)  PROVE Kept
    BY <2>2, <2>3, <2>7, ReadQuiet
  <2>8. ASSUME NEW fd \in Fd, NEW n, NEW v, Write(fd, n, v)  PROVE Kept
    BY <2>2, <2>3, <2>8, WriteQuiet
  <2>9. ASSUME NEW fd, NEW ok, Close(fd) \/ ReadBack(ok)  PROVE Kept
    BY <2>2, <2>3, <2>9, CloseReadBackQuiet
  <2>10. OpenFd => Kept
    BY <2>2, <2>3, OpenFdQuiet
  <2>11. ASSUME NEW ok, NewInode(ok) \/ Entry(ok) \/ WriteDirBlock(ok) \/ WriteDirInode(ok)
         PROVE  Kept
    BY <2>2, <2>3, <2>11, NewInodeKept, EntryQuiet, WriteDirBlockKept, WriteDirInodeKept
  <2>12. ASSUME NEW ok, Truncate(ok) \/ WriteBlock(ok) \/ WriteEnd(ok)  PROVE Kept
    BY <2>2, <2>12, TruncateKept, WriteBlockKept, WriteEndKept
  <2>13. ASSUME NEW ok, FlushSuper(ok) \/ FlushInodeBitmap(ok) \/ FlushBlockBitmap(ok)  PROVE Kept
    BY <2>2, <2>3, <2>13, FlushQuiet
  <2>14. Kept
    BY <1>3, <2>4, <2>5, <2>6, <2>7, <2>8, <2>9, <2>10, <2>11, <2>12, <2>13 DEF Next
  <2> QED BY <2>14 DEF Kept, Small
<1> QED BY <1>1, <1>2, <1>3

LEMMA FormattedSmall == ASSUME Init  PROVE Small /\ TornRests
<1>1. /\ pc = "idle" /\ loc = NoCall /\ image = "good"
      /\ mem.imap = {0, Root, Tmp} /\ fdt = [f \in Fd |-> NoFd]
  BY DEF Init, FormattedMem, Load, Formatted
<1>2. /\ itab[0].mode = "file" /\ itab[0].size = 0
      /\ itab[Root].mode = "dir" /\ itab[Tmp].mode = "dir"
  <2>1. Root \in Inode /\ Tmp \in Inode /\ 0 \in Inode /\ Root # Tmp /\ Root # 0 /\ Tmp # 0
    BY SizeAssumption, DiskFSAssumption DEF Inode, Root, Tmp
  <2> QED BY <2>1 DEF Init, FreshInode, SetBlock
<1>3. Written = {0, Root, Tmp}
  BY <1>1 DEF Written
<1>4. 0 \notin {Root, Tmp} /\ 0 <= MaxOffset
  BY DiskFSAssumption DEF Root, Tmp
<1>5. FilesSmall
  BY <1>1, <1>2, <1>3, <1>4 DEF FilesSmall, IsDir
<1>6. FormatKept
  BY <1>1, <1>3 DEF FormatKept, NoFd, None
<1> QED BY <1>1, <1>5, <1>6 DEF Small, TornRests

\* As long as no directories are made, and under the conditions of TreeHolds, a call
\* leaves every file but its own as it is, with its error paths and rollbacks: its
\* contents, its size and that it is a file (write_inode of filesystem_disk.c, which
\* also writes the first bytes of the next inode, and the block writes of
\* filesystem_inode.c and filesystem_fileio.c).
THEOREM IsolationHolds == Plain => (Spec => Isolation)
<1> SUFFICES ASSUME Plain  PROVE Spec => Isolation
  OBVIOUS
<1>1. Careful
  BY DEF Plain
<1>2. Init => Small /\ TornRests
  BY FormattedSmall
<1>3. IInv /\ Tree /\ Small /\ TornRests /\ [Next]_vars => Small' /\ TornRests'
  BY StepKept, TornSteps
<1>4. IInv /\ Tree /\ Small /\ TornRests /\ [Next]_vars =>
        [\A i \in (mem.imap \cap mem'.imap) \ {loc.ino, loc'.ino} :
           /\ itab'[i].mode = itab[i].mode
           /\ itab[i].mode = "file" => FileView(i)' = FileView(i)]_vars
  BY StepKept DEF Isolated
<1>5. Spec => []Tree
  BY <1>1, TreeHolds
<1> QED BY <1>2, <1>3, <1>4, <1>5, InvariantHolds, PTL DEF Spec, Isolation

-----------------------------------------------------------------------------
(* Nothing is lost, when no directories are made: what is used belongs to   *)
(* something that a path or a call leads to.                                *)

StateSound == IInv /\ TreeSound /\ FilesSmall /\ FormatKept /\ OwnSound

Reached == BlocksOwned /\ InodesNamed /\ NewFileEmpty

\* The two directories of format are in use, and the only ones.
LEMMA FormatDirs ==
  ASSUME StateSound
  PROVE  /\ LiveDirs = {Root, Tmp} /\ {Root, Tmp} \subseteq Live /\ Live \subseteq Written
         /\ {Root, Tmp} \subseteq Inode /\ Root # Tmp
         /\ \A i \in Live : IsDir(i) <=> i \in {Root, Tmp}
<1>1. Live \subseteq Written
  BY DEF Live, Written
<1>2. \A i \in Live : IsDir(i) <=> i \in {Root, Tmp}
  BY <1>1 DEF StateSound, FilesSmall
<1>3. Root \in Live
  BY DEF StateSound, IInv, CallSound, Reserved, Root, Live, Removing
<1>4. Tmp \in Live
  BY DEF StateSound, FormatKept, Written, Live, Removing
<1>5. Root \in Inode /\ Tmp \in Inode
  BY <1>3, <1>4, LiveInodes DEF StateSound
<1> QED BY <1>1, <1>2, <1>3, <1>4, <1>5 DEF LiveDirs, Root, Tmp

\* What a step must see to: the blocks and the records it takes something from.
LEMMA OwnedFrame ==
  ASSUME BlocksOwned,
         \A b \in mem'.bmap : b = 0 \/ b \in mem.bmap \/ b \in NewBlocks',
         \A b \in NewBlocks \cap mem'.bmap :
           b = 0 \/ b \in NewBlocks' \/ \E j \in Live' : b \in InodeBlocks(j)',
         \A i \in Live : \A b \in InodeBlocks(i) \cap mem'.bmap :
           b = 0 \/ \E j \in Live' : b \in InodeBlocks(j)'
  PROVE  BlocksOwned'
<1>1. SUFFICES ASSUME NEW b \in mem'.bmap, b # 0, b \notin NewBlocks'
               PROVE  \E j \in Live' : b \in InodeBlocks(j)'
  BY DEF BlocksOwned
<1>2. b \in mem.bmap
  BY <1>1
<1>3. b \in NewBlocks \/ \E i \in Live : b \in InodeBlocks(i)
  BY <1>1, <1>2 DEF BlocksOwned
<1> QED BY <1>1, <1>3

LEMMA NamedSame ==
  ASSUME \A d \in {Root, Tmp} : Entries(d)' = Entries(d)
  PROVE  \A i : Named(i)' = Named(i)
BY DEF Named, NamedBy

\* A step that changes neither an inode, a block nor what is in use.
LEMMA RestReached ==
  ASSUME StateSound, UNCHANGED <<itab, blk>>, mem'.imap = mem.imap, mem'.bmap = mem.bmap,
         pc \notin TreeSteps, pc' \notin TreeSteps, NewBlocks = {}, NewBlocks' = {}
  PROVE  Reached' /\ Live' = Live
<1>1. Live' = Live
  BY DEF Live, Removing, TreeSteps
<1>2. \A i : InodeBlocks(i)' = InodeBlocks(i)
  BY DEF InodeBlocks
<1>3. BlocksOwned'
  BY <1>1, <1>2, OwnedFrame DEF StateSound, OwnSound
<1>4. \A i : Entries(i)' = Entries(i)
  BY DEF Entries, Shifting, ReadDirectory, TreeSteps
<1>5. ~Creating /\ ~Creating'
  BY DEF Creating, TreeSteps
<1>6. InodesNamed'
  BY <1>1, <1>4, <1>5, NamedSame DEF InodesNamed, StateSound, OwnSound
<1> QED BY <1>1, <1>3, <1>5, <1>6 DEF Reached, NewFileEmpty

\* An inode that was just allocated is not live yet.
LEMMA AllocatedReached ==
  ASSUME StateSound, pc = "idle", NEW op \in {"open", "mkdir"}, NEW p, NEW fl,
         Allocated(op, p, fl), UNCHANGED <<itab, blk>>
  PROVE  Reached' /\ Live' = Live
<1>0. PICK x : x = FreeInodeNo(mem)
  OBVIOUS
<1>1. x \in Inode \ mem.imap /\ mem'.imap = mem.imap \cup {x} /\ mem'.bmap = mem.bmap
  BY <1>0, AllocateInodeIs DEF Allocated, StateSound, IInv, Typed
<1>2. pc' = "newInode" /\ loc'.op = op /\ loc'.ino = x
  BY <1>0 DEF Allocated, Goto, NoCall
<1>3. Live' = Live
  BY <1>1, <1>2 DEF Live, Removing
<1>4. NewBlocks' = {} /\ NewBlocks = {} /\ \A i : ~Shifting(i) /\ ~Shifting(i)'
  BY <1>2 DEF NewBlocks, Shifting
<1>5. \A i : Entries(i)' = Entries(i) /\ InodeBlocks(i)' = InodeBlocks(i)
  BY <1>4 DEF Entries, ReadDirectory, InodeBlocks
<1>6. BlocksOwned'
  BY <1>1, <1>3, <1>4, <1>5, OwnedFrame DEF StateSound, OwnSound
<1>7. InodesNamed'
  BY <1>3, <1>5, NamedSame DEF InodesNamed, StateSound, OwnSound, Creating
<1> QED BY <1>2, <1>3, <1>6, <1>7 DEF Reached, NewFileEmpty

\* A creation that fails gives back all that it took.
LEMMA FailReached ==
  ASSUME StateSound, Creating, Return, UNCHANGED <<itab, blk>>,
         mem'.imap = mem.imap \ {loc.ino},
         \A b \in mem'.bmap : b \in mem.bmap /\ b \notin NewBlocks
  PROVE  Reached' /\ Live' = Live \ {loc.ino}
<1>1. pc' = "idle" /\ loc'.op = "none"
  BY DEF Return, NoCall
<1>2. Live' = Live \ {loc.ino}
  BY <1>1 DEF Live, Removing, Creating
<1>3. NewBlocks' = {} /\ \A i : ~Shifting(i) /\ ~Shifting(i)'
  BY <1>1 DEF NewBlocks, Shifting, Creating
<1>4. \A i : Entries(i)' = Entries(i) /\ InodeBlocks(i)' = InodeBlocks(i)
  BY <1>3 DEF Entries, ReadDirectory, InodeBlocks
<1>5. loc.ino \in Live => InodeBlocks(loc.ino) = {}
  <2>1. ASSUME loc.ino \in Live  PROVE pc # "newInode"
    BY <2>1 DEF Live
  <2> QED BY <2>1 DEF StateSound, OwnSound, NewFileEmpty, InodeBlocks
<1>6. BlocksOwned'
  BY <1>2, <1>3, <1>4, <1>5, OwnedFrame DEF StateSound, OwnSound
<1>7. InodesNamed'
  BY <1>2, <1>4, NamedSame DEF InodesNamed, StateSound, OwnSound
<1> QED BY <1>1, <1>2, <1>6, <1>7 DEF Reached, NewFileEmpty, Creating

\* Are these used blocks the old ones and those that the copy gained?
GivesBack(used, copy) ==
  \A c \in used : c \in mem.bmap \ NewBlocks
    \/ \E j \in 0 .. NDirect - 1 : loc.orig.direct[j] = 0 /\ copy.direct[j] # 0
                                   /\ c = copy.direct[j]

\* So does one that fails after a rollback.
LEMMA GivenBackReached ==
  ASSUME StateSound, pc = "wdBlock", Creating, NEW m \in Allocator, NEW copy,
         m.imap = mem.imap, GivesBack(m.bmap, copy),
         Fail(Rollback(m, loc.orig, copy)), UNCHANGED <<itab, blk>>
  PROVE  Reached' /\ Live' = Live \ {loc.ino}
<1> DEFINE r == Rollback(m, loc.orig, copy)
<1> DEFINE freed == {copy.direct[k] : k \in {j \in 0 .. NDirect - 1 :
                                        loc.orig.direct[j] = 0 /\ copy.direct[j] # 0}}
<1>1. r.imap = mem.imap /\ r.bmap = m.bmap \ freed /\ r \in Allocator
  BY RollbackIs, AfterRollback DEF After
<1>2. mem' = FreeInode(r, loc.ino) /\ Return
  BY DEF Fail, Creating
<1>3. mem'.imap = mem.imap \ {loc.ino} /\ mem'.bmap = m.bmap \ freed
  <2> HIDE DEF r, freed
  <2> QED BY <1>1, <1>2, FreeInodeIs
<1>4. \A b \in mem'.bmap : b \in mem.bmap /\ b \notin NewBlocks
  BY <1>3 DEF GivesBack
<1> QED BY <1>2, <1>3, <1>4, FailReached

LEMMA NewInodeReached ==
  ASSUME Plain, StateSound, NEW ok, NewInode(ok)
  PROVE  /\ Reached'
         /\ \/ Live' \ {loc.ino} = Live /\ itab'[loc.ino].mode = "file"
               /\ itab'[loc.ino].size = 0 /\ pc' = "entry"
               /\ (\A k \in 0 .. NDirect - 1 : itab'[loc.ino].direct[k] = 0)
               /\ \A j \in Live : itab'[j].mode = itab[j].mode /\ itab'[j].size = itab[j].size
                                  /\ itab'[j].direct = itab[j].direct
            \/ Live' = Live /\ UNCHANGED itab /\ pc' = "idle"
<1>0. PICK x : x = loc.ino
  OBVIOUS
<1>1. /\ pc = "newInode" /\ Creating /\ loc.op = "open" /\ x \in Inode \ Reserved
      /\ UNCHANGED <<blk, fdt>> /\ mem \in Allocator /\ loc \in CallTypes /\ x \in mem.imap
  BY <1>0, OpenCreates
     DEF NewInode, Creating, StateSound, TreeSound, CreationSound, IInv, CallSound, Typed
<1>2. x \notin Live /\ Live = mem.imap \ {x} /\ NewBlocks = {} /\ x \notin {0, Root, Tmp}
  BY <1>0, <1>1, FormatDirs DEF Live, NewBlocks, Reserved
<1>3. CASE Fail(mem) /\ UNCHANGED itab
  <2>1. mem' = FreeInode(mem, x) /\ Return
    BY <1>0, <1>1, <1>3 DEF Fail
  <2>2. mem'.imap = mem.imap \ {x} /\ mem'.bmap = mem.bmap
    BY <1>1, <2>1, FreeInodeIs
  <2>3. Reached' /\ Live' = Live \ {x}
    BY <1>0, <1>1, <1>2, <1>3, <2>1, <2>2, FailReached
  <2> QED BY <1>2, <1>3, <2>1, <2>3 DEF Return
<1>4. CASE ~ (Fail(mem) /\ UNCHANGED itab)
  <2> DEFINE node == FreshInode("file")
  <2>1. WriteInode(x, node) /\ UNCHANGED mem /\ pc' = "entry"
        /\ loc' = [loc EXCEPT !.par = ResolveParent(loc.path)]
    BY <1>0, <1>1, <1>4 DEF NewInode, Goto
  <2>2. /\ node.mode = "file" /\ node.size = 0 /\ node.tail = "file" /\ node \in Copies
        /\ \A k \in 0 .. NDirect - 1 : node.direct[k] = 0
    BY StartTyped DEF FreshInode, NoCall, CallTypes
  <2> HIDE DEF node
  <2>3. loc'.ino = x /\ loc'.op = "open"
    BY <1>0, <1>1, <2>1 DEF CallTypes
  <2>4. Live' = mem.imap /\ Live' \ {x} = Live
    BY <1>1, <1>2, <2>1, <2>3 DEF Live, Removing
  <2>5. /\ itab'[x].mode = "file" /\ itab'[x].size = 0 /\ itab'[x].direct = node.direct
    BY <1>1, <2>1, <2>2, WriteInodeIs DEF StateSound, IInv
  <2>6. \A j \in Live : itab'[j].mode = itab[j].mode /\ itab'[j].size = itab[j].size
                        /\ itab'[j].direct = itab[j].direct
    <3>1. x \in Inode \ {0} /\ Live \subseteq Written \ {x}
      BY <1>1, <1>2, FormatDirs
    <3> QED BY <2>1, <2>2, <3>1, NeighbourKept DEF StateSound
  <2>7. NewBlocks' = {} /\ (\A i : ~Shifting(i) /\ ~Shifting(i)')
    BY <1>1, <2>1, <2>3 DEF NewBlocks, Shifting
  <2>8. \A j \in Live : Entries(j)' = Entries(j) /\ InodeBlocks(j)' = InodeBlocks(j)
    BY <1>1, <2>6, <2>7 DEF Entries, ReadDirectory, DirectoryOf, InodeBlocks
  <2>9. BlocksOwned'
    BY <1>2, <2>1, <2>4, <2>8, OwnedFrame DEF StateSound, OwnSound
  <2>10. InodesNamed'
    <3>1. \A i : Named(i)' = Named(i)
      BY <2>8, FormatDirs, NamedSame
    <3>2. Creating'
      BY <2>1, <2>3 DEF Creating
    <3> QED BY <1>0, <1>2, <2>3, <2>4, <3>1, <3>2 DEF InodesNamed, StateSound, OwnSound
  <2>11. NewFileEmpty'
    BY <2>2, <2>3, <2>5 DEF NewFileEmpty
  <2> QED BY <1>0, <2>1, <2>2, <2>4, <2>5, <2>6, <2>9, <2>10, <2>11 DEF Reached
<1> QED BY <1>3, <1>4

\* A record is added to what a directory holds only with its inode.
LEMMA EntryReached ==
  ASSUME Plain, StateSound, NEW ok, Entry(ok)
  PROVE  /\ Reached' /\ UNCHANGED itab
         /\ \/ Live' = Live
            \/ Creating /\ Live' = Live \ {loc.ino}
         /\ pc' \in {"wdBlock", "idle"}
<1>0. PICK x, par, name : x = loc.ino /\ par = loc.par /\ name = Last(loc.path)
  OBVIOUS
<1>1. /\ pc = "entry" /\ UNCHANGED <<itab, blk, fdt>> /\ mem \in Allocator /\ IInv /\ TreeSound
      /\ NewBlocks = {} /\ \A i : ~Shifting(i)
  BY DEF Entry, StateSound, IInv, Typed, NewBlocks, Shifting
<1>2. CASE Creating
  <2>1. loc.op = "open" /\ par \in Live
    BY <1>0, <1>1, <1>2, OpenCreates DEF Plain, TreeSound, CreationSound
  <2>2. CASE Fail(mem)
    <3>1. mem' = FreeInode(mem, x) /\ Return
      BY <1>0, <2>1, <2>2 DEF Fail
    <3>2. mem'.imap = mem.imap \ {x} /\ mem'.bmap = mem.bmap
      BY <1>1, <3>1, FreeInodeIs
    <3>3. Reached' /\ Live' = Live \ {x}
      BY <1>0, <1>1, <1>2, <3>1, <3>2, FailReached
    <3> QED BY <1>0, <1>1, <1>2, <3>1, <3>3 DEF Return
  <2>3. CASE ~Fail(mem)
    <3>1. pc' = "wdBlock" /\ par \in LiveDirs
      BY <1>0, <2>1, <2>3 DEF Entry, Goto, EntryPossible, LiveDirs
    <3>2. /\ UNCHANGED mem /\ loc'.op = loc.op /\ loc'.ino = loc.ino
          /\ NewBlocks' = {} /\ Live' = Live
      BY <1>0, <1>1, <3>1, EntryBegins
    <3>3. Creating' /\ \A i : ~Shifting(i)'
      BY <2>1, <3>1, <3>2 DEF Creating, Shifting
    <3>4. \A i : Entries(i)' = Entries(i) /\ InodeBlocks(i)' = InodeBlocks(i)
      BY <1>1, <3>3 DEF Entries, ReadDirectory, InodeBlocks
    <3>5. BlocksOwned'
      BY <1>1, <3>2, <3>4, OwnedFrame DEF StateSound, OwnSound
    <3>6. InodesNamed'
      BY <1>2, <3>2, <3>3, <3>4, NamedSame DEF InodesNamed, StateSound, OwnSound
    <3>7. NewFileEmpty'
      BY <1>1, <1>2, <3>2 DEF NewFileEmpty, StateSound, OwnSound
    <3> QED BY <1>1, <3>1, <3>2, <3>5, <3>6, <3>7 DEF Reached
  <2> QED BY <2>2, <2>3
<1>3. CASE ~Creating
  <2> DEFINE es == ReadDirectory(par)
  <2> DEFINE at == Positions(par, name)
  <2> DEFINE pos == Min(at)
  <2>1. /\ loc.op = "unlink" /\ Removing /\ x \in Inode /\ "unlink" \in Calls
        /\ par \in LiveDirs /\ par \in Inode /\ FindEntry(par, name) = x
    <3>1. Removing /\ loc.op = "unlink"
      BY <1>1, <1>3 DEF Creating, Removing
    <3>2. par \in LiveDirs
      BY <1>0, <3>1 DEF StateSound, TreeSound, RemovalSound
    <3> QED BY <1>0, <1>1, <3>1, <3>2, LiveInodes
            DEF TreeSound, RemovalSound, IInv, CallSound, LiveDirs
  <2>2. es \in Seq(SoundRecs) /\ Len(es) \in Nat
    BY <1>1, <2>1, ReadDirectoryTyped DEF IInv
  <2>3. at # {} /\ pos \in 1 .. Len(es) /\ es[pos].ino = x
    <3>1. FindEntry(par, name) # None
      BY <2>1 DEF None, Inode
    <3>2. \E k \in DOMAIN es : k = pos /\ es[k].ino = FindEntry(par, name)
      BY <1>1, <2>1, <3>1, EntryFound DEF IInv
    <3>3. at # {}
      BY <3>1 DEF FindEntry
    <3> HIDE DEF es, at, pos
    <3> QED BY <2>1, <2>2, <3>2, <3>3
  <2>4. pc' = "wdBlock"
    <3>1. ok
      BY <2>1 DEF Plain, Careful, Entry, Outcome
    <3>2. EntryPossible
      BY <1>0, <2>1, <2>3 DEF EntryPossible
    <3> QED BY <3>1, <3>2 DEF Entry, Goto
  <2>5. /\ UNCHANGED mem /\ loc'.op = "unlink" /\ loc'.dir = par /\ loc'.ents = NewEntries
        /\ NewBlocks' = {} /\ Live' = Live
    BY <1>0, <1>1, <2>1, <2>4, EntryBegins
  <2>6. NewEntries = RemoveAt(es, pos)
    BY <1>0, <2>1 DEF NewEntries
  <2>7. /\ RemoveAt(es, pos) \in Seq(SoundRecs) /\ Len(RemoveAt(es, pos)) = Len(es) - 1
        /\ \A j \in 1 .. Len(es) - 1 :
             RemoveAt(es, pos)[j] = es[IF j < pos THEN j ELSE j + 1]
    <3> HIDE DEF es, pos
    <3> QED BY <2>2, <2>3, RemovedIs
  <2>8. PICK new : new = RemoveAt(es, pos)
    OBVIOUS
  <2>9. /\ Entries(par) = es /\ Entries(par)' = new
        /\ \A i : i # par => Entries(i)' = Entries(i)
    BY <1>1, <2>4, <2>5, <2>6, <2>8 DEF Entries, Shifting, ReadDirectory
  <2>10. \A i : InodeBlocks(i)' = InodeBlocks(i)
    BY <1>1 DEF InodeBlocks
  <2>11. BlocksOwned'
    BY <1>1, <2>5, <2>10, OwnedFrame DEF StateSound, OwnSound
  <2>12. ASSUME NEW i \in Live, Named(i)  PROVE Named(i)'
    <3>0. i # x
      BY <1>0, <2>1, <2>12 DEF Live
    <3>1. PICK d \in {Root, Tmp} : \E k \in DOMAIN Entries(d) : NamedBy(d, k, i)
      BY <2>12 DEF Named
    <3>2. CASE d # par
      BY <2>9, <3>1, <3>2 DEF Named, NamedBy
    <3>3. CASE d = par
      <4> HIDE DEF es, pos
      <4>1. PICK k \in 1 .. Len(es) : es[k].name \notin Dots /\ es[k].ino = i
        BY <2>2, <2>9, <3>1, <3>3 DEF NamedBy
      <4>2. k # pos
        BY <2>3, <3>0, <4>1
      <4>3. PICK j \in 1 .. Len(es) - 1 : k = IF j < pos THEN j ELSE j + 1
        <5>1. CASE k < pos
          BY <2>2, <2>3, <5>1
        <5>2. CASE k > pos
          BY <2>2, <2>3, <5>2, k - 1 \in 1 .. Len(es) - 1
        <5> QED BY <2>2, <2>3, <4>2, <5>1, <5>2
      <4>4. j \in DOMAIN new /\ new[j] = es[k]
        BY <2>2, <2>7, <2>8, <4>3
      <4>5. NamedBy(par, j, i)'
        BY <2>9, <4>1, <4>4 DEF NamedBy
      <4> QED BY <2>9, <3>3, <4>4, <4>5 DEF Named
    <3> QED BY <3>2, <3>3
  <2>13. InodesNamed'
    BY <1>3, <2>5, <2>12 DEF InodesNamed, StateSound, OwnSound
  <2>14. NewFileEmpty'
    BY <2>4, <2>5 DEF NewFileEmpty, Creating
  <2> QED BY <1>1, <2>4, <2>5, <2>11, <2>13, <2>14 DEF Reached
<1> QED BY <1>2, <1>3

\* A pointer that a copy gains leads to a new block, and those it has remain.
LEMMA NewBlocksGrow ==
  ASSUME pc \in {"wdBlock", "wrBlock"}, pc' = pc, loc'.orig = loc.orig, NEW node, loc'.node = node,
         \A k \in 0 .. NDirect - 1 :
           loc.node.direct[k] # 0 => node.direct[k] = loc.node.direct[k]
  PROVE  /\ NewBlocks \subseteq NewBlocks'
         /\ \A k \in 0 .. NDirect - 1 :
              loc.orig.direct[k] = 0 /\ node.direct[k] # 0 => node.direct[k] \in NewBlocks'
<1>1. \A k \in 0 .. NDirect - 1 :
        loc.orig.direct[k] = 0 /\ node.direct[k] # 0 => node.direct[k] \in NewBlocks'
  BY DEF NewBlocks
<1>2. ASSUME NEW b \in NewBlocks  PROVE b \in NewBlocks'
  <2>1. PICK k \in 0 .. NDirect - 1 :
          loc.orig.direct[k] = 0 /\ loc.node.direct[k] # 0 /\ b = loc.node.direct[k]
    BY DEF NewBlocks
  <2> QED BY <1>1, <2>1
<1> QED BY <1>1, <1>2

\* A block that is allocated while a copy is extended, freed again with the others.
LEMMA GivenBack ==
  ASSUME TreeSound, pc \in {"wdBlock", "wrBlock"}, NEW used, NEW b, NEW copy,
         NEW at \in 0 .. NDirect - 1,
         used = mem.bmap \/ (used = mem.bmap \cup {b} /\ loc.node.direct[at] = 0 /\ b # 0
                               /\ copy.direct[at] = b),
         \A k \in 0 .. NDirect - 1 :
           loc.node.direct[k] # 0 => copy.direct[k] = loc.node.direct[k]
  PROVE  GivesBack(used, copy)
<1>1. SUFFICES ASSUME NEW c \in used, c \in NewBlocks \/ c \notin mem.bmap
               PROVE  \E j \in 0 .. NDirect - 1 : loc.orig.direct[j] = 0 /\ copy.direct[j] # 0
                                                  /\ c = copy.direct[j]
  BY DEF GivesBack
<1>2. CASE c \in NewBlocks
  <2>1. PICK k \in 0 .. NDirect - 1 :
          loc.orig.direct[k] = 0 /\ loc.node.direct[k] # 0 /\ c = loc.node.direct[k]
    BY <1>2 DEF NewBlocks
  <2> QED BY <2>1
<1>3. CASE c \notin mem.bmap
  <2>1. c = b /\ loc.node.direct[at] = 0 /\ b # 0 /\ copy.direct[at] = b
    BY <1>1, <1>3
  <2>2. loc.orig.direct[at] = itab[Target].direct[at]
        /\ (itab[Target].direct[at] # 0 => loc.node.direct[at] = itab[Target].direct[at])
    BY DEF TreeSound, CopySound
  <2> QED BY <2>1, <2>2
<1> QED BY <1>1, <1>2, <1>3

LEMMA WriteDirBlockReached ==
  ASSUME Plain, StateSound, NEW ok, WriteDirBlock(ok)
  PROVE  /\ Reached' /\ UNCHANGED itab
         /\ \/ Live' = Live
            \/ Creating /\ Live' = Live \ {loc.ino}
         /\ pc' \in {"wdBlock", "idle"}
<1> DEFINE old == GetBlock(loc.node, loc.k)
<1> DEFINE b == IF old = 0 THEN FreeBlockNo(mem) ELSE old
<1> DEFINE m == IF old = 0 THEN AllocateBlock(mem) ELSE mem
<1> DEFINE node == SetBlock(loc.node, loc.k, b)
<1>0. IInv /\ TreeSound /\ Careful
  BY DEF StateSound, Plain
<1>1. /\ pc = "wdBlock" /\ loc.k * PerBlock < Len(loc.ents) /\ UNCHANGED <<itab, fdt>>
      /\ loc \in CallTypes /\ mem \in Allocator
  BY <1>0 DEF WriteDirBlock, IInv, Typed
<1>2. /\ loc.k \in 0 .. NDirect - 1 /\ old = loc.node.direct[loc.k] /\ loc.node \in Copies
      /\ Target \in Live
  <2>1. Target \in Live
    BY <1>0, <1>1 DEF TreeSound, CopySound
  <2> QED BY <1>0, <1>1, <2>1, DirBlockFits DEF CallTypes
<1>3. /\ m.imap = mem.imap /\ m \in Allocator
      /\ b = None => m = mem
      /\ b # None => b \in Block /\ b # 0 /\ (b = loc.node.direct[loc.k] \/ b \notin mem.bmap)
      /\ m.bmap = mem.bmap \/ (m.bmap = mem.bmap \cup {b} /\ old = 0 /\ b # None)
  <2>1. old # 0 => old \in Block /\ old \in mem.bmap
    BY <1>0, <1>1, <1>2, CopyBlocks
  <2>2. 0 \in mem.bmap
    BY <1>0 DEF TreeSound, BlocksSound
  <2>3. old # 0 => b # None
    BY <2>1 DEF None, Block
  <2> QED BY <1>1, <1>2, <2>1, <2>2, <2>3, AllocateBlockIs, AllocateBlockKeeps
<1>4. \A k \in 0 .. NDirect - 1 :
        /\ loc.node.direct[k] # 0 => node.direct[k] = loc.node.direct[k]
        /\ k = loc.k => node.direct[k] = b
  BY <1>2 DEF SetBlock, Copies, Pointers
<1> HIDE DEF old, b, m, node
<1>5. ASSUME Creating, NEW n \in Allocator, n.imap = mem.imap, NEW copy,
             Fail(Rollback(n, loc.orig, copy)), UNCHANGED blk,
             GivesBack(n.bmap, copy)
      PROVE  Reached' /\ Live' = Live \ {loc.ino} /\ pc' = "idle"
  <2>1. pc' = "idle"
    BY <1>5 DEF Fail, Return
  <2> QED BY <1>1, <1>5, <2>1, GivenBackReached
<1>6. ASSUME Creating, b = None, Fail(Rollback(mem, loc.orig, loc.node)), UNCHANGED blk
      PROVE  Reached' /\ Live' = Live \ {loc.ino} /\ pc' = "idle"
  <2>1. GivesBack(mem.bmap, loc.node)
    BY <1>1 DEF NewBlocks, GivesBack
  <2> QED BY <1>1, <1>5, <1>6, <2>1
<1>7. ASSUME Creating, b # None, Fail(Rollback(m, loc.orig, node)), UNCHANGED blk
      PROVE  Reached' /\ Live' = Live \ {loc.ino} /\ pc' = "idle"
  <2>1. GivesBack(m.bmap, node)
    <3>1. m.bmap = mem.bmap \/ (m.bmap = mem.bmap \cup {b} /\ loc.node.direct[loc.k] = 0 /\ b # 0
                               /\ node.direct[loc.k] = b)
      BY <1>2, <1>3, <1>4
    <3>2. TreeSound /\ pc \in {"wdBlock", "wrBlock"} /\ loc.k \in 0 .. NDirect - 1
          /\ \A k \in 0 .. NDirect - 1 :
               loc.node.direct[k] # 0 => node.direct[k] = loc.node.direct[k]
      BY <1>0, <1>1, <1>2, <1>4
    <3> QED BY <3>1, <3>2, GivenBack
  <2> QED BY <1>3, <1>5, <1>7, <2>1
<1>8. ASSUME b # None, mem' = m, blk' = [blk EXCEPT ![b] = DirBlock(Chunk)],
             pc' = "wdBlock", loc' = [loc EXCEPT !.node = node, !.k = @ + 1]
      PROVE  Reached' /\ Live' = Live
  <2>1. /\ loc'.node = node /\ loc'.orig = loc.orig /\ loc'.ino = loc.ino /\ loc'.op = loc.op
        /\ loc'.dir = loc.dir /\ loc'.ents = loc.ents
    BY <1>1, <1>8 DEF CallTypes
  <2>2. \A d \in LiveDirs : Entries(d)' = Entries(d)
    BY <1>0, <1>1, <1>3, <1>8, <2>1, DirBlockLeaves
  <2>3. Live' = Live /\ (Creating' <=> Creating)
    BY <1>1, <1>3, <1>8, <2>1 DEF Live, Removing, Creating
  <2>4. NewBlocks \subseteq NewBlocks'
        /\ (loc.orig.direct[loc.k] = 0 => b \in NewBlocks')
    BY <1>1, <1>2, <1>3, <1>4, <1>8, <2>1, NewBlocksGrow
  <2>5. old = 0 => b \in NewBlocks'
    BY <1>0, <1>1, <1>2, <2>4 DEF TreeSound, CopySound
  <2>6. \A i : InodeBlocks(i)' = InodeBlocks(i)
    BY <1>1 DEF InodeBlocks
  <2>7. BlocksOwned'
    BY <1>3, <1>8, <2>3, <2>4, <2>5, <2>6, OwnedFrame DEF StateSound, OwnSound
  <2>8. InodesNamed'
    <3>1. \A i : Named(i)' = Named(i)
      BY <2>2, FormatDirs, NamedSame
    <3> QED BY <2>1, <2>3, <3>1 DEF InodesNamed, StateSound, OwnSound
  <2>9. NewFileEmpty'
    BY <1>1, <2>1, <2>3 DEF NewFileEmpty, StateSound, OwnSound
  <2> QED BY <2>3, <2>7, <2>8, <2>9 DEF Reached
<1>9. CASE loc.op = "unlink"
  <2>1. /\ "unlink" \in Calls /\ loc.orig.direct[loc.k] # 0
        /\ loc.orig.direct = itab[Target].direct
    BY <1>0, <1>1, <1>2, <1>9 DEF TreeSound, RemovalSound, Removing, CopySound
  <2>2. ok
    BY <1>0, <2>1 DEF Careful, WriteDirBlock, Outcome
  <2>3. old # 0
    BY <1>0, <1>1, <1>2, <2>1 DEF TreeSound, CopySound
  <2>4. b # None
    <3>1. old \in Block
      BY <1>2, PointersTyped DEF Copies, Pointers
    <3> QED BY <2>3, <3>1 DEF b, None, Block
  <2> QED BY <1>1, <1>8, <2>2, <2>4 DEF WriteDirBlock, Goto, old, b, m, node
<1>10. CASE loc.op # "unlink"
  <2>1. Creating
    BY <1>1, <1>10 DEF Creating
  <2> QED BY <1>1, <1>6, <1>7, <1>8, <2>1 DEF WriteDirBlock, Goto, old, b, m, node
<1> QED BY <1>9, <1>10

\* What a step leaves of these inodes.
SameInodes(S) ==
  \A j \in S : itab'[j].mode = itab[j].mode /\ itab'[j].size = itab[j].size
               /\ itab'[j].direct = itab[j].direct

\* A copy that is written back brings the new blocks with it.
LEMMA WrittenBack ==
  ASSUME StateSound, pc \in {"wdBlock", "wrBlock"}, pc' \notin {"wdBlock", "wrBlock"},
         NEW t, t = Target, itab'[t].direct = loc.node.direct, SameInodes(Live \ {t}),
         mem'.bmap = mem.bmap, Live' = Live
  PROVE  BlocksOwned'
<1>1. /\ t \in Live
      /\ \A k \in 0 .. NDirect - 1 :
           /\ loc.orig.direct[k] = itab[t].direct[k]
           /\ itab[t].direct[k] # 0 => loc.node.direct[k] = itab[t].direct[k]
  BY DEF StateSound, TreeSound, CopySound
<1>2. \A k \in 0 .. NDirect - 1 : loc.node.direct[k] # 0 => loc.node.direct[k] \in InodeBlocks(t)'
  BY DEF InodeBlocks
<1>3. ASSUME NEW b \in NewBlocks \cup InodeBlocks(t)  PROVE b \in InodeBlocks(t)'
  <2>1. PICK k \in 0 .. NDirect - 1 : loc.node.direct[k] # 0 /\ b = loc.node.direct[k]
    BY <1>1 DEF NewBlocks, InodeBlocks
  <2> QED BY <1>2, <2>1
<1>4. \A j \in Live \ {t} : InodeBlocks(j)' = InodeBlocks(j)
  BY DEF InodeBlocks, SameInodes
<1>5. \A b \in NewBlocks \cap mem'.bmap :
        b = 0 \/ b \in NewBlocks' \/ \E j \in Live' : b \in InodeBlocks(j)'
  BY <1>1, <1>3
<1>6. \A i \in Live : \A b \in InodeBlocks(i) \cap mem'.bmap :
        b = 0 \/ \E j \in Live' : b \in InodeBlocks(j)'
  BY <1>1, <1>3, <1>4
<1> QED BY <1>5, <1>6, OwnedFrame DEF StateSound, OwnSound

LEMMA WriteDirInodeReached ==
  ASSUME Plain, StateSound, NEW ok, WriteDirInode(ok)
  PROVE  /\ Reached' /\ SameInodes(Live \ {Root, Tmp})
         /\ \/ Live' = Live
            \/ Creating /\ Live' = Live \ {loc.ino}
         /\ pc' \in {"created", "idle"}
         /\ pc' = "created" => loc' = loc /\ Creating
<1>0. PICK x, par, t : x = loc.ino /\ par = loc.par /\ t = loc.dir
  OBVIOUS
<1>1. /\ pc = "wdBlock" /\ loc.k * PerBlock >= Len(loc.ents) /\ UNCHANGED <<blk, fdt>>
      /\ loc \in CallTypes /\ mem \in Allocator /\ x \in Inode /\ IInv /\ TreeSound /\ Careful
      /\ Creating <=> loc.op # "unlink"
      /\ Removing <=> loc.op = "unlink"
  BY <1>0 DEF WriteDirInode, StateSound, IInv, Typed, CallSound, Plain, Creating, Removing
<1>2. /\ t = par /\ Target = t /\ t \in {Root, Tmp} /\ t \in Live /\ t \in Inode \ {0}
      /\ Creating => loc.op = "open" /\ loc.ents = Append(ReadDirectory(par), Rec(Last(loc.path), x))
                     /\ loc.path \in FilePaths
  <2>1. Target = t /\ t \in Live /\ t \in Inode
    BY <1>0, <1>1, LiveInodes DEF TreeSound, CopySound, Target
  <2>2. Creating => loc.op = "open"
    BY <1>1, OpenCreates
  <2>3. Creating => t = par /\ IsDir(par) /\ loc.path \in FilePaths
                    /\ loc.ents = Append(ReadDirectory(par), Rec(Last(loc.path), x))
    BY <1>0, <1>1, <2>2 DEF TreeSound, CreationSound
  <2>4. Removing => t = par /\ IsDir(par)
    BY <1>0, <1>1 DEF TreeSound, RemovalSound, LiveDirs
  <2>5. t = par /\ IsDir(t)
    BY <1>1, <2>3, <2>4
  <2>6. t \in {Root, Tmp}
    BY <2>1, <2>5, FormatDirs
  <2> QED BY <2>1, <2>2, <2>3, <2>5, <2>6 DEF Root, Tmp
<1>3. CASE ~ok
  <2>1. Fail(Rollback(mem, loc.orig, loc.node)) /\ UNCHANGED itab /\ "io" \in Faults
    BY <1>3 DEF WriteDirInode, Outcome
  <2>2. Creating
    BY <1>1, <2>1 DEF TreeSound, RemovalSound, Careful
  <2>3. GivesBack(mem.bmap, loc.node)
    BY <1>1 DEF NewBlocks, GivesBack
  <2>4. pc' = "idle" /\ SameInodes(Live \ {Root, Tmp})
    BY <2>1 DEF Fail, Return, SameInodes
  <2> QED BY <1>1, <2>1, <2>2, <2>3, <2>4, GivenBackReached
<1>4. CASE ok
  <2> DEFINE node == [loc.node EXCEPT !.size = Len(loc.ents)]
  <2>1. /\ WriteInode(t, node)
        /\ mem' = IF loc.op = "unlink" THEN FreeInode(mem, x) ELSE mem
        /\ \/ loc.op = "open" /\ pc' = "created" /\ loc' = loc
           \/ loc.op = "unlink" /\ pc' = "idle" /\ loc'.op = "none"
    <3>1. loc.op = "open" \/ loc.op = "unlink"
      BY <1>1, <1>2
    <3> QED BY <1>0, <1>4, <3>1 DEF WriteDirInode, Goto, Return, NoCall
  <2>2. mem'.bmap = mem.bmap
        /\ mem'.imap = IF loc.op = "unlink" THEN mem.imap \ {x} ELSE mem.imap
    BY <1>1, <2>1, FreeInodeIs
  <2>3. Live' = Live
    BY <1>0, <1>1, <2>1, <2>2 DEF Live, Removing
  <2>4. /\ Entries(t)' = loc.ents /\ NewBlocks' = {}
        /\ \A d \in Inode \ {t} : Entries(d)' = Entries(d)
    BY <1>0, <1>1, <2>1, <2>2, <2>3, DirInodeLeaves
  <2>5. /\ node.direct = loc.node.direct /\ node \in Copies
        /\ HasNeighbour(t) /\ node.tail = "dir" => itab[t + 1].mode = "dir"
    <3>1. loc.node \in Copies /\ Len(loc.ents) \in Nat
      BY <1>1 DEF CallTypes
    <3>2. node \in Copies /\ node.direct = loc.node.direct /\ node.tail = loc.node.tail
      BY <3>1 DEF Copies
    <3> HIDE DEF node
    <3> QED BY <1>1, <1>2, <3>2 DEF TreeSound, CopySound
  <2> HIDE DEF node
  <2>6. SameInodes(Live \ {t})
    <3>1. Live \subseteq Written
      BY FormatDirs
    <3> QED BY <1>1, <1>2, <2>1, <2>5, <3>1, NeighbourKept DEF SameInodes, StateSound
  <2>7. itab'[t].direct = loc.node.direct
    BY <1>1, <1>2, <2>1, <2>5, WriteInodeIs DEF IInv
  <2>8. BlocksOwned'
    BY <1>1, <1>2, <2>1, <2>2, <2>3, <2>6, <2>7, WrittenBack
  <2>9. NewFileEmpty'
    BY <2>1 DEF NewFileEmpty, Creating
  <2>10. CASE loc.op = "unlink"
    <3>1. Entries(t) = loc.ents
      BY <1>0, <1>1, <2>10 DEF Entries, Shifting
    <3>2. \A i : Named(i)' = Named(i)
      BY <1>2, <2>4, <3>1, FormatDirs, NamedSame
    <3>3. InodesNamed'
      BY <1>1, <2>3, <2>10, <3>2 DEF InodesNamed, StateSound, OwnSound
    <3> QED BY <1>2, <2>1, <2>3, <2>6, <2>8, <2>9, <2>10, <3>3 DEF Reached, SameInodes
  <2>11. CASE loc.op # "unlink"
    <3> DEFINE name == Last(loc.path)
    <3> DEFINE es == ReadDirectory(t)
    <3>1. /\ Entries(t) = es /\ Entries(t)' = Append(es, Rec(name, x))
          /\ es \in Seq(SoundRecs) /\ name \notin Dots /\ Creating /\ ~Creating'
      <4>1. Entries(t) = es
        BY <2>11 DEF Entries, Shifting
      <4>2. es \in Seq(SoundRecs)
        BY <1>1, <1>2, ReadDirectoryTyped DEF IInv
      <4>3. name \notin Dots
        <5>1. loc.path # <<>> /\ loc.path \in FilePaths
          BY <1>1, <1>2, <2>11 DEF IInv, CallSound
        <5> QED BY <1>1, <5>1, LastNames
      <4> QED BY <1>1, <1>2, <2>1, <2>4, <2>11, <4>1, <4>2, <4>3 DEF Creating
    <3> HIDE DEF name
    <3>2. /\ \A k \in DOMAIN Entries(t) : k \in DOMAIN Entries(t)'
                                         /\ Entries(t)'[k] = Entries(t)[k]
          /\ \E k \in DOMAIN Entries(t)' : Entries(t)'[k] = Rec(name, x)
      <4> HIDE DEF es
      <4>1. PICK n : n = Len(es) + 1
        OBVIOUS
      <4>2. n \in DOMAIN Entries(t)' /\ Entries(t)'[n] = Rec(name, x)
        BY <3>1, <4>1
      <4>3. ASSUME NEW k \in DOMAIN Entries(t)
            PROVE  k \in DOMAIN Entries(t)' /\ Entries(t)'[k] = Entries(t)[k]
        BY <3>1, <4>3
      <4> QED BY <4>2, <4>3
    <3>3. ASSUME NEW i, Named(i)  PROVE Named(i)'
      <4>1. PICK d \in {Root, Tmp} : \E k \in DOMAIN Entries(d) : NamedBy(d, k, i)
        BY <3>3 DEF Named
      <4>2. PICK k \in DOMAIN Entries(d) : NamedBy(d, k, i)
        BY <4>1
      <4>3. k \in DOMAIN Entries(d)' /\ Entries(d)'[k] = Entries(d)[k]
        BY <2>4, <3>2, FormatDirs
      <4>4. NamedBy(d, k, i)'
        BY <4>2, <4>3 DEF NamedBy
      <4> QED BY <4>3, <4>4 DEF Named
    <3>4. Named(x)'
      <4>1. PICK k \in DOMAIN Entries(t)' : Entries(t)'[k] = Rec(name, x)
        BY <3>2
      <4>2. NamedBy(t, k, x)'
        BY <3>1, <4>1 DEF NamedBy, Rec
      <4> QED BY <1>2, <4>1, <4>2 DEF Named
    <3>5. InodesNamed'
      BY <1>0, <2>3, <3>1, <3>3, <3>4 DEF InodesNamed, StateSound, OwnSound
    <3> QED BY <1>2, <2>1, <2>3, <2>6, <2>8, <2>9, <2>11, <3>1, <3>5 DEF Reached, SameInodes
  <2> QED BY <2>10, <2>11
<1> QED BY <1>3, <1>4

\* Steps of reads and writes leave the directories of format alone.
LEMMA RestOwned ==
  ASSUME StateSound, pc \notin TreeSteps, pc' \notin TreeSteps, mem'.imap = mem.imap,
         SameInodes({Root, Tmp}),
         \A d \in {Root, Tmp} : \A k \in 0 .. NDirect - 1 : itab[d].direct[k] # 0 =>
           blk[itab[d].direct[k]].ents = blk'[itab[d].direct[k]].ents,
         BlocksOwned'
  PROVE  Reached' /\ Live' = Live
<1>1. Live' = Live
  BY DEF Live, Removing, TreeSteps
<1>2. ASSUME NEW d \in {Root, Tmp}  PROVE Entries(d)' = Entries(d)
  <2> DEFINE slot == itab[d]
  <2> DEFINE new == itab'[d]
  <2> DEFINE C == blk'
  <2>1. new.direct = slot.direct /\ new.size = slot.size
    BY DEF SameInodes
  <2>2. \A k \in 0 .. NDirect - 1 : slot.direct[k] # 0 =>
          blk[slot.direct[k]].ents = C[slot.direct[k]].ents
    OBVIOUS
  <2> HIDE DEF slot, new, C
  <2>3. DirectoryOf(new, C) = DirectoryOf(slot, blk)
    BY <2>1, <2>2, SameDirectory
  <2>4. ReadDirectory(d)' = ReadDirectory(d)
    BY <2>3 DEF slot, new, C, ReadDirectory
  <2>5. ~Shifting(d) /\ ~Shifting(d)'
    BY DEF Shifting, TreeSteps
  <2> QED BY <2>4, <2>5 DEF Entries
<1>3. ~Creating /\ ~Creating'
  BY DEF Creating, TreeSteps
<1>4. InodesNamed'
  BY <1>1, <1>2, <1>3, NamedSame DEF InodesNamed, StateSound, OwnSound
<1> QED BY <1>1, <1>3, <1>4 DEF Reached, NewFileEmpty

\* A file without gaps has all its blocks before the first 0 pointer.
LEMMA ChainHolds ==
  ASSUME NEW node, NEW n \in Nat, \A k \in 0 .. NDirect - 1 : node.direct[k] # 0 <=> k < n
  PROVE  \A k \in 0 .. NDirect - 1 : node.direct[k] # 0 => node.direct[k] \in ChainBlocks(node)
<1>1. SUFFICES ASSUME NEW k \in 0 .. NDirect - 1, node.direct[k] # 0
               PROVE  node.direct[k] \in ChainBlocks(node)
  OBVIOUS
<1>2. \A h \in 0 .. NDirect - 1 : GetBlock(node, h) = node.direct[h]
  BY DiskFSAssumption DEF GetBlock
<1>3. ASSUME NEW h \in 0 .. k  PROVE GetBlock(node, h) # 0
  <2>1. h \in 0 .. NDirect - 1 /\ h < n
    BY <1>1, DiskFSAssumption
  <2> QED BY <1>2, <2>1
<1>4. k \in 0 .. NDirect + 2
  BY DiskFSAssumption
<1> QED BY <1>2, <1>3, <1>4 DEF ChainBlocks

\* The inode a call was made for is a file.
LEMMA FileAlone ==
  ASSUME StateSound, NEW i \in Live, ~IsDir(i)
  PROVE  i \in Inode \ {Root, Tmp} /\ i \in Written /\ itab[i].size \in Nat
         /\ ("io" \notin Faults =>
               \A k \in 0 .. NDirect - 1 : itab[i].direct[k] # 0 <=> k < itab[i].size)
<1>1. i \in Written /\ i \in Inode /\ i \notin {Root, Tmp}
  BY FormatDirs, LiveInodes DEF StateSound
<1>2. itab[i].size \in Nat
  BY <1>1, WrittenIs DEF StateSound
<1> QED BY <1>1, <1>2 DEF StateSound, OwnSound, FilesFilled

LEMMA TruncateReached ==
  ASSUME Plain, StateSound, NEW ok, Truncate(ok)
  PROVE  /\ Reached' /\ Live' = Live /\ "io" \notin Faults /\ "T" \in loc.flags
         /\ SameInodes(Live \ {loc.ino}) /\ pc' = "truncated" /\ loc'.ino = loc.ino
         /\ itab'[loc.ino].size = 0 /\ loc'.node.size = 0
         /\ \A k \in 0 .. NDirect - 1 : itab'[loc.ino].direct[k] = 0
<1>0. PICK i : i = loc.ino
  OBVIOUS
<1>1. /\ pc = "opened" /\ i \in Live /\ ~IsDir(i) /\ Target = i /\ IInv /\ TreeSound
      /\ UNCHANGED <<blk, fdt>> /\ mem \in Allocator /\ loc \in CallTypes
      /\ mem' = FreeBlocks(mem, ChainBlocks(loc.node))
      /\ loc.node.direct = itab[i].direct
  BY <1>0 DEF Truncate, StateSound, TreeSound, FilesSound, CopySound, Target, IInv, Typed
<1>2. "io" \notin Faults /\ ok /\ "T" \in loc.flags
  <2>1. loc.flags \in Flags /\ Truncates
    BY <1>1 DEF Truncate, TreeSound, FilesSound
  <2> QED BY <2>1 DEF Plain, Careful, Truncates, Truncate, Outcome
<1>3. /\ i \in Inode \ {Root, Tmp, 0} /\ itab[i].size \in Nat
      /\ \A k \in 0 .. NDirect - 1 : itab[i].direct[k] # 0 <=> k < itab[i].size
  BY <1>0, <1>1, <1>2, FileAlone DEF StateSound, FormatKept
<1> DEFINE node == [FreshInode(loc.node.mode) EXCEPT !.tail = loc.node.tail]
<1>4. WriteInode(i, node) /\ pc' = "truncated" /\ loc' = [loc EXCEPT !.node = node]
  BY <1>0, <1>2 DEF Truncate, Goto
<1>5. /\ node.mode = loc.node.mode /\ node.tail = loc.node.tail /\ node \in Copies
      /\ node.size = 0 /\ \A k \in 0 .. NDirect - 1 : node.direct[k] = 0
  <2>1. loc.node \in Copies /\ 0 \in Block
    BY <1>1, SizeAssumption, DiskFSAssumption DEF CallTypes, Block
  <2> QED BY <2>1 DEF FreshInode, Copies, Pointers
<1> HIDE DEF node
<1>6. HasNeighbour(i) /\ node.tail = "dir" => itab[i + 1].mode = "dir"
  BY <1>1, <1>5 DEF TreeSound, CopySound
<1>7. SameInodes(Live \ {i})
  BY <1>3, <1>4, <1>5, <1>6, FormatDirs, NeighbourKept DEF StateSound, SameInodes
<1>8. itab'[i].size = 0 /\ itab'[i].direct = node.direct
  BY <1>1, <1>3, <1>4, <1>5, WriteInodeIs DEF IInv
<1>9. loc'.node = node /\ loc'.ino = i
  BY <1>0, <1>1, <1>4 DEF CallTypes
<1>10. mem'.imap = mem.imap /\ mem'.bmap = mem.bmap \ ChainBlocks(loc.node)
  BY <1>1, FreeBlocksIs
<1>11. Live' = Live
  BY <1>1, <1>4, <1>10 DEF Live, Removing
<1>12. BlocksOwned'
  <2>1. ASSUME NEW c \in InodeBlocks(i)  PROVE c \in ChainBlocks(loc.node)
    <3>1. PICK k \in 0 .. NDirect - 1 : c = itab[i].direct[k] /\ c # 0
      BY DEF InodeBlocks
    <3>2. \A h \in 0 .. NDirect - 1 : loc.node.direct[h] # 0 <=> h < itab[i].size
      BY <1>1, <1>3
    <3>3. loc.node.direct[k] \in ChainBlocks(loc.node)
      BY <1>1, <1>3, <3>1, <3>2, ChainHolds
    <3> QED BY <1>1, <3>1, <3>3
  <2>2. NewBlocks = {}
    BY <1>1 DEF NewBlocks
  <2>3. \A j \in Live \ {i} : InodeBlocks(j)' = InodeBlocks(j)
    BY <1>7 DEF InodeBlocks, SameInodes
  <2>4. \A j \in Live : \A b \in InodeBlocks(j) \cap mem'.bmap :
          b = 0 \/ \E h \in Live' : b \in InodeBlocks(h)'
    BY <1>10, <1>11, <2>1, <2>3
  <2> QED BY <1>10, <2>2, <2>4, OwnedFrame DEF StateSound, OwnSound
<1>13. SameInodes({Root, Tmp})
  BY <1>3, <1>7, FormatDirs DEF SameInodes
<1>14. Reached'
  <2>1. pc \notin TreeSteps /\ pc' \notin TreeSteps /\ UNCHANGED blk
    BY <1>1, <1>4 DEF TreeSteps
  <2> QED BY <1>10, <1>12, <1>13, <2>1, RestOwned
<1> QED BY <1>0, <1>2, <1>4, <1>5, <1>7, <1>8, <1>9, <1>11, <1>14

\* The blocks of a file are freed before its record is removed.
LEMMA UnlinkReached ==
  ASSUME Plain, StateSound, NEW p \in FilePaths, Unlink(p)
  PROVE  /\ Reached' /\ UNCHANGED itab /\ pc' = "entry"
         /\ Live' \subseteq Live
<1>0. PICK i : i = Resolve(p)
  OBVIOUS
<1>1. /\ pc = "idle" /\ pc' = "entry" /\ UNCHANGED <<itab, blk, fdt>> /\ i # None
      /\ mem' = FreeBlocks(mem, ChainBlocks(ReadInode(i))) /\ loc'.ino = i /\ loc'.op = "unlink"
      /\ mem \in Allocator /\ "unlink" \in Calls /\ IInv /\ TreeSound
  BY <1>0 DEF Unlink, Begin, Goto, NoCall, StateSound, IInv, Typed
<1>2. "io" \notin Faults
  BY <1>1 DEF Plain, Careful
<1>3. i \in Live /\ ~IsDir(i)
  <2>1. p # <<>> /\ Last(p) \in FileNames
    BY DEF Plain, Careful, FileNames
  <2> QED BY <1>0, <1>1, <2>1, ResolveLive DEF Plain
<1>4. mem'.imap = mem.imap /\ mem'.bmap = mem.bmap \ ChainBlocks(ReadInode(i))
  BY <1>1, FreeBlocksIs
<1>5. Live' = Live \ {i} /\ NewBlocks = {} /\ ~Creating /\ ~Creating'
  BY <1>1, <1>4 DEF Live, Removing, NewBlocks, Creating
<1>6. \A j : InodeBlocks(j)' = InodeBlocks(j) /\ Entries(j)' = Entries(j)
  BY <1>1 DEF InodeBlocks, Entries, ReadDirectory, Shifting
<1>7. BlocksOwned'
  <2>1. ASSUME NEW c \in InodeBlocks(i)  PROVE c \notin mem'.bmap
    <3>1. PICK k \in 0 .. NDirect - 1 : c = itab[i].direct[k] /\ c # 0
      BY DEF InodeBlocks
    <3>2. /\ itab[i].size \in Nat
          /\ \A h \in 0 .. NDirect - 1 : ReadInode(i).direct[h] # 0 <=> h < itab[i].size
      BY <1>2, <1>3, FileAlone DEF ReadInode
    <3>3. ReadInode(i).direct[k] = c
      BY <3>1 DEF ReadInode
    <3>4. ReadInode(i).direct[k] \in ChainBlocks(ReadInode(i))
      BY <3>1, <3>2, <3>3, ChainHolds
    <3> QED BY <1>4, <3>3, <3>4
  <2> QED BY <1>4, <1>5, <1>6, <2>1, OwnedFrame DEF StateSound, OwnSound
<1>8. InodesNamed'
  BY <1>5, <1>6, NamedSame DEF InodesNamed, StateSound, OwnSound
<1> QED BY <1>1, <1>5, <1>7, <1>8 DEF Reached, NewFileEmpty

\* A write that fails gives its blocks back.
LEMMA WriteFails ==
  ASSUME StateSound, pc = "wrBlock", NEW m \in Allocator, NEW copy, m.imap = mem.imap,
         GivesBack(m.bmap, copy), mem' = Rollback(m, loc.orig, copy), Return,
         UNCHANGED <<itab, blk>>
  PROVE  Reached' /\ Live' = Live /\ pc' = "idle"
<1>1. pc' = "idle" /\ NewBlocks' = {}
  BY DEF Return, NewBlocks
<1>2. mem'.imap = mem.imap /\ \A c \in mem'.bmap : c \in mem.bmap \ NewBlocks
  <2>1. mem'.imap = mem.imap
        /\ mem'.bmap = m.bmap \ {copy.direct[k] : k \in {j \in 0 .. NDirect - 1 :
                                   loc.orig.direct[j] = 0 /\ copy.direct[j] # 0}}
    BY RollbackIs
  <2> QED BY <2>1 DEF GivesBack
<1>3. \A j : InodeBlocks(j)' = InodeBlocks(j)
  BY DEF InodeBlocks
<1>4. Live' = Live
  BY <1>1, <1>2 DEF Live, Removing
<1>5. BlocksOwned'
  BY <1>1, <1>2, <1>3, <1>4, OwnedFrame DEF StateSound, OwnSound
<1>6. pc \notin TreeSteps /\ pc' \notin TreeSteps
  BY <1>1 DEF TreeSteps
<1>7. SameInodes({Root, Tmp})
  BY DEF SameInodes
<1> QED BY <1>1, <1>2, <1>4, <1>5, <1>6, <1>7, RestOwned

LEMMA WriteBlockReached ==
  ASSUME Plain, StateSound, NEW ok, WriteBlock(ok)
  PROVE  /\ Reached' /\ Live' = Live /\ UNCHANGED <<itab, fdt>>
         /\ \/ pc' = "idle"
            \/ /\ pc' = "wrBlock" /\ loc'.ino = loc.ino /\ loc'.k = loc.k + 1 /\ loc.k \in Nat
               /\ loc'.node.size = loc.node.size
               /\ \A h \in 0 .. NDirect - 1 :
                    loc'.node.direct[h] # 0 <=> (loc.node.direct[h] # 0 \/ h = loc.k)
<1>0. PICK i : i = loc.ino
  OBVIOUS
<1> DEFINE old == GetBlock(loc.node, loc.k)
<1> DEFINE b == IF old = 0 THEN FreeBlockNo(mem) ELSE old
<1> DEFINE m == IF old = 0 THEN AllocateBlock(mem) ELSE mem
<1> DEFINE node == IF old = 0 THEN SetBlock(loc.node, loc.k, b) ELSE loc.node
<1>1. /\ pc = "wrBlock" /\ Target = i /\ UNCHANGED <<itab, fdt>> /\ mem \in Allocator
      /\ loc \in CallTypes /\ loc.node \in Copies /\ IInv /\ TreeSound
      /\ loc.k \in 0 .. NDirect - 1 /\ loc.k < NDirect /\ loc.k \in Nat
      /\ i \in Live /\ ~IsDir(i)
  <2>1. IInv /\ TreeSound /\ MaxOffset < NDirect
    BY DEF StateSound, Plain, Careful
  <2>2. pc = "wrBlock" /\ loc.left > 0 /\ loc.k \in Nat /\ loc.left \in Nat
    BY <2>1 DEF WriteBlock, IInv, Typed, CallTypes
  <2>3. loc.ino = fdt[loc.fd].ino /\ loc.k + loc.left <= MaxOffset
    BY <2>1, <2>2 DEF TreeSound, FilesSound
  <2>4. i \in Live /\ ~IsDir(i)
    BY <1>0, <2>1, <2>2, <2>3 DEF TreeSound, FilesSound, IInv, CallSound
  <2>5. loc.k \in 0 .. NDirect - 1 /\ loc.k < NDirect
    BY <2>1, <2>2, <2>3, DiskFSAssumption
  <2> QED BY <1>0, <2>1, <2>2, <2>4, <2>5 DEF Target, WriteBlock, IInv, Typed, CallTypes
<1>2. old = loc.node.direct[loc.k]
  BY <1>1 DEF GetBlock
<1>3. /\ m.imap = mem.imap /\ m \in Allocator
      /\ b = None => m = mem
      /\ b # None => b \in Block /\ b # 0 /\ (b = loc.node.direct[loc.k] \/ b \notin mem.bmap)
      /\ m.bmap = mem.bmap \/ (m.bmap = mem.bmap \cup {b} /\ old = 0 /\ b # None)
  <2>1. old # 0 => old \in Block /\ old \in mem.bmap
    BY <1>1, <1>2, CopyBlocks
  <2>2. 0 \in mem.bmap
    BY <1>1 DEF TreeSound, BlocksSound
  <2>3. old # 0 => b # None
    BY <2>1 DEF None, Block
  <2> QED BY <1>1, <1>2, <2>1, <2>2, <2>3, AllocateBlockIs, AllocateBlockKeeps
<1>4. /\ \A k \in 0 .. NDirect - 1 :
           /\ loc.node.direct[k] # 0 => node.direct[k] = loc.node.direct[k]
           /\ k = loc.k => node.direct[k] = b
           /\ k # loc.k => node.direct[k] = loc.node.direct[k]
      /\ node.size = loc.node.size
  BY <1>1, <1>2 DEF SetBlock, Copies, Pointers
<1>5. SameInodes({Root, Tmp})
  BY <1>1 DEF SameInodes
<1> HIDE DEF old, b, m, node
<1>6. ASSUME mem' = Rollback(mem, loc.orig, loc.node), Return, UNCHANGED blk
      PROVE  Reached' /\ Live' = Live /\ pc' = "idle"
  <2>1. GivesBack(mem.bmap, loc.node)
    BY <1>1 DEF NewBlocks, GivesBack
  <2> QED BY <1>1, <1>6, <2>1, WriteFails
<1>7. ASSUME b # None, mem' = Rollback(m, loc.orig, node), Return, UNCHANGED blk
      PROVE  Reached' /\ Live' = Live /\ pc' = "idle"
  <2>1. GivesBack(m.bmap, node)
    <3>1. m.bmap = mem.bmap \/ (m.bmap = mem.bmap \cup {b} /\ loc.node.direct[loc.k] = 0 /\ b # 0
                               /\ node.direct[loc.k] = b)
      BY <1>1, <1>2, <1>3, <1>4
    <3>2. TreeSound /\ pc \in {"wdBlock", "wrBlock"} /\ loc.k \in 0 .. NDirect - 1
          /\ \A k \in 0 .. NDirect - 1 :
               loc.node.direct[k] # 0 => node.direct[k] = loc.node.direct[k]
      BY <1>1, <1>4
    <3> QED BY <3>1, <3>2, GivenBack
  <2> QED BY <1>1, <1>3, <1>7, <2>1, WriteFails
<1>8. ASSUME b # None, mem' = m, blk' = [blk EXCEPT ![b] = DataBlock(loc.val)], pc' = "wrBlock",
             loc' = [loc EXCEPT !.node = node, !.k = @ + 1, !.left = @ - 1]
      PROVE  /\ Reached' /\ Live' = Live /\ pc' = "wrBlock" /\ loc'.ino = loc.ino
             /\ loc'.k = loc.k + 1 /\ loc'.node.size = loc.node.size
             /\ \A h \in 0 .. NDirect - 1 :
                  loc'.node.direct[h] # 0 <=> (loc.node.direct[h] # 0 \/ h = loc.k)
  <2>1. loc'.ino = loc.ino /\ loc'.node = node /\ loc'.orig = loc.orig /\ loc'.k = loc.k + 1
    BY <1>1, <1>8 DEF CallTypes
  <2>2. NewBlocks \subseteq NewBlocks'
        /\ (loc.orig.direct[loc.k] = 0 => b \in NewBlocks')
    BY <1>1, <1>3, <1>4, <1>8, <2>1, NewBlocksGrow
  <2>3. old = 0 => b \in NewBlocks'
    BY <1>1, <1>2, <2>2 DEF TreeSound, CopySound
  <2>4. \A j : InodeBlocks(j)' = InodeBlocks(j)
    BY <1>1 DEF InodeBlocks
  <2>5. Live' = Live
    BY <1>1, <1>3, <1>8 DEF Live, Removing
  <2>6. BlocksOwned'
    BY <1>3, <1>8, <2>2, <2>3, <2>4, <2>5, OwnedFrame DEF StateSound, OwnSound
  <2>7. \A d \in {Root, Tmp} : \A k \in 0 .. NDirect - 1 : itab[d].direct[k] # 0 =>
          blk[itab[d].direct[k]].ents = blk'[itab[d].direct[k]].ents
    <3>1. SUFFICES ASSUME NEW d \in {Root, Tmp}, NEW k \in 0 .. NDirect - 1,
                          NEW c, c = itab[d].direct[k], c # 0
                   PROVE  blk[c] = blk'[c]
      OBVIOUS
    <3>2. d \in Live /\ d # i /\ d \in Inode
      BY <1>1, FormatDirs
    <3>3. c \in InodeBlocks(d) /\ c \in Block
      BY <1>1, <3>1, <3>2, PointersTyped DEF InodeBlocks, IInv
    <3>4. c # b
      <4>1. CASE b \notin mem.bmap
        BY <1>1, <3>2, <3>3, <4>1 DEF TreeSound, BlocksSound
      <4>2. CASE b = loc.node.direct[loc.k]
        BY <1>1, <1>3, <1>8, <3>2, <3>3, <4>2, CopyBlocks
      <4> QED BY <1>3, <1>8, <4>1, <4>2
    <3> QED BY <1>1, <1>8, <3>3, <3>4 DEF IInv, Typed
  <2>8. Reached'
    <3>1. pc \notin TreeSteps /\ pc' \notin TreeSteps /\ mem'.imap = mem.imap
      BY <1>1, <1>3, <1>8 DEF TreeSteps
    <3> QED BY <1>5, <2>6, <2>7, <3>1, RestOwned
  <2>9. \A h \in 0 .. NDirect - 1 :
          node.direct[h] # 0 <=> (loc.node.direct[h] # 0 \/ h = loc.k)
    BY <1>3, <1>4, <1>8
  <2> QED BY <1>4, <1>8, <2>1, <2>5, <2>8, <2>9
<1>9. CASE b \in {None, BadBlock}
  <2>1. b = None
    BY <1>3, <1>9, SizeAssumption DEF Block, BadBlock
  <2>2. mem' = Rollback(mem, loc.orig, loc.node) /\ Return /\ UNCHANGED blk
    BY <1>9 DEF WriteBlock, old, b
  <2> QED BY <1>1, <1>6, <2>2
<1>10. CASE b \notin {None, BadBlock} /\ ~ok
  BY <1>1, <1>7, <1>10 DEF WriteBlock, old, b, m, node
<1>11. CASE b \notin {None, BadBlock} /\ ok
  BY <1>1, <1>8, <1>11 DEF WriteBlock, Goto, old, b, m, node
<1> QED BY <1>9, <1>10, <1>11

LEMMA WriteEndReached ==
  ASSUME Plain, StateSound, NEW ok, WriteEnd(ok)
  PROVE  /\ Reached' /\ Live' = Live /\ pc' \in {"flSuper", "idle"}
         /\ SameInodes(Live \ {loc.ino}) /\ fdt' = [fdt EXCEPT ![loc.fd].off = loc.k]
         /\ loc.fd \in Fd /\ fdt[loc.fd] # NoFd /\ fdt[loc.fd].ino = loc.ino
         /\ loc.k \in Nat /\ loc.node.size \in Nat
         /\ "io" \notin Faults =>
              /\ itab'[loc.ino].direct = loc.node.direct
              /\ itab'[loc.ino].size \in {loc.node.size, loc.k}
              /\ itab'[loc.ino].size >= loc.node.size /\ itab'[loc.ino].size >= loc.k
<1>0. PICK i : i = loc.ino
  OBVIOUS
<1> DEFINE n == Max({loc.node.size, loc.k})
<1> DEFINE node == [loc.node EXCEPT !.size = n]
<1>1. /\ pc = "wrBlock" /\ i \in Live /\ ~IsDir(i) /\ Target = i
      /\ loc.node \in Copies /\ mem \in Allocator /\ UNCHANGED blk /\ IInv /\ TreeSound
      /\ fdt' = [fdt EXCEPT ![loc.fd].off = loc.k] /\ loc.k \in Nat /\ loc.node.size \in Nat
      /\ loc.fd \in Fd /\ fdt[loc.fd] # NoFd /\ fdt[loc.fd].ino = i
  BY <1>0 DEF WriteEnd, StateSound, TreeSound, FilesSound, IInv, CallSound, Target, Typed,
              CallTypes, Copies
<1>2. i \in Inode \ {Root, Tmp, 0} /\ i \in Written
  BY <1>0, <1>1, FileAlone DEF StateSound, FormatKept
<1>3. n \in {loc.node.size, loc.k} /\ n >= loc.node.size /\ n >= loc.k
  <2>1. \E x \in {loc.node.size, loc.k} : \A y \in {loc.node.size, loc.k} : x >= y
    BY <1>1
  <2> QED BY <1>1, <2>1 DEF Max
<1> HIDE DEF n
<1>4. CASE ok
  <2>1. WriteInode(i, node) /\ pc' = "flSuper" /\ UNCHANGED mem
    BY <1>0, <1>4 DEF WriteEnd, Goto, n
  <2>2. /\ node.mode = loc.node.mode /\ node.tail = loc.node.tail /\ node.direct = loc.node.direct
        /\ node.size = n /\ node \in Copies
    BY <1>1, <1>3 DEF Copies
  <2> HIDE DEF node
  <2>3. HasNeighbour(i) /\ node.tail = "dir" => itab[i + 1].mode = "dir"
    BY <1>1, <2>2 DEF TreeSound, CopySound
  <2>4. SameInodes(Live \ {i})
    BY <1>2, <2>1, <2>2, <2>3, FormatDirs, NeighbourKept DEF StateSound, SameInodes
  <2>5. itab'[i].size = n /\ itab'[i].direct = loc.node.direct
    BY <1>1, <1>2, <2>1, <2>2, WriteInodeIs DEF IInv
  <2>6. Live' = Live
    BY <1>1, <2>1 DEF Live, Removing
  <2>7. BlocksOwned'
    BY <1>1, <2>1, <2>4, <2>5, <2>6, WrittenBack
  <2>8. SameInodes({Root, Tmp})
    BY <1>2, <2>4, FormatDirs DEF SameInodes
  <2>9. Reached'
    <3>1. pc \notin TreeSteps /\ pc' \notin TreeSteps /\ mem'.imap = mem.imap
      BY <1>1, <2>1 DEF TreeSteps
    <3> QED BY <1>1, <2>7, <2>8, <3>1, RestOwned
  <2> QED BY <1>0, <1>1, <1>3, <2>1, <2>4, <2>5, <2>6, <2>9
<1>5. CASE ~ok
  <2>1. mem' = Rollback(mem, loc.orig, loc.node) /\ Return /\ UNCHANGED itab /\ "io" \in Faults
    BY <1>5 DEF WriteEnd, Outcome
  <2>2. GivesBack(mem.bmap, loc.node)
    BY <1>1 DEF NewBlocks, GivesBack
  <2>3. Reached' /\ Live' = Live /\ pc' = "idle"
    BY <1>1, <2>1, <2>2, WriteFails
  <2>4. SameInodes(Live \ {i})
    BY <2>1 DEF SameInodes
  <2> QED BY <1>0, <1>1, <2>1, <2>3, <2>4
<1> QED BY <1>4, <1>5

-----------------------------------------------------------------------------
(* Without disk errors files have no gaps.                                  *)

\* The blocks and the offsets of the files that a step leaves alone.
LEMMA FilledFrame ==
  ASSUME StateSound, FilesFilled, FilesSmall', NEW x, Live' \ {x} \subseteq Live,
         SameInodes(Live \ {Root, Tmp, x}),
         x \in Live' => \A k \in 0 .. NDirect - 1 : itab'[x].direct[k] # 0 <=> k < itab'[x].size,
         \A f \in Fd : fdt'[f] # NoFd =>
           \/ fdt'[f] = fdt[f] /\ (fdt[f].ino = x => fdt[f].off <= itab'[x].size)
           \/ fdt'[f].off <= itab'[fdt'[f].ino].size
  PROVE  /\ \A i \in Live' : ~IsDir(i)' =>
              \A k \in 0 .. NDirect - 1 : itab'[i].direct[k] # 0 <=> k < itab'[i].size
         /\ \A f \in Fd : fdt'[f] # NoFd => fdt'[f].off <= itab'[fdt'[f].ino].size
<1>1. ASSUME NEW i \in Live', ~IsDir(i)', i # x
      PROVE  \A k \in 0 .. NDirect - 1 : itab'[i].direct[k] # 0 <=> k < itab'[i].size
  <2>1. i \in Live /\ i \in Written'
    BY <1>1 DEF Live, Written
  <2>2. i \notin {Root, Tmp}
    BY <1>1, <2>1 DEF FilesSmall, IsDir
  <2>3. itab'[i].mode = itab[i].mode /\ itab'[i].size = itab[i].size
        /\ itab'[i].direct = itab[i].direct
    BY <1>1, <2>1, <2>2 DEF SameInodes
  <2>4. ~IsDir(i)
    BY <1>1, <2>3 DEF IsDir
  <2> QED BY <2>1, <2>3, <2>4 DEF FilesFilled
<1>2. ASSUME NEW f \in Fd, fdt'[f] # NoFd
      PROVE  fdt'[f].off <= itab'[fdt'[f].ino].size
  <2>1. CASE fdt'[f].off <= itab'[fdt'[f].ino].size
    BY <2>1
  <2>2. CASE fdt'[f] = fdt[f] /\ (fdt[f].ino = x => fdt[f].off <= itab'[x].size)
    <3>1. PICK i : i = fdt[f].ino
      OBVIOUS
    <3>2. i \in Live /\ ~IsDir(i) /\ fdt[f].off <= itab[i].size
      BY <1>2, <2>2, <3>1 DEF StateSound, TreeSound, FilesSound, FilesFilled
    <3>3. i \notin {Root, Tmp}
      BY <3>2, FormatDirs
    <3>4. i # x => itab'[i].size = itab[i].size
      BY <3>2, <3>3 DEF SameInodes
    <3> QED BY <2>2, <3>1, <3>2, <3>4
  <2> QED BY <1>2, <2>1, <2>2
<1> QED BY <1>1, <1>2

\* A step that leaves them all alone and does not go on with a file.
LEMMA FilledQuiet ==
  ASSUME StateSound, FilesFilled, FilesSmall', Live' \subseteq Live,
         SameInodes(Live \ {Root, Tmp}),
         \A f \in Fd : fdt'[f] = fdt[f] \/ fdt'[f] = NoFd
  PROVE  /\ \A i \in Live' : ~IsDir(i)' =>
              \A k \in 0 .. NDirect - 1 : itab'[i].direct[k] # 0 <=> k < itab'[i].size
         /\ \A f \in Fd : fdt'[f] # NoFd => fdt'[f].off <= itab'[fdt'[f].ino].size
         /\ pc' \notin {"created", "opened", "truncated", "wrBlock"} => FilesFilled'
<1>1. None \notin Live /\ \A f \in Fd : fdt[f] # NoFd => fdt[f].ino \in Live
  BY LiveInodes DEF None, Inode, StateSound, TreeSound, FilesSound
<1>2. SameInodes(Live \ {Root, Tmp, None})
  BY DEF SameInodes
<1>3. None \notin Live' /\ Live' \ {None} \subseteq Live
  BY <1>1
<1>4. \A f \in Fd : fdt'[f] # NoFd =>
        fdt'[f] = fdt[f] /\ (fdt[f].ino = None => fdt[f].off <= itab'[None].size)
  BY <1>1
<1>5. /\ \A i \in Live' : ~IsDir(i)' =>
           \A k \in 0 .. NDirect - 1 : itab'[i].direct[k] # 0 <=> k < itab'[i].size
      /\ \A f \in Fd : fdt'[f] # NoFd => fdt'[f].off <= itab'[fdt'[f].ino].size
  BY <1>2, <1>3, <1>4, FilledFrame
<1> QED BY <1>5 DEF FilesFilled

LEMMA UnchangedIs == ASSUME UNCHANGED itab, NEW S  PROVE SameInodes(S)
BY DEF SameInodes

LEMMA NewInodeFilled ==
  ASSUME Plain, StateSound, FilesFilled, FilesSmall', NEW ok, NewInode(ok)
  PROVE  FilesFilled'
<1>0. PICK x : x = loc.ino
  OBVIOUS
<1>1. UNCHANGED fdt /\ pc = "newInode" /\ x \notin Live
  BY <1>0 DEF NewInode, Live
<1>2. CASE /\ Live' \ {x} = Live /\ itab'[x].mode = "file" /\ itab'[x].size = 0 /\ pc' = "entry"
           /\ \A k \in 0 .. NDirect - 1 : itab'[x].direct[k] = 0
           /\ SameInodes(Live)
  <2>1. \A k \in 0 .. NDirect - 1 : itab'[x].direct[k] # 0 <=> k < itab'[x].size
    BY <1>2
  <2>2. SameInodes(Live \ {Root, Tmp, x})
    BY <1>2 DEF SameInodes
  <2>3. \A f \in Fd : fdt[f] # NoFd => fdt[f].ino # x
    BY <1>1 DEF StateSound, TreeSound, FilesSound
  <2>4. /\ \A i \in Live' : ~IsDir(i)' =>
             \A k \in 0 .. NDirect - 1 : itab'[i].direct[k] # 0 <=> k < itab'[i].size
        /\ \A f \in Fd : fdt'[f] # NoFd => fdt'[f].off <= itab'[fdt'[f].ino].size
    BY <1>1, <1>2, <2>1, <2>2, <2>3, FilledFrame
  <2> QED BY <1>2, <2>4 DEF FilesFilled
<1>3. CASE Live' = Live /\ UNCHANGED itab /\ pc' = "idle"
  BY <1>1, <1>3, FilledQuiet, UnchangedIs
<1> QED BY <1>0, <1>2, <1>3, NewInodeReached DEF SameInodes

\* Where a call stands whose file is neither new nor being written.
LEMMA FilledOpened ==
  ASSUME StateSound, FilesFilled, FilesSmall', Live' \subseteq Live, UNCHANGED <<itab, fdt>>,
         pc' = "opened", loc'.node.size = itab[loc'.ino].size,
         "T" \in loc'.flags => \A f \in Fd : fdt[f] # NoFd => fdt[f].ino # loc'.ino
  PROVE  FilesFilled'
<1>1. /\ \A i \in Live' : ~IsDir(i)' =>
           \A k \in 0 .. NDirect - 1 : itab'[i].direct[k] # 0 <=> k < itab'[i].size
      /\ \A f \in Fd : fdt'[f] # NoFd => fdt'[f].off <= itab'[fdt'[f].ino].size
  BY FilledQuiet, UnchangedIs
<1> QED BY <1>1 DEF FilesFilled

LEMMA TruncateFilled ==
  ASSUME Plain, StateSound, FilesFilled, FilesSmall', NEW ok, Truncate(ok)
  PROVE  FilesFilled'
<1>0. PICK i : i = loc.ino
  OBVIOUS
<1>1. /\ UNCHANGED fdt /\ pc = "opened" /\ Live' = Live /\ "T" \in loc.flags
      /\ SameInodes(Live \ {i}) /\ pc' = "truncated" /\ loc'.ino = i
      /\ itab'[i].size = 0 /\ loc'.node.size = 0
      /\ \A k \in 0 .. NDirect - 1 : itab'[i].direct[k] = 0
  BY <1>0, TruncateReached DEF Truncate
<1>2. \A f \in Fd : fdt[f] # NoFd => fdt[f].ino # i
  BY <1>0, <1>1 DEF FilesFilled
<1>3. \A k \in 0 .. NDirect - 1 : itab'[i].direct[k] # 0 <=> k < itab'[i].size
  BY <1>1
<1>4. SameInodes(Live \ {Root, Tmp, i})
  BY <1>1 DEF SameInodes
<1>5. /\ \A j \in Live' : ~IsDir(j)' =>
           \A k \in 0 .. NDirect - 1 : itab'[j].direct[k] # 0 <=> k < itab'[j].size
      /\ \A f \in Fd : fdt'[f] # NoFd => fdt'[f].off <= itab'[fdt'[f].ino].size
  BY <1>1, <1>2, <1>3, <1>4, FilledFrame
<1> QED BY <1>1, <1>5 DEF FilesFilled

LEMMA OpenFdFilled ==
  ASSUME Plain, StateSound, FilesFilled, FilesSmall', Live' = Live, OpenFd
  PROVE  FilesFilled'
<1>1. /\ pc \in {"opened", "truncated"} /\ pc' = "idle" /\ UNCHANGED itab
      /\ fdt \in [Fd -> {NoFd} \cup OpenFds] /\ loc \in CallTypes
  BY DEF OpenFd, Return, StateSound, IInv, Typed
<1>2. PICK fd, off :
        /\ off \in {loc.node.size, 0}
        /\ \/ fdt' = fdt
           \/ fdt' = [fdt EXCEPT ![fd] = [ino |-> loc.ino, flags |-> loc.flags, off |-> off]]
  BY DEF OpenFd
<1>3. off <= itab[loc.ino].size
  <2>1. loc.node.size = itab[loc.ino].size
    BY <1>1 DEF FilesFilled
  <2>2. loc.node.size \in Nat
    BY <1>1 DEF CallTypes, Copies
  <2> QED BY <1>2, <2>1, <2>2
<1>4. \A f \in Fd : fdt'[f] = fdt[f] \/ fdt'[f].off <= itab'[fdt'[f].ino].size
  BY <1>1, <1>2, <1>3
<1>5. None \notin Live /\ \A f \in Fd : fdt[f] # NoFd => fdt[f].ino # None
  BY LiveInodes DEF None, Inode, StateSound, TreeSound, FilesSound
<1>6. SameInodes(Live \ {Root, Tmp, None})
  BY <1>1, UnchangedIs
<1>7. \A f \in Fd : fdt'[f] # NoFd =>
           \/ fdt'[f] = fdt[f] /\ (fdt[f].ino = None => fdt[f].off <= itab'[None].size)
           \/ fdt'[f].off <= itab'[fdt'[f].ino].size
  BY <1>4, <1>5
<1>8. /\ \A i \in Live' : ~IsDir(i)' =>
           \A k \in 0 .. NDirect - 1 : itab'[i].direct[k] # 0 <=> k < itab'[i].size
      /\ \A f \in Fd : fdt'[f] # NoFd => fdt'[f].off <= itab'[fdt'[f].ino].size
  BY <1>5, <1>6, <1>7, FilledFrame
<1> QED BY <1>1, <1>8 DEF FilesFilled

LEMMA ReadFilled ==
  ASSUME Plain, StateSound, FilesFilled, FilesSmall', Live' = Live,
         NEW fd \in Fd, NEW n \in 1 .. MaxWrite, Read(fd, n)
  PROVE  FilesFilled'
<1>0. PICK i : i = fdt[fd].ino
  OBVIOUS
<1>1. /\ pc' = "idle" /\ UNCHANGED itab /\ fdt[fd] # NoFd /\ fdt[fd] \in OpenFds
      /\ fdt \in [Fd -> {NoFd} \cup OpenFds]
  BY DEF Read, Begin, StateSound, IInv, Typed
<1>2. i \in Live /\ itab[i].size \in Nat
  BY <1>0, <1>1, FileAlone DEF StateSound, TreeSound, FilesSound
<1> DEFINE S == {fdt[fd].off + n, itab[i].size} \cup Among(fd, 0)
<1>3. fdt' = [fdt EXCEPT ![fd].off = Min(S)]
  BY <1>0 DEF Read
<1>4. Min(S) <= itab[i].size
  <2>1. fdt[fd].off + n \in Nat /\ Among(fd, 0) \in SUBSET Nat
    BY <1>1, DiskFSAssumption DEF OpenFds, Among
  <2>2. S \in SUBSET Nat /\ itab[i].size \in S
    BY <1>2, <2>1
  <2> HIDE DEF S
  <2> QED BY <2>2, MinIsLowest
<1> HIDE DEF S
<1>5. fdt'[fd].off = Min(S) /\ fdt'[fd].ino = i /\ \A f \in Fd : f # fd => fdt'[f] = fdt[f]
  BY <1>0, <1>1, <1>3 DEF OpenFds
<1>6. None \notin Live /\ \A f \in Fd : fdt[f] # NoFd => fdt[f].ino # None
  BY LiveInodes DEF None, Inode, StateSound, TreeSound, FilesSound
<1>7. SameInodes(Live \ {Root, Tmp, None})
  BY <1>1, UnchangedIs
<1>8. \A f \in Fd : fdt'[f] # NoFd =>
           \/ fdt'[f] = fdt[f] /\ (fdt[f].ino = None => fdt[f].off <= itab'[None].size)
           \/ fdt'[f].off <= itab'[fdt'[f].ino].size
  BY <1>1, <1>4, <1>5, <1>6
<1>9. /\ \A j \in Live' : ~IsDir(j)' =>
           \A k \in 0 .. NDirect - 1 : itab'[j].direct[k] # 0 <=> k < itab'[j].size
      /\ \A f \in Fd : fdt'[f] # NoFd => fdt'[f].off <= itab'[fdt'[f].ino].size
  BY <1>6, <1>7, <1>8, FilledFrame
<1> QED BY <1>1, <1>9 DEF FilesFilled

LEMMA WriteFilled ==
  ASSUME Plain, StateSound, FilesFilled, FilesSmall', Live' = Live,
         NEW fd \in Fd, NEW n, NEW v, Write(fd, n, v)
  PROVE  FilesFilled'
<1>0. PICK i : i = fdt[fd].ino
  OBVIOUS
<1>1. /\ fdt[fd] # NoFd /\ pc' = "wrBlock" /\ UNCHANGED <<itab, fdt>>
      /\ loc'.ino = i /\ loc'.node = ReadInode(i) /\ loc'.k = fdt[fd].off
      /\ fdt[fd].off \in Nat
  BY <1>0 DEF Write, Begin, Goto, NoCall, StateSound, IInv, Typed, OpenFds
<1>2. /\ i \in Live /\ itab[i].size \in Nat /\ fdt[fd].off <= itab[i].size
      /\ \A k \in 0 .. NDirect - 1 : itab[i].direct[k] # 0 <=> k < itab[i].size
  <2>1. i \in Live /\ ~IsDir(i) /\ fdt[fd].off <= itab[i].size
    BY <1>0, <1>1 DEF StateSound, TreeSound, FilesSound, FilesFilled
  <2> QED BY <2>1, FileAlone DEF FilesFilled
<1>3. ReadInode(i).size = itab[i].size /\ ReadInode(i).direct = itab[i].direct
  BY DEF ReadInode
<1>4. \A k \in 0 .. NDirect - 1 :
        loc'.node.direct[k] # 0 <=> (k < loc'.node.size \/ k < loc'.k)
  BY <1>1, <1>2, <1>3
<1>5. /\ \A j \in Live' : ~IsDir(j)' =>
           \A k \in 0 .. NDirect - 1 : itab'[j].direct[k] # 0 <=> k < itab'[j].size
      /\ \A f \in Fd : fdt'[f] # NoFd => fdt'[f].off <= itab'[fdt'[f].ino].size
  BY <1>1, FilledQuiet, UnchangedIs
<1> QED BY <1>1, <1>3, <1>4, <1>5 DEF FilesFilled

LEMMA WriteBlockFilled ==
  ASSUME Plain, StateSound, FilesFilled, FilesSmall', NEW ok, WriteBlock(ok)
  PROVE  FilesFilled'
<1>1. pc = "wrBlock" /\ Live' = Live /\ UNCHANGED <<itab, fdt>>
  BY WriteBlockReached DEF WriteBlock
<1>2. /\ \A j \in Live' : ~IsDir(j)' =>
           \A k \in 0 .. NDirect - 1 : itab'[j].direct[k] # 0 <=> k < itab'[j].size
      /\ \A f \in Fd : fdt'[f] # NoFd => fdt'[f].off <= itab'[fdt'[f].ino].size
      /\ pc' \notin {"created", "opened", "truncated", "wrBlock"} => FilesFilled'
  BY <1>1, FilledQuiet, UnchangedIs
<1>3. CASE pc' = "idle"
  BY <1>2, <1>3
<1>4. CASE pc' # "idle"
  <2>1. /\ pc' = "wrBlock" /\ loc'.ino = loc.ino /\ loc'.k = loc.k + 1 /\ loc.k \in Nat
        /\ loc'.node.size = loc.node.size
        /\ \A h \in 0 .. NDirect - 1 :
             loc'.node.direct[h] # 0 <=> (loc.node.direct[h] # 0 \/ h = loc.k)
    BY <1>4, WriteBlockReached
  <2>2. /\ \A h \in 0 .. NDirect - 1 :
             loc.node.direct[h] # 0 <=> (h < loc.node.size \/ h < loc.k)
        /\ loc.node.size = itab[loc.ino].size
    BY <1>1 DEF FilesFilled
  <2>3. \A h \in 0 .. NDirect - 1 :
          loc'.node.direct[h] # 0 <=> (h < loc'.node.size \/ h < loc'.k)
    BY <2>1, <2>2
  <2>4. loc'.node.size = itab'[loc'.ino].size
    BY <1>1, <2>1, <2>2
  <2> QED BY <1>2, <2>1, <2>3, <2>4 DEF FilesFilled
<1> QED BY <1>3, <1>4

LEMMA WriteEndFilled ==
  ASSUME Plain, StateSound, FilesFilled, FilesSmall', "io" \notin Faults, NEW ok, WriteEnd(ok)
  PROVE  FilesFilled'
<1>0. PICK i, n : i = loc.ino /\ n = itab'[i].size
  OBVIOUS
<1>1. /\ pc = "wrBlock" /\ Live' = Live /\ pc' \in {"flSuper", "idle"}
      /\ SameInodes(Live \ {i}) /\ fdt' = [fdt EXCEPT ![loc.fd].off = loc.k]
      /\ loc.fd \in Fd /\ fdt[loc.fd] # NoFd /\ fdt[loc.fd].ino = i
      /\ loc.k \in Nat /\ loc.node.size \in Nat
      /\ itab'[i].direct = loc.node.direct
      /\ n \in {loc.node.size, loc.k} /\ n >= loc.node.size /\ n >= loc.k
      /\ fdt \in [Fd -> {NoFd} \cup OpenFds]
  BY <1>0, WriteEndReached DEF WriteEnd, StateSound, IInv, Typed
<1>2. loc.node.size = itab[i].size
      /\ \A k \in 0 .. NDirect - 1 : loc.node.direct[k] # 0 <=> (k < loc.node.size \/ k < loc.k)
  BY <1>0, <1>1 DEF FilesFilled
<1>3. \A k \in 0 .. NDirect - 1 : itab'[i].direct[k] # 0 <=> k < itab'[i].size
  BY <1>0, <1>1, <1>2
<1>4. SameInodes(Live \ {Root, Tmp, i})
  BY <1>1 DEF SameInodes
<1>5. fdt'[loc.fd].off <= itab'[fdt'[loc.fd].ino].size
  <2>1. fdt[loc.fd] \in OpenFds
    BY <1>1
  <2>2. fdt'[loc.fd].off = loc.k /\ fdt'[loc.fd].ino = i
    BY <1>1, <2>1 DEF OpenFds
  <2> QED BY <1>0, <1>1, <2>2
<1>6. ASSUME NEW f \in Fd, f # loc.fd, fdt[f] # NoFd, fdt[f].ino = i
      PROVE  fdt[f].off <= itab'[i].size
  <2>1. fdt[f].off <= itab[i].size /\ fdt[f].off \in Nat
    BY <1>1, <1>6 DEF FilesFilled, OpenFds
  <2> QED BY <1>0, <1>1, <1>2, <2>1
<1>7. \A f \in Fd : fdt'[f] # NoFd =>
           \/ fdt'[f] = fdt[f] /\ (fdt[f].ino = i => fdt[f].off <= itab'[i].size)
           \/ fdt'[f].off <= itab'[fdt'[f].ino].size
  BY <1>1, <1>5, <1>6
<1>8. /\ \A j \in Live' : ~IsDir(j)' =>
           \A k \in 0 .. NDirect - 1 : itab'[j].direct[k] # 0 <=> k < itab'[j].size
      /\ \A f \in Fd : fdt'[f] # NoFd => fdt'[f].off <= itab'[fdt'[f].ino].size
  <2>1. Live' \ {i} \subseteq Live
    BY <1>1
  <2> QED BY <1>3, <1>4, <1>7, <2>1, FilledFrame
<1> QED BY <1>1, <1>8 DEF FilesFilled

-----------------------------------------------------------------------------
(* Every step keeps it so.                                                  *)

\* What holds after a step besides.
Tidy == Reached' /\ ("io" \notin Faults => FilesFilled')

LEMMA StateParts ==
  ASSUME StateSound
  PROVE  /\ IInv /\ TreeSound /\ FilesSmall /\ FormatKept
         /\ BlocksOwned /\ InodesNamed /\ NewFileEmpty /\ ("io" \notin Faults => FilesFilled)
BY DEF StateSound, OwnSound

\* A step outside creations, removals and writes that changes no inode and no block.
LEMMA RestTidy ==
  ASSUME StateSound, FilesSmall', UNCHANGED <<itab, blk>>, mem'.imap = mem.imap, mem'.bmap = mem.bmap,
         pc \notin TreeSteps \cup {"wrBlock"}, pc' \notin TreeSteps \cup {"wrBlock", "created"},
         \A f \in Fd : fdt'[f] = fdt[f] \/ fdt'[f] = NoFd,
         pc' \notin {"opened", "truncated"}
  PROVE  Tidy
<1>1. NewBlocks = {} /\ NewBlocks' = {}
  BY DEF NewBlocks, TreeSteps
<1>2. Reached' /\ Live' = Live
  BY <1>1, RestReached DEF TreeSteps
<1>3. FilesFilled => FilesFilled'
  BY <1>2, FilledQuiet, UnchangedIs DEF TreeSteps
<1> QED BY <1>2, <1>3, StateParts DEF Tidy

LEMMA OpenTidy ==
  ASSUME Plain, StateSound, FilesSmall', NEW p, NEW fl, NEW ok, Open(p, fl, ok)
  PROVE  Tidy
<1>1. pc = "idle" /\ UNCHANGED <<itab, blk, fdt>>
  BY DEF Open, Begin
<1>2. CASE Allocated("open", p, fl)
  <2>1. Reached' /\ Live' = Live
    BY <1>1, <1>2, AllocatedReached
  <2>2. pc' = "newInode"
    BY <1>2 DEF Allocated, Goto
  <2>3. FilesFilled => FilesFilled'
    BY <1>1, <2>1, <2>2, FilledQuiet, UnchangedIs
  <2> QED BY <2>1, <2>3, StateParts DEF Tidy
<1>3. CASE ~Allocated("open", p, fl)
  <2>0. PICK i : /\ Goto("opened", [NoCall EXCEPT !.op = "open", !.path = p, !.flags = fl,
                                              !.ino = i, !.node = ReadInode(i)])
                 /\ "T" \in fl => Shared \/ \A f \in Fd : fdt[f].ino # i
                 /\ UNCHANGED mem
    BY <1>3 DEF Open
  <2>1. /\ pc' = "opened" /\ loc'.ino = i /\ loc'.node = ReadInode(i) /\ loc'.flags = fl
        /\ "T" \in fl => Shared \/ \A f \in Fd : fdt[f].ino # i
        /\ UNCHANGED mem
    BY <2>0 DEF Goto, NoCall
  <2>2. NewBlocks = {} /\ NewBlocks' = {}
    BY <1>1, <2>1 DEF NewBlocks
  <2>3. Reached' /\ Live' = Live
    BY <1>1, <2>1, <2>2, RestReached DEF TreeSteps
  <2>4. loc'.node.size = itab[loc'.ino].size
    BY <2>1 DEF ReadInode
  <2>5. "T" \in loc'.flags => \A f \in Fd : fdt[f] # NoFd => fdt[f].ino # loc'.ino
    BY <2>1 DEF Plain, Careful
  <2>6. FilesFilled => FilesFilled'
    BY <1>1, <2>1, <2>3, <2>4, <2>5, FilledOpened
  <2> QED BY <2>3, <2>6, StateParts DEF Tidy
<1> QED BY <1>2, <1>3

LEMMA ReadBackTidy ==
  ASSUME Plain, StateSound, FilesSmall', NEW ok, ReadBack(ok)
  PROVE  Tidy
<1>1. pc = "created" /\ UNCHANGED <<mem, itab, blk, fdt>>
  BY DEF ReadBack
<1>2. CASE pc' = "idle"
  BY <1>1, <1>2, RestTidy DEF TreeSteps
<1>3. CASE pc' # "idle"
  <2>1. pc' = "opened" /\ loc'.ino = loc.ino /\ loc'.node = ReadInode(loc.ino)
    BY <1>3 DEF ReadBack, Goto, Return, NoCall
  <2>2. NewBlocks = {} /\ NewBlocks' = {}
    BY <1>1, <2>1 DEF NewBlocks
  <2>3. Reached' /\ Live' = Live
    BY <1>1, <2>1, <2>2, RestReached DEF TreeSteps
  <2>4. loc'.node.size = itab[loc'.ino].size
    BY <2>1 DEF ReadInode
  <2>5. FilesFilled => \A f \in Fd : fdt[f] # NoFd => fdt[f].ino # loc'.ino
    BY <1>1, <2>1 DEF FilesFilled
  <2>6. FilesFilled => FilesFilled'
    BY <1>1, <2>1, <2>3, <2>4, <2>5, FilledOpened
  <2> QED BY <2>3, <2>6, StateParts DEF Tidy
<1> QED BY <1>2, <1>3

LEMMA UnlinkTidy ==
  ASSUME Plain, StateSound, FilesSmall', NEW p \in FilePaths, Unlink(p)
  PROVE  Tidy
<1>1. Reached' /\ UNCHANGED <<itab, fdt>> /\ pc' = "entry" /\ Live' \subseteq Live
  BY UnlinkReached DEF Unlink
<1>2. FilesFilled => FilesFilled'
  BY <1>1, FilledQuiet, UnchangedIs
<1> QED BY <1>1, <1>2, StateParts DEF Tidy

LEMMA ReadWriteTidy ==
  ASSUME Plain, StateSound, FilesSmall', NEW fd \in Fd, NEW n \in 1 .. MaxWrite, NEW v,
         Read(fd, n) \/ Write(fd, n, v)
  PROVE  Tidy
<1>1. pc = "idle" /\ UNCHANGED <<mem, itab, blk>> /\ NewBlocks = {}
  BY DEF Read, Write, Begin, NewBlocks
<1>2. CASE Read(fd, n)
  <2>1. pc' = "idle" /\ NewBlocks' = {}
    BY <1>1, <1>2 DEF Read, NewBlocks
  <2>2. Reached' /\ Live' = Live
    BY <1>1, <2>1, RestReached DEF TreeSteps
  <2> QED BY <1>2, <2>2, ReadFilled, StateParts DEF Tidy
<1>3. CASE Write(fd, n, v)
  <2>1. pc' = "wrBlock" /\ loc'.node = loc'.orig
    BY <1>3 DEF Write, Goto, NoCall
  <2>2. NewBlocks' = {}
    BY <2>1 DEF NewBlocks
  <2>3. Reached' /\ Live' = Live
    BY <1>1, <2>1, <2>2, RestReached DEF TreeSteps
  <2> QED BY <1>3, <2>3, WriteFilled, StateParts DEF Tidy
<1> QED BY <1>2, <1>3

LEMMA OpenFdTidy ==
  ASSUME Plain, StateSound, FilesSmall', OpenFd
  PROVE  Tidy
<1>1. pc \in {"opened", "truncated"} /\ pc' = "idle" /\ UNCHANGED <<mem, itab, blk>>
  BY DEF OpenFd, Return
<1>2. NewBlocks = {} /\ NewBlocks' = {}
  BY <1>1 DEF NewBlocks
<1>3. Reached' /\ Live' = Live
  BY <1>1, <1>2, RestReached DEF TreeSteps
<1> QED BY <1>3, OpenFdFilled, StateParts DEF Tidy

LEMMA FlushTidy ==
  ASSUME Plain, StateSound, FilesSmall', NEW ok, NEW fd,
         Close(fd) \/ FlushSuper(ok) \/ FlushInodeBitmap(ok) \/ FlushBlockBitmap(ok)
  PROVE  Tidy
<1>1. /\ pc \in {"idle", "flSuper", "flImap", "flBmap"}
      /\ pc' \in {"flSuper", "flImap", "flBmap", "idle"}
      /\ UNCHANGED <<itab, blk>>
      /\ fdt' = fdt \/ fdt' = [fdt EXCEPT ![loc.fd] = NoFd]
  BY DEF Close, Begin, FlushSuper, FlushInodeBitmap, FlushBlockBitmap, Goto, Flushed, Return
<1>2. mem'.imap = mem.imap /\ mem'.bmap = mem.bmap
  BY StateParts
     DEF Close, FlushSuper, FlushInodeBitmap, FlushBlockBitmap, IInv, Typed, Allocator
<1>3. \A f \in Fd : fdt'[f] = fdt[f] \/ fdt'[f] = NoFd
  BY <1>1, StateParts DEF IInv, Typed
<1> QED BY <1>1, <1>2, <1>3, RestTidy DEF TreeSteps

LEMMA PowerFailureTidy ==
  ASSUME Plain, StateSound, FilesSmall', PowerFailure, image' # "torn"
  PROVE  Tidy
<1>1. /\ pc = "idle" /\ ~mem.sbDirty /\ ~mem.bmDirty /\ image = "good"
      /\ pc' = "idle" /\ UNCHANGED <<itab, blk>>
      /\ mem' = Load(dsk) /\ fdt' = [f \in Fd |-> NoFd]
  BY DEF PowerFailure, Return, Reload
<1>2. mem'.imap = mem.imap /\ mem'.bmap = mem.bmap
  BY <1>1, StateParts DEF Load, IInv, FlagsMissNothing
<1> QED BY <1>1, <1>2, RestTidy DEF TreeSteps

\* The steps of creations and removals.
LEMMA TreeTidy ==
  ASSUME Plain, StateSound, FilesSmall', NEW ok,
         NewInode(ok) \/ Entry(ok) \/ WriteDirBlock(ok) \/ WriteDirInode(ok)
  PROVE  Tidy
<1>1. CASE NewInode(ok)
  BY <1>1, NewInodeReached, NewInodeFilled, StateParts DEF Tidy
<1>2. CASE Entry(ok) \/ WriteDirBlock(ok)
  <2>1. Reached' /\ UNCHANGED <<itab, fdt>> /\ Live' \subseteq Live /\ pc' \in {"wdBlock", "idle"}
    BY <1>2, EntryReached, WriteDirBlockReached DEF Entry, WriteDirBlock
  <2>2. FilesFilled => FilesFilled'
    BY <2>1, FilledQuiet, UnchangedIs
  <2> QED BY <2>1, <2>2, StateParts DEF Tidy
<1>3. CASE WriteDirInode(ok)
  <2>1. /\ Reached' /\ SameInodes(Live \ {Root, Tmp}) /\ UNCHANGED fdt /\ Live' \subseteq Live
        /\ pc' \in {"created", "idle"}
        /\ pc' = "created" => loc' = loc /\ Creating
    BY <1>3, WriteDirInodeReached DEF WriteDirInode
  <2>2. ASSUME FilesFilled  PROVE FilesFilled'
    <3>1. /\ \A j \in Live' : ~IsDir(j)' =>
               \A k \in 0 .. NDirect - 1 : itab'[j].direct[k] # 0 <=> k < itab'[j].size
          /\ \A f \in Fd : fdt'[f] # NoFd => fdt'[f].off <= itab'[fdt'[f].ino].size
      BY <2>1, <2>2, FilledQuiet
    <3>2. pc' = "created" => \A f \in Fd : fdt'[f] # NoFd => fdt'[f].ino # loc'.ino
      BY <2>1, StateParts DEF TreeSound, CreationSound
    <3> QED BY <2>1, <3>1, <3>2 DEF FilesFilled
  <2> QED BY <2>1, <2>2, StateParts DEF Tidy
<1> QED BY <1>1, <1>2, <1>3

\* The steps of writes and truncations.
LEMMA FileTidy ==
  ASSUME Plain, StateSound, FilesSmall', NEW ok, Truncate(ok) \/ WriteBlock(ok) \/ WriteEnd(ok)
  PROVE  Tidy
<1>1. CASE Truncate(ok)
  BY <1>1, TruncateReached, TruncateFilled, StateParts DEF Tidy
<1>2. CASE WriteBlock(ok)
  BY <1>2, WriteBlockReached, WriteBlockFilled, StateParts DEF Tidy
<1>3. CASE WriteEnd(ok)
  BY <1>3, WriteEndReached, WriteEndFilled, StateParts DEF Tidy
<1> QED BY <1>1, <1>2, <1>3

LEMMA StepOwned ==
  ASSUME Plain, IInv, Tree, Small, Owned, TornRests, [Next]_vars, Small'
  PROVE  Owned'
<1>1. SUFFICES ASSUME image' # "torn"  PROVE OwnSound'
  BY DEF Owned
<1>2. image # "torn"
  BY <1>1, TornSteps DEF PowerFailure, vars
<1>3. StateSound /\ FilesSmall' /\ DirPaths = {}
  BY <1>1, <1>2 DEF StateSound, Tree, Small, Owned, Plain
<1>4. CASE UNCHANGED vars
  <2>1. BlocksOwned' = BlocksOwned
    BY <1>4 DEF vars, BlocksOwned, NewBlocks, InodeBlocks, Live, Removing
  <2>2. InodesNamed' = InodesNamed
    <3>1. \A i : Entries(i)' = Entries(i)
      BY <1>4 DEF vars, Entries, Shifting, ReadDirectory
    <3>2. Live' = Live /\ Creating' = Creating /\ loc' = loc
      BY <1>4 DEF vars, Live, Removing, Creating
    <3> QED BY <3>1, <3>2, NamedSame DEF InodesNamed
  <2>3. NewFileEmpty' = NewFileEmpty
    BY <1>4 DEF vars, NewFileEmpty, Creating
  <2>4. FilesFilled' = FilesFilled
    BY <1>4 DEF vars, FilesFilled, Live, Removing, IsDir
  <2> QED BY <1>3, <2>1, <2>2, <2>3, <2>4 DEF StateSound, OwnSound
<1>5. CASE PowerFailure
  BY <1>1, <1>3, <1>5, PowerFailureTidy DEF Tidy, Reached, OwnSound
<1>6. CASE ~UNCHANGED vars /\ ~PowerFailure
  <2>1. ASSUME NEW fl \in Flags, NEW p \in FilePaths, NEW ok \in BOOLEAN, Open(p, fl, ok)  PROVE Tidy
    BY <1>3, <2>1, OpenTidy
  <2>2. ASSUME NEW p \in FilePaths, Unlink(p)  PROVE Tidy
    BY <1>3, <2>2, UnlinkTidy
  <2>3. ASSUME NEW fd \in Fd, NEW n \in 1 .. MaxWrite, Read(fd, n)  PROVE Tidy
    BY <1>3, <2>3, ReadWriteTidy
  <2>4. ASSUME NEW fd \in Fd, NEW n \in 1 .. MaxWrite, NEW v \in Values, Write(fd, n, v)  PROVE Tidy
    BY <1>3, <2>4, ReadWriteTidy
  <2>5. ASSUME NEW fd \in Fd, Close(fd)  PROVE Tidy
    BY <1>3, <2>5, FlushTidy
  <2>6. OpenFd => Tidy
    BY <1>3, OpenFdTidy
  <2>7. ASSUME NEW ok \in BOOLEAN,
               NewInode(ok) \/ Entry(ok) \/ WriteDirBlock(ok) \/ WriteDirInode(ok)
        PROVE  Tidy
    BY <1>3, <2>7, TreeTidy
  <2>8. ASSUME NEW ok \in BOOLEAN, Truncate(ok) \/ WriteBlock(ok) \/ WriteEnd(ok)  PROVE Tidy
    BY <1>3, <2>8, FileTidy
  <2>9. ASSUME NEW ok \in BOOLEAN, FlushSuper(ok) \/ FlushInodeBitmap(ok) \/ FlushBlockBitmap(ok)
        PROVE  Tidy
    BY <1>3, <2>9, FlushTidy
  <2>10. ASSUME NEW ok \in BOOLEAN, ReadBack(ok)  PROVE Tidy
    BY <1>3, <2>10, ReadBackTidy
  <2>11. Tidy
    BY <1>3, <1>6, <2>1, <2>2, <2>3, <2>4, <2>5, <2>6, <2>7, <2>8, <2>9, <2>10 DEF Next
  <2> QED BY <2>11 DEF Tidy, Reached, OwnSound
<1> QED BY <1>4, <1>5, <1>6

\* The formatted disk: nothing is used but by the root and by /tmp, which the root names.
LEMMA FormattedOwned == ASSUME Plain, Init  PROVE Owned
<1>1. Careful
  BY DEF Plain
<1>2. /\ pc = "idle" /\ mem.bmap = {0, 1, 2} /\ Live = {0, 1, 2}
      /\ \A f \in Fd : fdt[f] = NoFd
      /\ itab[0].direct = [k \in 0 .. NDirect - 1 |-> 0]
      /\ ReadDirectory(1) = <<Rec("tmp", 2)>> /\ \A d : ~Shifting(d)
      /\ InodeBlocks(1) = {2} /\ InodeBlocks(2) = {1}
  BY <1>1, FormattedIs
<1>3. itab[0].size = 0 /\ IsDir(1) /\ IsDir(2)
  <2>1. 1 \in Inode /\ 2 \in Inode /\ 0 \in Inode
    BY SizeAssumption, DiskFSAssumption DEF Inode
  <2>2. itab[0].size = 0 /\ itab[1].mode = "dir" /\ itab[2].mode = "dir"
    BY <2>1 DEF Init, FreshInode, SetBlock, Root, Tmp
  <2> QED BY <2>2 DEF IsDir
<1>4. BlocksOwned
  BY <1>2 DEF BlocksOwned
<1>5. Named(2)
  <2>1. Entries(Root) = <<Rec("tmp", 2)>>
    BY <1>2 DEF Entries, Root
  <2>2. NamedBy(Root, 1, 2)
    BY <2>1 DEF NamedBy, Rec, Dots
  <2>3. 1 \in DOMAIN Entries(Root)
    BY <2>1
  <2> QED BY <2>2, <2>3 DEF Named
<1>6. InodesNamed
  BY <1>2, <1>5 DEF InodesNamed, Root
<1>7. NewFileEmpty
  BY <1>2 DEF NewFileEmpty, Creating
<1>8. FilesFilled
  <2>1. \A i \in Live : ~IsDir(i) => i = 0
    BY <1>2, <1>3
  <2>2. NDirect \in Nat
    BY DiskFSAssumption
  <2>3. \A k \in 0 .. NDirect - 1 : itab[0].direct[k] # 0 <=> k < itab[0].size
    BY <1>2, <1>3, <2>2
  <2> QED BY <1>2, <2>1, <2>3 DEF FilesFilled
<1> QED BY <1>4, <1>6, <1>7, <1>8 DEF Owned, OwnSound

\* Between calls: what is used is an inode's, and every inode has its path.
LEMMA OwnedIsReached ==
  ASSUME IInv, Tree, Small, Owned  PROVE NothingLeaked
<1> SUFFICES ASSUME Settled
             PROVE  /\ mem.bmap \subseteq {0} \cup UNION {InodeBlocks(i) : i \in mem.imap}
                    /\ mem.imap \subseteq {0} \cup Reachable
  BY DEF NothingLeaked
<1>1. StateSound /\ pc = "idle"
  BY DEF StateSound, Settled, Tree, Small, Owned
<1>2. NewBlocks = {} /\ Live = mem.imap /\ \A d : Entries(d) = ReadDirectory(d)
  BY <1>1 DEF NewBlocks, Live, Removing, Entries, Shifting
<1>3. mem.bmap \subseteq {0} \cup UNION {InodeBlocks(i) : i \in mem.imap}
  BY <1>1, <1>2 DEF StateSound, OwnSound, BlocksOwned
<1>4. \A i \in mem.imap \ {0, Root} : Named(i)
  BY <1>1, <1>2 DEF StateSound, OwnSound, InodesNamed, Creating
<1>5. /\ LiveDirs = {Root, Tmp} /\ Tmp \in mem.imap /\ Tmp \in Inode /\ IsDir(Root) /\ IsDir(Tmp)
      /\ Root # Tmp
  BY <1>1, <1>2, FormatDirs
<1>6. ASSUME NEW S, NEW d \in S, IsDir(d), NEW k, NEW i, k \in DOMAIN Entries(d), NamedBy(d, k, i)
      PROVE  i \in Children(S)
  <2>1. ReadDirectory(d)[k].ino = i /\ k \in DOMAIN ReadDirectory(d)
    BY <1>2, <1>6 DEF NamedBy
  <2> QED BY <1>6, <2>1 DEF Children
<1>7. ASSUME NEW i, NEW k \in DOMAIN Entries(Root), NamedBy(Root, k, i)
      PROVE  i \in Children({Root})
  BY <1>5, <1>6, <1>7
<1>8. Tmp \in Children({Root})
  <2>1. Tmp \notin {0, Root}
    BY <1>5 DEF Tmp
  <2>2. PICK d \in {Root, Tmp} : \E k \in DOMAIN Entries(d) : NamedBy(d, k, Tmp)
    BY <1>4, <1>5, <2>1 DEF Named
  <2>3. PICK k \in DOMAIN Entries(d) : NamedBy(d, k, Tmp)
    BY <2>2
  <2>4. d # Tmp
    BY <1>1, <1>5, <2>3 DEF StateSound, TreeSound, RecordsSound
  <2> QED BY <1>7, <2>2, <2>3, <2>4
<1>9. ASSUME NEW i \in mem.imap, i # 0  PROVE i \in Reachable
  <2>1. CASE i = Root
    BY <2>1 DEF Reachable
  <2>2. CASE i # Root
    <3>1. PICK d \in {Root, Tmp} : \E k \in DOMAIN Entries(d) : NamedBy(d, k, i)
      BY <1>4, <1>9, <2>2 DEF Named
    <3>2. PICK k \in DOMAIN Entries(d) : NamedBy(d, k, i)
      BY <3>1
    <3>3. i \in Children({Root}) \/ i \in Children(Children({Root}))
      BY <1>5, <1>6, <1>7, <1>8, <3>1, <3>2
    <3> QED BY <3>3 DEF Reachable
  <2> QED BY <2>1, <2>2
<1> QED BY <1>3, <1>9

\* As long as no directories are made, and under the conditions of TreeHolds, a call
\* that ends leaves nothing behind, on whichever of its paths it ends: every block that
\* is marked used belongs to an inode, and every inode is named by a directory that a
\* path leads to (the rollbacks of fs_create_inode_with_mode and fs_fileio_write, and the
\* frees of fs_delete_path and of the truncating open).
THEOREM NothingLeakedHolds == Plain => (Spec => []NothingLeaked)
<1> SUFFICES ASSUME Plain  PROVE Spec => []NothingLeaked
  OBVIOUS
<1>1. Careful
  BY DEF Plain
<1>2. Init => Small /\ TornRests /\ Owned
  BY FormattedSmall, FormattedOwned
<1>3. IInv /\ Tree /\ Small /\ TornRests /\ [Next]_vars => Small' /\ TornRests'
  BY StepKept, TornSteps
<1>4. IInv /\ Tree /\ Small /\ TornRests /\ Owned /\ [Next]_vars /\ Small' => Owned'
  BY StepOwned
<1>5. IInv /\ Tree /\ Small /\ Owned => NothingLeaked
  BY OwnedIsReached
<1>6. Spec => []Tree
  BY <1>1, TreeHolds
<1> QED BY <1>2, <1>3, <1>4, <1>5, <1>6, InvariantHolds, PTL DEF Spec
=============================================================================
