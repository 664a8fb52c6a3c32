-------------------------- MODULE FsBitmap_proofs --------------------------
(***************************************************************************)
(* Lemmas about the allocator operators of FsBitmap, for every number of   *)
(* blocks and inodes.                                                      *)
(***************************************************************************)
EXTENDS FsBitmap, FiniteSetTheorems, TLAPS

\* A nonempty set of natural numbers has a least element: the intervals from 0 to
\* its elements are finite sets, and inclusion is well founded on those.
LEMMA LowestExists ==
  ASSUME NEW S \in SUBSET Nat, S # {}
  PROVE  \E x \in S : \A y \in S : x <= y
<1> DEFINE F == {0 .. x : x \in S}
<1>1. ASSUME NEW x \in S  PROVE IsFiniteSet(0 .. x)
  BY FS_Interval, 0 \in Int, x \in Int, Zenon
<1>2. F \subseteq FiniteSubsetsOf(Nat) /\ F # {}
  BY <1>1 DEF FiniteSubsetsOf
<1>3. PICK D \in F : \A E \in F : ~ (<<E, D>> \in StrictSubsetOrdering(Nat))
  <2> HIDE DEF F
  <2> QED BY <1>2, FS_StrictSubsetOrderingWellFounded, WFMin, Zenon
<1>4. PICK x \in S : D = 0 .. x
  BY <1>3
<1>5. ASSUME NEW y \in S, y < x  PROVE FALSE
  <2>1. 0 .. y \in F /\ <<0 .. y, D>> \in StrictSubsetOrdering(Nat)
    BY <1>4, <1>5 DEF StrictSubsetOrdering
  <2> QED BY <1>3, <2>1
<1> QED BY <1>5

\* bitmap_find_free returns a bit that is clear, or -1 exactly if none is.
LEMMA FindFreeIsFree ==
  ASSUME NEW n \in Nat, NEW used \in SUBSET (0 .. n - 1)
  PROVE  \/ FindFree(used, 0 .. n - 1) = None /\ 0 .. n - 1 \subseteq used
         \/ FindFree(used, 0 .. n - 1) \in (0 .. n - 1) \ used
<1> DEFINE S == (0 .. n - 1) \ used
<1>1. CASE 0 .. n - 1 \subseteq used
  BY <1>1 DEF FindFree
<1>2. CASE ~ (0 .. n - 1 \subseteq used)
  <2>1. S \in SUBSET Nat /\ S # {}
    BY <1>2
  <2>2. \E x \in S : \A y \in S : x <= y
    BY <2>1, LowestExists
  <2>3. (CHOOSE x \in S : \A y \in S : x <= y) \in S
    BY <2>2
  <2> QED BY <1>2, <2>3 DEF FindFree
<1> QED BY <1>1, <1>2

-----------------------------------------------------------------------------
\* The counters agree with the bitmaps and the reserved inodes are in use.
Sound(m) == Exact(m) /\ Reserved \subseteq m.imap

LEMMA ReservedSize == IsFiniteSet(Reserved) /\ Cardinality(Reserved) = 2
<1>1. IsFiniteSet({0}) /\ Cardinality({0}) = 1
  BY FS_Singleton, Zenon
<1>2. Reserved = {0} \cup {1} /\ 1 \notin {0}
  BY DEF Reserved
<1>3. /\ IsFiniteSet({0} \cup {1})
      /\ Cardinality({0} \cup {1}) = IF 1 \in {0} THEN Cardinality({0}) ELSE Cardinality({0}) + 1
  BY <1>1, FS_AddElement, Zenon
<1> QED BY <1>1, <1>2, <1>3

LEMMA IndexSets ==
  /\ IsFiniteSet(Block) /\ Cardinality(Block) = NBlocks
  /\ IsFiniteSet(Inode) /\ Cardinality(Inode) = NInodes
  /\ Reserved \subseteq Inode
  /\ IsFiniteSet(Inode \ Reserved) /\ Cardinality(Inode \ Reserved) = NInodes - 2
<1>1. ASSUME NEW n \in Nat
      PROVE  IsFiniteSet(0 .. n - 1) /\ Cardinality(0 .. n - 1) = n
  <2>1. 0 \in Int /\ n - 1 \in Int
    OBVIOUS
  <2>2. /\ IsFiniteSet(0 .. n - 1)
        /\ Cardinality(0 .. n - 1) = IF 0 > n - 1 THEN 0 ELSE (n - 1) - 0 + 1
    BY <2>1, FS_Interval, Zenon
  <2> QED BY <2>2
<1>2. /\ IsFiniteSet(Block) /\ Cardinality(Block) = NBlocks
      /\ IsFiniteSet(Inode) /\ Cardinality(Inode) = NInodes
  BY <1>1, SizeAssumption DEF Block, Inode
<1>3. Reserved \subseteq Inode
  BY SizeAssumption DEF Reserved, Inode
<1>4. /\ IsFiniteSet(Inode \ {0})
      /\ Cardinality(Inode \ {0}) = IF 0 \in Inode THEN Cardinality(Inode) - 1 ELSE Cardinality(Inode)
  BY <1>2, FS_RemoveElement, Zenon
<1>5. /\ IsFiniteSet((Inode \ {0}) \ {1})
      /\ Cardinality((Inode \ {0}) \ {1}) =
           IF 1 \in Inode \ {0} THEN Cardinality(Inode \ {0}) - 1 ELSE Cardinality(Inode \ {0})
  BY <1>4, FS_RemoveElement, Zenon
<1>6. Inode \ Reserved = (Inode \ {0}) \ {1} /\ 0 \in Inode /\ 1 \in Inode \ {0}
  BY <1>3 DEF Reserved
<1>7. NInodes \in Int
  BY SizeAssumption
<1> QED BY <1>2, <1>3, <1>4, <1>5, <1>6, <1>7

\* How taking a clear bit out of the clear bits, or adding one, changes their
\* number.
LEMMA ClearBits ==
  ASSUME NEW bits, IsFiniteSet(bits), NEW used \in SUBSET bits, NEW x \in bits
  PROVE  /\ IsFiniteSet(bits \ used) /\ Cardinality(bits \ used) \in Nat
         /\ Cardinality(bits \ used) <= Cardinality(bits)
         /\ x \notin used =>
              Cardinality(bits \ (used \cup {x})) = Cardinality(bits \ used) - 1
         /\ x \in used =>
              Cardinality(bits \ (used \ {x})) = Cardinality(bits \ used) + 1
<1>1. bits \ used \in SUBSET bits
  OBVIOUS
<1>2. /\ IsFiniteSet(bits \ used)
      /\ Cardinality(bits \ used) <= Cardinality(bits)
  BY <1>1, FS_Subset, Zenon
<1>3. Cardinality(bits \ used) \in Nat
  BY <1>2, FS_CardinalityType, Zenon
<1>4. ASSUME x \notin used
      PROVE  Cardinality(bits \ (used \cup {x})) = Cardinality(bits \ used) - 1
  <2>1. bits \ (used \cup {x}) = (bits \ used) \ {x}
    OBVIOUS
  <2>2. Cardinality((bits \ used) \ {x}) =
          IF x \in bits \ used THEN Cardinality(bits \ used) - 1 ELSE Cardinality(bits \ used)
    BY <1>2, FS_RemoveElement, Zenon
  <2> QED BY <1>4, <2>1, <2>2
<1>5. ASSUME x \in used
      PROVE  Cardinality(bits \ (used \ {x})) = Cardinality(bits \ used) + 1
  <2>1. bits \ (used \ {x}) = (bits \ used) \cup {x}
    OBVIOUS
  <2>2. Cardinality((bits \ used) \cup {x}) =
          IF x \in bits \ used THEN Cardinality(bits \ used) ELSE Cardinality(bits \ used) + 1
    BY <1>2, FS_AddElement, Zenon
  <2> QED BY <1>5, <2>1, <2>2
<1> QED BY <1>2, <1>3, <1>4, <1>5

\* Each allocator call keeps the record's type, whatever the counters say, and
\* keeps counters that are right right.
LEMMA AllocateBlockKeeps ==
  ASSUME NEW m \in Allocator
  PROVE  /\ AllocateBlock(m) \in Allocator
         /\ Sound(m) => Sound(AllocateBlock(m))
<1> DEFINE x == FreeBlockNo(m)
<1>0. NBlocks \in Nat /\ NInodes \in Nat
  BY SizeAssumption
<1>1. CASE x = None
  BY <1>1 DEF AllocateBlock
<1>2. CASE x # None
  <2>1. m.bmap \in SUBSET (0 .. NBlocks - 1)
    BY DEF Allocator, Block
  <2>2. x \in Block \ m.bmap
    BY <1>0, <1>2, <2>1, FindFreeIsFree DEF FreeBlockNo, Block
  <2>3. AllocateBlock(m) = [m EXCEPT !.bmap = @ \cup {x},
                                     !.freeB = IF @ > 0 THEN @ - 1 ELSE @,
                                     !.bmDirty = TRUE, !.sbDirty = TRUE]
    BY <1>2 DEF AllocateBlock
  <2>4. AllocateBlock(m) \in Allocator
    <3>1. (IF m.freeB > 0 THEN m.freeB - 1 ELSE m.freeB) \in 0 .. NBlocks
      BY <1>0 DEF Allocator
    <3>2. m.bmap \cup {x} \in SUBSET Block
      BY <2>1, <2>2 DEF Block
    <3> HIDE DEF x
    <3> QED BY <2>3, <3>1, <3>2 DEF Allocator
  <2>5. ASSUME Sound(m)  PROVE Sound(AllocateBlock(m))
    <3>1. m.bmap \in SUBSET Block /\ IsFiniteSet(Block)
      BY IndexSets DEF Allocator
    <3>2. /\ Cardinality(Block \ m.bmap) \in Nat
          /\ Cardinality(Block \ (m.bmap \cup {x})) = Cardinality(Block \ m.bmap) - 1
      BY <2>2, <3>1, ClearBits
    <3>3. Cardinality(Block \ (m.bmap \cup {x})) \in Nat
      <4>1. m.bmap \cup {x} \in SUBSET Block
        BY <2>2, <3>1
      <4> QED BY <2>2, <3>1, <4>1, ClearBits
    <3>4. m.freeB > 0 /\ m.freeB = Cardinality(Block \ m.bmap)
      BY <2>5, <3>2, <3>3 DEF Sound, Exact
    <3>5. /\ AllocateBlock(m).bmap = m.bmap \cup {x}
          /\ AllocateBlock(m).freeB = m.freeB - 1
          /\ AllocateBlock(m).imap = m.imap
          /\ AllocateBlock(m).freeI = m.freeI
      <4> HIDE DEF x
      <4> QED BY <2>3, <3>4 DEF Allocator
    <3> HIDE DEF x
    <3> QED BY <2>5, <3>2, <3>4, <3>5 DEF Sound, Exact
  <2> QED BY <2>4, <2>5
<1> QED BY <1>1, <1>2

LEMMA FreeBlockKeeps ==
  ASSUME NEW m \in Allocator, NEW b
  PROVE  /\ FreeBlock(m, b) \in Allocator
         /\ Sound(m) => Sound(FreeBlock(m, b))
<1>0. NBlocks \in Nat /\ NInodes \in Nat
  BY SizeAssumption
<1>1. CASE ~ (b \in Block /\ b \in m.bmap)
  BY <1>1 DEF FreeBlock
<1>2. CASE b \in Block /\ b \in m.bmap
  <2>1. FreeBlock(m, b) = [m EXCEPT !.bmap = @ \ {b},
                                    !.freeB = IF @ < NBlocks THEN @ + 1 ELSE @,
                                    !.bmDirty = TRUE, !.sbDirty = TRUE]
    BY <1>2 DEF FreeBlock
  <2>2. FreeBlock(m, b) \in Allocator
    <3>1. (IF m.freeB < NBlocks THEN m.freeB + 1 ELSE m.freeB) \in 0 .. NBlocks
      BY <1>0 DEF Allocator
    <3>2. m.bmap \ {b} \in SUBSET Block
      BY DEF Allocator
    <3> QED BY <2>1, <3>1, <3>2 DEF Allocator
  <2>3. ASSUME Sound(m)  PROVE Sound(FreeBlock(m, b))
    <3>1. m.bmap \in SUBSET Block /\ IsFiniteSet(Block) /\ Cardinality(Block) = NBlocks
      BY IndexSets DEF Allocator
    <3>2. /\ Cardinality(Block \ m.bmap) \in Nat
          /\ Cardinality(Block \ (m.bmap \ {b})) = Cardinality(Block \ m.bmap) + 1
      BY <1>2, <3>1, ClearBits
    <3>3. m.bmap \ {b} \in SUBSET Block
      BY <3>1
    <3>4. Cardinality(Block \ (m.bmap \ {b})) <= NBlocks
      BY <1>2, <3>1, <3>3, ClearBits
    <3>5. m.freeB < NBlocks /\ m.freeB = Cardinality(Block \ m.bmap)
      BY <1>0, <2>3, <3>2, <3>4 DEF Sound, Exact
    <3>6. /\ FreeBlock(m, b).bmap = m.bmap \ {b}
          /\ FreeBlock(m, b).freeB = m.freeB + 1
          /\ FreeBlock(m, b).imap = m.imap
          /\ FreeBlock(m, b).freeI = m.freeI
      BY <2>1, <3>5 DEF Allocator
    <3> QED BY <2>3, <3>2, <3>5, <3>6 DEF Sound, Exact
  <2> QED BY <2>2, <2>3
<1> QED BY <1>1, <1>2

LEMMA AllocateInodeKeeps ==
  ASSUME NEW m \in Allocator
  PROVE  /\ AllocateInode(m) \in Allocator
         /\ Sound(m) => Sound(AllocateInode(m))
<1> DEFINE x == FreeInodeNo(m)
<1>0. NBlocks \in Nat /\ NInodes \in Nat
  BY SizeAssumption
<1>1. CASE x = None
  BY <1>1 DEF AllocateInode
<1>2. CASE x # None
  <2>1. m.imap \in SUBSET (0 .. NInodes - 1)
    BY DEF Allocator, Inode
  <2>2. x \in Inode \ m.imap
    BY <1>0, <1>2, <2>1, FindFreeIsFree DEF FreeInodeNo, Inode
  <2>3. AllocateInode(m) = [m EXCEPT !.imap = @ \cup {x},
                                     !.freeI = IF @ > 0 THEN @ - 1 ELSE @,
                                     !.bmDirty = TRUE, !.sbDirty = TRUE]
    BY <1>2 DEF AllocateInode
  <2>4. AllocateInode(m) \in Allocator
    <3>1. (IF m.freeI > 0 THEN m.freeI - 1 ELSE m.freeI) \in 0 .. NInodes
      BY <1>0 DEF Allocator
    <3>2. m.imap \cup {x} \in SUBSET Inode
      BY <2>1, <2>2 DEF Inode
    <3> HIDE DEF x
    <3> QED BY <2>3, <3>1, <3>2 DEF Allocator
  <2>5. ASSUME Sound(m)  PROVE Sound(AllocateInode(m))
    <3>1. m.imap \in SUBSET Inode /\ IsFiniteSet(Inode)
      BY IndexSets DEF Allocator
    <3>2. /\ Cardinality(Inode \ m.imap) \in Nat
          /\ Cardinality(Inode \ (m.imap \cup {x})) = Cardinality(Inode \ m.imap) - 1
      BY <2>2, <3>1, ClearBits
    <3>3. m.freeI > 0 /\ m.freeI = Cardinality(Inode \ m.imap) + 2
      BY <2>5, <3>2, ReservedSize DEF Sound, Exact
    <3>4. /\ AllocateInode(m).imap = m.imap \cup {x}
          /\ AllocateInode(m).freeI = m.freeI - 1
          /\ AllocateInode(m).bmap = m.bmap
          /\ AllocateInode(m).freeB = m.freeB
      <4> HIDE DEF x
      <4> QED BY <2>3, <3>3 DEF Allocator
    <3> HIDE DEF x
    <3> QED BY <2>5, <3>2, <3>3, <3>4, ReservedSize DEF Sound, Exact
  <2> QED BY <2>4, <2>5
<1> QED BY <1>1, <1>2

LEMMA FreeInodeKeeps ==
  ASSUME NEW m \in Allocator, NEW i, i \notin Reserved
  PROVE  /\ FreeInode(m, i) \in Allocator
         /\ Sound(m) => Sound(FreeInode(m, i))
<1>0. NBlocks \in Nat /\ NInodes \in Nat
  BY SizeAssumption
<1>1. CASE ~ (i \in Inode /\ i \in m.imap)
  BY <1>1 DEF FreeInode
<1>2. CASE i \in Inode /\ i \in m.imap
  <2>1. FreeInode(m, i) = [m EXCEPT !.imap = @ \ {i},
                                    !.freeI = IF @ < NInodes THEN @ + 1 ELSE @,
                                    !.bmDirty = TRUE, !.sbDirty = TRUE]
    BY <1>2 DEF FreeInode
  <2>2. FreeInode(m, i) \in Allocator
    <3>1. (IF m.freeI < NInodes THEN m.freeI + 1 ELSE m.freeI) \in 0 .. NInodes
      BY <1>0 DEF Allocator
    <3>2. m.imap \ {i} \in SUBSET Inode
      BY DEF Allocator
    <3> QED BY <2>1, <3>1, <3>2 DEF Allocator
  <2>3. ASSUME Sound(m)  PROVE Sound(FreeInode(m, i))
    <3>1. m.imap \in SUBSET Inode /\ IsFiniteSet(Inode)
      BY IndexSets DEF Allocator
    <3>2. /\ Cardinality(Inode \ m.imap) \in Nat
          /\ Cardinality(Inode \ (m.imap \ {i})) = Cardinality(Inode \ m.imap) + 1
      BY <1>2, <3>1, ClearBits
    <3>3. Reserved \subseteq m.imap \ {i}
      BY <2>3 DEF Sound
    <3>4. Inode \ (m.imap \ {i}) \in SUBSET (Inode \ Reserved)
      BY <3>3
    <3>5. Cardinality(Inode \ (m.imap \ {i})) <= NInodes - 2
      BY <3>4, IndexSets, FS_Subset, Zenon
    <3>6. m.freeI < NInodes /\ m.freeI = Cardinality(Inode \ m.imap) + 2
      BY <1>0, <2>3, <3>2, <3>5, ReservedSize DEF Sound, Exact
    <3>7. /\ FreeInode(m, i).imap = m.imap \ {i}
          /\ FreeInode(m, i).freeI = m.freeI + 1
          /\ FreeInode(m, i).bmap = m.bmap
          /\ FreeInode(m, i).freeB = m.freeB
      BY <2>1, <3>6 DEF Allocator
    <3> QED BY <2>3, <3>2, <3>3, <3>6, <3>7, ReservedSize DEF Sound, Exact
  <2> QED BY <2>2, <2>3
<1> QED BY <1>1, <1>2

=============================================================================
