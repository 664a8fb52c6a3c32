------------------------------- MODULE Buddy -------------------------------
(***************************************************************************)
(* The frame allocator of memory.c: free blocks of 2^k frames, merged with *)
(* their buddies when they are freed, and a reference count per frame.     *)
(* Frames are numbered from buddy_base_frame ("rel" in the code).          *)
(*                                                                         *)
(* A memory is a record m: m.free[k] is the free list of order k, head     *)
(* first, of blocks named by their first frame; m.refs is frame_refcount.  *)
(* buddy_is_free and buddy_order_map say of a frame which list it is in;   *)
(* frame_bitmap says refs # 0.                                             *)
(***************************************************************************)
EXTENDS Naturals, FiniteSets, SequencesExt

CONSTANTS
    Total,      \* buddy_total_frames
    TopOrder    \* buddy_max_order

ASSUME BuddyAssumption ==
    /\ Total \in Nat \ {0}
    /\ TopOrder \in Nat
    /\ 2^TopOrder <= Total /\ Total < 2^(TopOrder + 1)

Frame  == 0 .. Total - 1
Orders == 0 .. TopOrder

Span(rel, order) == rel .. rel + 2^order - 1

\* The block of an order that a frame is in, and that block's buddy,
\* block ^ (1 << order).
Block(rel, order) == (rel \div 2^order) * 2^order
BuddyOf(rel, order) ==
    IF (rel \div 2^order) % 2 = 0
    THEN Block(rel, order) + 2^order
    ELSE Block(rel, order) - 2^order

FreeBlocks(free)  == {<<b, k>> \in Frame \X Orders : Contains(free[k], b)}
FreeFrames(m) == UNION {Span(x[1], x[2]) : x \in FreeBlocks(m.free)}
Used(m)       == {f \in Frame : m.refs[f] # 0}

\* A merge that does not ask for the order of the buddy (for the mutants).
ReachAnyOrder(free, rel, order) ==
    LET heads == {x[1] : x \in FreeBlocks(free)}
    IN  CHOOSE k \in order .. TopOrder :
            /\ \A j \in order .. k - 1 : BuddyOf(rel, j) \in heads
            /\ k = TopOrder \/ BuddyOf(rel, k) \notin heads

\* The order at which the loop of buddy_free_block stops: it goes on while the
\* buddy is a free block of the same order.
Reach(free, rel, order) ==
    CHOOSE k \in order .. TopOrder :
        /\ \A j \in order .. k - 1 : Contains(free[j], BuddyOf(rel, j))
        /\ k = TopOrder \/ ~Contains(free[k], BuddyOf(rel, k))

\* buddy_free_block: the buddies met on the way leave their lists, the merged
\* block enters one (buddy_list_remove, buddy_list_push).
BuddyFreeBlock(free, rel, order) ==
    LET k == Reach(free, rel, order)
    IN  [j \in Orders |->
            IF j = k THEN <<Block(rel, k)>> \o free[j]
            ELSE IF j \in order .. k - 1
                 THEN SelectSeq(free[j], LAMBDA b : b # BuddyOf(rel, j))
                 ELSE free[j]]

\* buddy_alloc_block: the head of the smallest order that has a block, split
\* down to the order asked for; the upper halves become the lists between.
BuddyAllocBlock(free, order) ==
    LET fits  == {k \in order .. TopOrder : free[k] # <<>>}
        found == Min(fits)
        rel   == Head(free[found])
    IN  IF fits = {} THEN [ok |-> FALSE]
        ELSE [ok   |-> TRUE,
              rel  |-> rel,
              free |-> [j \in Orders |->
                           IF j = found THEN Tail(free[j])
                           ELSE IF j \in order .. found - 1 THEN <<rel + 2^j>>
                                ELSE free[j]]]

\* alloc_pages, and alloc_page for order 0: the frames taken and the memory
\* after it.  Every frame of the block is counted once.
AllocPages(m, order) ==
    LET a == BuddyAllocBlock(m.free, order)
    IN  IF ~a.ok THEN [ok |-> FALSE, got |-> {}, mem |-> m]
        ELSE [ok  |-> TRUE,
              got |-> Span(a.rel, order),
              mem |-> [free |-> a.free,
                       refs |-> [f \in Frame |-> IF f \in Span(a.rel, order)
                                                 THEN 1 ELSE m.refs[f]]]]

\* free_pages of an order above 0: the counts are not asked for.
FreePages(m, block, order) ==
    [free |-> BuddyFreeBlock(m.free, Min(block), order),
     refs |-> [f \in Frame |-> IF f \in block THEN 0 ELSE m.refs[f]]]

\* free_page: a frame counted more than once only loses a count.
FreePage(m, f) ==
    IF m.refs[f] > 1 THEN [m EXCEPT !.refs[f] = @ - 1]
    ELSE FreePages(m, {f}, 0)

\* Loops of free_page: over the pages of a region, upwards, and over a
\* sequence of frames.
Upwards(S) ==
    [i \in 1 .. Cardinality(S) |->
        CHOOSE x \in S : Cardinality({y \in S : y < x}) = i - 1]
FreeSeq(m, frames) == FoldLeft(FreePage, m, frames)
FreeEach(m, S) == FreeSeq(m, Upwards(S))

\* A fork that does not count the shared pages (for the mutants).
IncNothing(m, S) == m

\* paging_inc_page_ref over the pages of a region.
IncRefs(m, S) ==
    [m EXCEPT !.refs = [f \in Frame |-> m.refs[f] + (IF f \in S THEN 1 ELSE 0)]]

\* init_buddy_allocator: the usable frames are freed one by one, so the lists
\* start with the largest blocks that lie in them.
BuddyInit(usable) ==
    [free |-> FoldLeft(LAMBDA acc, f : BuddyFreeBlock(acc, f, 0),
                       [k \in Orders |-> <<>>], Upwards(usable)),
     refs |-> [f \in Frame |-> IF f \in usable THEN 0 ELSE 1]]
=============================================================================
