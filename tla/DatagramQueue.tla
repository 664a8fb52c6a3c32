---------------------------- MODULE DatagramQueue ----------------------------
(***************************************************************************)
(* What a receive queue shared by several ports promises: a datagram is    *)
(* appended, or turned away when the queue is full; the one taken for a    *)
(* port is the oldest of that port; and nothing else disappears, except    *)
(* when the whole queue is emptied.                                        *)
(***************************************************************************)
EXTENDS Naturals, Sequences, SequencesExt

CONSTANT Size

VARIABLE waiting

Init == waiting = <<>>

Accept ==
    /\ Len(waiting) < Size
    /\ Len(waiting') = Len(waiting) + 1
    /\ Front(waiting') = waiting

Take ==
    \E k \in 1 .. Len(waiting) :
        /\ \A j \in 1 .. k - 1 : waiting[j].dst # waiting[k].dst
        /\ waiting' = RemoveAt(waiting, k)

Flush == waiting' = <<>>

Next == Accept \/ Take \/ Flush

Spec == Init /\ [][Next]_waiting
=============================================================================
