--------------------------- MODULE AddressSpaces ---------------------------
(***************************************************************************)
(* What the memory manager promises to processes: each holds a set of      *)
(* physical frames; a frame that a process gets is held by nobody else; and *)
(* two processes come to hold the same frame only when one is forked from  *)
(* the other.  A dead process keeps what it held until it is reclaimed or  *)
(* its place is taken.                                                     *)
(***************************************************************************)
CONSTANTS Procs, Frames

VARIABLES alive, holds

vars == <<alive, holds>>

Init == alive = {} /\ holds = [p \in Procs |-> {}]

\* Only p's frames change, and those it gets were not held by the processes in
\* S, except the ones in "common".
Regain(p, S, common) ==
    /\ \A q \in Procs \ {p} : holds'[q] = holds[q]
    /\ holds'[p] \subseteq Frames
    /\ \A q \in S \ {p} : holds'[p] \cap holds[q] \subseteq common

\* A live process gives frames back and gets new ones.
Change(p) ==
    /\ p \in alive /\ alive' = alive
    /\ Regain(p, Procs, holds[p])

Start(p) ==
    /\ p \notin alive /\ alive' \in {alive, alive \cup {p}}
    /\ Regain(p, Procs, {})

\* The child starts with frames of its parent and new ones.
Fork(p, q) ==
    /\ p \in alive /\ q \notin alive /\ alive' = alive \cup {q}
    /\ Regain(q, Procs, holds[p])

Die(p) ==
    /\ p \in alive /\ alive' = alive \ {p}
    /\ Regain(p, {}, {}) /\ holds'[p] \in {holds[p], {}}

Reclaim(p) ==
    /\ p \notin alive /\ alive' = alive
    /\ Regain(p, {}, {}) /\ holds'[p] = {}

Next ==
    \E p \in Procs :
        \/ Change(p) \/ Start(p) \/ Die(p) \/ Reclaim(p)
        \/ \E q \in Procs \ {p} : Fork(p, q)

Spec == Init /\ [][Next]_vars
=============================================================================
