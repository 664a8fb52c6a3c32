------------------------------ MODULE MCVfsFds ------------------------------
(***************************************************************************)
(* VfsFds with tables small enough to fill up: two descriptors for the     *)
(* files of two backends, and processes enough for a kill and a reuse of a *)
(* slot.                                                                   *)
(***************************************************************************)
EXTENDS VfsFds

SmallTables == [k \in Backend |-> CASE k = "disk" -> 2 [] k = "proc" -> 1 [] k = "dev" -> 0]

=============================================================================
