------------------------------ MODULE MCSched -------------------------------
(***************************************************************************)
(* Sched with a small process table.                                       *)
(***************************************************************************)
EXTENDS Sched

=============================================================================
