---------------------------- MODULE MCUserMemory ----------------------------
(* A memory of a dozen frames for TLC. *)
EXTENDS UserMemory

const_UsableSets == {Frame \ {8}}

\* Nothing is followed after a copied page was freed by its address.
StopWhenWild == ~wild
=============================================================================
