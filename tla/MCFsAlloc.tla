----------------------------- MODULE MCFsAlloc -----------------------------
(***************************************************************************)
(* FsAlloc on a disk of three blocks and four inodes, two of them          *)
(* reserved.                                                               *)
(***************************************************************************)
EXTENDS FsAlloc

=============================================================================
