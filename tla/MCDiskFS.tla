------------------------------ MODULE MCDiskFS ------------------------------
(***************************************************************************)
(* DiskFS on a small disk: the paths and the flag sets of the runs.        *)
(***************************************************************************)
EXTENDS DiskFS, TLC

A == <<"a">>
B == <<"b">>
D == <<"d">>
InD == <<"d", "a">>

NoPaths == {}
TwoPaths == {A, B}
OnePath == {InD}
TreeDirs == {D}

\* The flag sets of the shell's writers, appenders and creators.
WriteCT == {"R", "W", "C", "T"}
WriteCA == {"W", "C", "A"}
ReadCreate == {"R", "C"}
TruncOrAppend == {WriteCT, WriteCA}
AppendOnly == {WriteCA}
CreateOnly == {ReadCreate}

\* No property tells one value from another.
ValueSymmetry == Permutations(Values)

=============================================================================
