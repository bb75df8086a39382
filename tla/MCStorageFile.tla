--------------------------- MODULE MCStorageFile ----------------------------
(***************************************************************************)
(* Instances of StorageFile for TLC.                                       *)
(***************************************************************************)
EXTENDS StorageFile, TLC

CONSTANTS p1, p2, p3, i1, i2, i3, f1, f2, f3, f4

\* POSIX with every fault, Windows with none.
FaultyPosix == {<<"posix", "crash">>, <<"posix", "io">>}

\* Processes, inodes and ids are interchangeable.
Symmetry == Permutations(Procs) \cup Permutations(Inodes) \cup Permutations(Ids)
=============================================================================
