--------------------------- MODULE MCSecretStore ----------------------------
(***************************************************************************)
(* Instances of SecretStore for TLC.                                       *)
(***************************************************************************)
EXTENDS SecretStore, TLC

CONSTANTS p1, p2, n1, n2, v1, v2

\* Two operations in each process.
TwoEach == [p \in Procs |-> 2]
=============================================================================
