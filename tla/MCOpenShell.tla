---------------------------- MODULE MCOpenShell ------------------------------
(***************************************************************************)
(* Instances of OpenShell for TLC.                                         *)
(***************************************************************************)
EXTENDS OpenShell, TLC

CONSTANTS p1, p2, n1, n2, podman, vm, g1, g2, web, db

\* The first workspace has two ports, the second one has none.
TwoPorts == (n1 :> <<web, db>>) @@ (n2 :> << >>)

OnePort == n1 :> <<web>>

\* Processes and process ids of gateways are interchangeable.
Symmetry == Permutations(Procs) \cup Permutations(Pids)
=============================================================================
