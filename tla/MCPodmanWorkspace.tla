-------------------------- MODULE MCPodmanWorkspace --------------------------
(***************************************************************************)
(* Instances of PodmanWorkspace for TLC.                                   *)
(***************************************************************************)
EXTENDS PodmanWorkspace, TLC

CONSTANTS p1, p2, i1, i2, h1

\* The agent stops first, or last.
AgentFirst == <<"workspace", "guard", "handler", "onecli", "postgres">>
AgentLast  == <<"postgres", "onecli", "handler", "guard", "workspace">>
BothOrders == {AgentFirst, AgentLast}

\* Processes and container ids are interchangeable.
Symmetry == Permutations(Procs) \cup Permutations(Ids)
=============================================================================
