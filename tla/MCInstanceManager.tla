------------------------- MODULE MCInstanceManager --------------------------
(***************************************************************************)
(* Instances of InstanceManager for TLC.                                   *)
(***************************************************************************)
EXTENDS InstanceManager, TLC

CONSTANTS t1, t2, t3, p1, p2, i1, i2, i3, a, podman, openshell

\* Three commands, two of which run in the same process.
TwoAndOne == (t1 :> p1) @@ (t2 :> p1) @@ (t3 :> p2)

\* Two threads of one process.
SameProcess == (t1 :> p1) @@ (t2 :> p1)

\* A workspace stored before records had timestamps.
OldRecord == [id |-> i1, name |-> <<a, 1>>, rt |-> podman, rid |-> i1,
              state |-> "stopped", created |-> FALSE, started |-> FALSE]

OldStored == {OldRecord}

\* The threads of one process are interchangeable.
Symmetry == Permutations({t1, t2})
=============================================================================
