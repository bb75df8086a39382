-------------------------- MODULE InstanceRegistry --------------------------
(***************************************************************************)
(* What pkg/instances promises of instances.json, whatever the number of   *)
(* kdn processes that share the storage directory: the registry is a set   *)
(* of workspaces that changes only by whole, atomic operations.  An id is  *)
(* reserved once and registered at most once; a workspace keeps its        *)
(* identity and its creation time for as long as it is registered, and     *)
(* leaves only when it is deleted or reconciled away.  InstanceManager,    *)
(* with its unlocked loads, its locks and its crashes, is shown to         *)
(* implement this module.                                                  *)
(***************************************************************************)

CONSTANTS
    Instance,   \* the records a registry may hold
    Legacy      \* the records found on disk at the start

VARIABLES
    registry,   \* the workspaces registered now
    pending,    \* the ids reserved by registrations in progress
    used        \* the ids reserved or registered at some time

IdsOf(insts) == {r.id : r \in insts}

Init ==
    /\ registry = Legacy
    /\ pending = {}
    /\ used = IdsOf(Legacy)

\* A registration starts with an id that no workspace ever had.
Reserve(id) ==
    /\ id \notin used
    /\ used' = used \cup {id}
    /\ pending' = pending \cup {id}
    /\ UNCHANGED registry

\* It ends with a new workspace, or with nothing.
Register(r) ==
    /\ r.id \in pending
    /\ r.id \notin IdsOf(registry)
    /\ registry' = registry \cup {r}
    /\ pending' = pending \ {r.id}
    /\ UNCHANGED used

Abandon(ids) ==
    /\ pending' = pending \ ids
    /\ UNCHANGED <<registry, used>>

\* Starting or stopping changes the state and the start time, nothing else.
Update(r, state, started) ==
    /\ registry' = (registry \ {r})
                       \cup {[r EXCEPT !.state = state, !.started = started]}
    /\ UNCHANGED <<pending, used>>

\* Deleting a workspace removes its record; reconciling removes several.
Unregister(gone) ==
    /\ registry' = registry \ gone
    /\ UNCHANGED <<pending, used>>

\* Records without a creation time receive one, all of them at once.
Backfill ==
    /\ registry' = {[r EXCEPT !.created = TRUE] : r \in registry}
    /\ UNCHANGED <<pending, used>>

Next ==
    \/ \E id \in {r.id : r \in Instance} : Reserve(id)
    \/ \E r \in Instance : Register(r)
    \/ \E ids \in SUBSET pending : Abandon(ids)
    \/ \E r \in registry, s \in {"stopped", "running"}, b \in BOOLEAN :
          Update(r, s, b)
    \/ \E gone \in SUBSET registry : Unregister(gone)
    \/ Backfill

Spec == Init /\ [][Next]_<<registry, pending, used>>
=============================================================================
