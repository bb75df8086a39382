-------------------------- MODULE InstanceManager ---------------------------
(***************************************************************************)
(* The lifecycle of workspaces in pkg/instances/manager.go: several kdn    *)
(* processes share one storage directory, each with one manager whose      *)
(* methods run on the threads of that process.                             *)
(*                                                                         *)
(* A manager guards its own threads with an RWMutex (mode), and processes  *)
(* against each other with flock on instances.json.lock (flock).  Every    *)
(* method first loads instances.json WITHOUT the file lock, then calls the *)
(* runtime, and only then enters the critical section that reloads the     *)
(* file, changes the list and saves it.  Each of these is a step here.     *)
(*                                                                         *)
(* The runtime (podman, openshell, fake) is the contract of                *)
(* pkg/runtime/runtime.go: each call is one step on the set of runtime     *)
(* instances, here called pods, and may fail, before or after its effect.  *)
(*                                                                         *)
(* Abstractions.  The stored list is a set: its order only decides which   *)
(* of several equal names Get returns.  A name is a base and a suffix, 1   *)
(* for the bare base.  A timestamp is known only as zero or not.  Methods  *)
(* that fail before they change anything are stuttering steps.             *)
(***************************************************************************)
EXTENDS Naturals, FiniteSets

CONSTANTS
    Threads, Procs, ProcOf,    \* ProcOf[t] is the process thread t runs in
    Ids,                       \* what the generator may return
    Bases,                     \* sanitized names asked for
    Runtimes,                  \* registered runtime types
    NameKeyed,                 \* those whose instance id is made from the name
    Legacy,                    \* records stored before this history begins
    NoRec,                     \* no instance record
    MaxSuffix,                 \* bound on the increment of a name
    MaxOps,                    \* bound on the operations a thread calls
    Faults,                    \* what may go wrong: see FaultKinds
    UseReconcile               \* whether some caller runs Reconcile

Names == Bases \X (1..MaxSuffix)

States == {"stopped", "running"}

Instance == [id : Ids, name : Names, rt : Runtimes, rid : Names \cup Ids,
             state : States, created : BOOLEAN, started : BOOLEAN]

Pod == [rt : Runtimes, rid : Names \cup Ids, name : Names, state : States]

(***************************************************************************)
(* crash: a process dies between two steps.  save: writing the file fails. *)
(* leftover: a Create fails and leaves an instance behind.  partial: one   *)
(* of the other runtime calls fails after it took effect.  external:       *)
(* somebody stops, starts or removes a pod without kdn.  collision: the    *)
(* generator returns an id again.                                          *)
(***************************************************************************)
FaultKinds == {"crash", "save", "leftover", "partial", "external", "collision"}

Kinds == {"none", "migrate", "add", "start", "stop", "delete", "terminal",
          "reconcile"}

Labels == {"idle", "create", "rtstart", "rtstop", "rtinfo", "rtremove",
           "lock", "autostart", "attach", "session", "flock", "reload",
           "write"}

Modes == {"free", "read", "write"}

IdsOf(insts) == {r.id : r \in insts}

PodOf(r) == [rt |-> r.rt, rid |-> r.rid, name |-> r.name, state |-> r.state]

ASSUME ConstantsAssumption ==
    /\ ProcOf \in [Threads -> Procs]
    /\ NameKeyed \subseteq Runtimes
    /\ MaxSuffix \in Nat
    /\ MaxOps \in Nat
    /\ Faults \subseteq FaultKinds
    /\ UseReconcile \in BOOLEAN

ASSUME LegacyAssumption ==
    /\ Legacy \subseteq Instance
    /\ \A r, s \in Legacy : r.id = s.id => r = s

ASSUME NoRecAssumption == NoRec \notin Instance

VARIABLES
    file,      \* the records in instances.json
    pods,      \* the runtime instances that exist
    issued,    \* the ids the generator has returned
    flock,     \* the threads that hold instances.json.lock
    mode,      \* mode[t]: how thread t holds the RWMutex of its manager
    booted,    \* booted[p]: NewManager has returned in process p
    pc,        \* pc[t]: what thread t does next
    kind,      \* kind[t]: the method thread t executes
    rec,       \* rec[t]: the record it found, then the one it will store
    cur,       \* cur[t]: the list it reloaded under the file lock
    budget     \* budget[t]: how many operations t may still call

vars == <<file, pods, issued, flock, mode, booted, pc, kind, rec, cur, budget>>

Init ==
    /\ file = Legacy
    /\ pods = {PodOf(r) : r \in Legacy}
    /\ issued = IdsOf(Legacy)
    /\ flock = {}
    /\ mode = [t \in Threads |-> "free"]
    /\ booted = [p \in Procs |-> FALSE]
    /\ pc = [t \in Threads |-> "idle"]
    /\ kind = [t \in Threads |-> "none"]
    /\ rec = [t \in Threads |-> NoRec]
    /\ cur = [t \in Threads |-> {}]
    /\ budget = [t \in Threads |-> MaxOps]

-----------------------------------------------------------------------------
(* Locks, control and return.                                              *)

Mates(t) == {u \in Threads : ProcOf[u] = ProcOf[t]}

\* Mutant: no lock at all.
CanLock_none(t) == t \in Threads

CanLock(t) == \A u \in Mates(t) : mode[u] = "free"

CanRLock(t) == \A u \in Mates(t) : mode[u] # "write"

Goto(t, label) == pc' = [pc EXCEPT ![t] = label]

SetMode(t, m) == mode' = [mode EXCEPT ![t] = m]

\* The method returns: deferred unlocks run and its locals are gone.
Return(t) ==
    /\ Goto(t, "idle")
    /\ SetMode(t, "free")
    /\ kind' = [kind EXCEPT ![t] = "none"]
    /\ rec' = [rec EXCEPT ![t] = NoRec]
    /\ cur' = [cur EXCEPT ![t] = {}]

\* A caller, whose manager is constructed, calls method k.
Call(t, k) ==
    /\ pc[t] = "idle"
    /\ booted[ProcOf[t]]
    /\ budget[t] > 0
    /\ budget' = [budget EXCEPT ![t] = @ - 1]
    /\ kind' = [kind EXCEPT ![t] = k]
    /\ UNCHANGED <<file, pods, flock, booted, cur>>

-----------------------------------------------------------------------------
(* NewManager: every process first runs migrateTimestamps, under the file  *)
(* lock alone, before any other thread knows the manager.                  *)

NewManager(t) ==
    /\ ~booted[ProcOf[t]]
    /\ \A u \in Mates(t) : pc[u] = "idle"
    /\ Goto(t, "flock")
    /\ kind' = [kind EXCEPT ![t] = "migrate"]
    /\ UNCHANGED <<file, pods, issued, flock, mode, booted, rec, cur, budget>>

-----------------------------------------------------------------------------
(* Add.                                                                    *)

\* ensureUniqueName: the bare name, or else the least free increment.
IsUniqueName(name, base, insts) ==
    LET taken == {r.name : r \in insts} IN
    /\ name \notin taken
    /\ name[1] = base
    /\ \A m \in 1..(name[2] - 1) : <<base, m>> \in taken

RidFor(rt, name, id) == IF rt \in NameKeyed THEN name ELSE id

NewRecord(id, name, rt) ==
    [id |-> id, name |-> name, rt |-> rt, rid |-> RidFor(rt, name, id),
     state |-> "stopped", created |-> TRUE, started |-> FALSE]

\* Lock, load, and choose the id and the name from what was loaded.  The id
\* is compared with the stored ones alone: that it is not one that was deleted,
\* or that another process is about to store, is up to the generator.
AddBegin(t) ==
    /\ Call(t, "add")
    /\ CanLock(t)
    /\ SetMode(t, "write")
    /\ \E id \in Ids, base \in Bases, name \in Names, rt \in Runtimes :
          /\ id \notin IdsOf(file)
          /\ id \in issued => "collision" \in Faults
          /\ IsUniqueName(name, base, file)
          /\ issued' = issued \cup {id}
          /\ rec' = [rec EXCEPT ![t] = NewRecord(id, name, rt)]
    /\ Goto(t, "create")

\* A runtime refuses a name that one of its instances has.
NameIsFree(r) == \A q \in pods : ~(q.rt = r.rt /\ q.name = r.name)

\* rt.Create.
AddCreate(t) ==
    /\ pc[t] = "create"
    /\ NameIsFree(rec[t])
    /\ pods' = pods \cup {PodOf(rec[t])}
    /\ Goto(t, "flock")
    /\ UNCHANGED <<file, issued, flock, mode, booted, kind, rec, cur, budget>>

-----------------------------------------------------------------------------
(* Looking an id up in a list, and runtime calls on the record found.      *)

Found(t, id, insts) ==
    \E r \in insts : r.id = id /\ rec' = [rec EXCEPT ![t] = r]

PodsOf(r) == {q \in pods : q.rt = r.rt /\ q.rid = r.rid}

SetPodState(r, state) ==
    pods' = {IF q \in PodsOf(r) THEN [q EXCEPT !.state = state] ELSE q : q \in pods}

\* A Create fails and leaves its instance behind, in whatever state it got to: as
\* OpenShell does when a step after 'sandbox create' fails, and podman when
\* 'pod rm' fails too.
LeavesBehind(t) ==
    /\ pc[t] = "create"
    /\ NameIsFree(rec[t])
    /\ \E s \in States : pods' = pods \cup {[PodOf(rec[t]) EXCEPT !.state = s]}

\* A Start, Stop or Remove fails after its effect.  In rtinfo the call is the
\* Info that follows a Stop.
FailsLate(t) ==
    \/ pc[t] = "rtstart" /\ SetPodState(rec[t], "running")
    \/ pc[t] = "rtstop" /\ SetPodState(rec[t], "stopped")
    \/ pc[t] = "rtinfo" /\ UNCHANGED pods
    \/ /\ pc[t] = "rtremove"
       /\ \A q \in PodsOf(rec[t]) : q.state # "running"
       /\ pods' = pods \ PodsOf(rec[t])

\* A runtime call fails, and the method returns the error; none undoes what the
\* call may have done.
RuntimeFails(t) ==
    /\ \/ pc[t] \in {"create", "rtstart", "rtstop", "rtremove"} /\ UNCHANGED pods
       \/ "leftover" \in Faults /\ LeavesBehind(t)
       \/ "partial" \in Faults /\ FailsLate(t)
    /\ Return(t)
    /\ UNCHANGED <<file, issued, flock, booted, budget>>

-----------------------------------------------------------------------------
(* Start, also as called by Terminal.                                      *)

StartBegin(t) ==
    /\ Call(t, "start")
    /\ CanLock(t)
    /\ SetMode(t, "write")
    /\ \E id \in issued : Found(t, id, file)
    /\ Goto(t, "rtstart")
    /\ UNCHANGED issued

\* rt.Start, which may also accept an instance that already runs.  The record
\* to store is made from the one found before, not from the reloaded list.
StartRuntime(t) ==
    /\ pc[t] = "rtstart"
    /\ PodsOf(rec[t]) # {}
    /\ SetPodState(rec[t], "running")
    /\ rec' = [rec EXCEPT ![t].state = "running", ![t].started = TRUE]
    /\ Goto(t, "flock")
    /\ UNCHANGED <<file, issued, flock, mode, booted, kind, cur, budget>>

-----------------------------------------------------------------------------
(* Stop.                                                                   *)

StopBegin(t) ==
    /\ Call(t, "stop")
    /\ CanLock(t)
    /\ SetMode(t, "write")
    /\ \E id \in issued : Found(t, id, file)
    /\ Goto(t, "rtstop")
    /\ UNCHANGED issued

\* rt.Stop, which succeeds on an instance that does not exist.
StopRuntime(t) ==
    /\ pc[t] = "rtstop"
    /\ SetPodState(rec[t], "stopped")
    /\ Goto(t, "rtinfo")
    /\ UNCHANGED <<file, issued, flock, mode, booted, kind, rec, cur, budget>>

\* Mutants: the stopped record forgets CreatedAt, or keeps StartedAt.
StopInfo_forgetsCreated(t) ==
    /\ pc[t] = "rtinfo"
    /\ rec' = [rec EXCEPT ![t].state = "stopped", ![t].started = FALSE,
                          ![t].created = FALSE]
    /\ Goto(t, "flock")
    /\ UNCHANGED <<file, pods, issued, flock, mode, booted, kind, cur, budget>>

StopInfo_keepsStarted(t) ==
    /\ pc[t] = "rtinfo"
    /\ rec' = [rec EXCEPT ![t].state = "stopped"]
    /\ Goto(t, "flock")
    /\ UNCHANGED <<file, pods, issued, flock, mode, booted, kind, cur, budget>>

\* rt.Info is a second call: it reports what the runtime says by then, and an
\* instance that is gone counts as stopped.
StopInfo(t) ==
    /\ pc[t] = "rtinfo"
    /\ LET running == \E q \in PodsOf(rec[t]) : q.state = "running" IN
       rec' = [rec EXCEPT ![t].state = IF running THEN "running" ELSE "stopped",
                          ![t].started = FALSE]
    /\ Goto(t, "flock")
    /\ UNCHANGED <<file, pods, issued, flock, mode, booted, kind, cur, budget>>

-----------------------------------------------------------------------------
(* Delete.                                                                 *)

\* Step 1: look the instance up and release the read lock at once.
DeleteBegin(t) ==
    /\ Call(t, "delete")
    /\ CanRLock(t)
    /\ \E id \in issued : Found(t, id, file)
    /\ Goto(t, "rtremove")
    /\ UNCHANGED <<issued, mode>>

\* Mutant: the error of rt.Remove is ignored.
DeleteRuntime_ignoresError(t) ==
    /\ pc[t] = "rtremove"
    /\ pods' = {q \in pods : q \notin PodsOf(rec[t]) \/ q.state = "running"}
    /\ Goto(t, "lock")
    /\ UNCHANGED <<file, issued, flock, mode, booted, kind, rec, cur, budget>>

\* Step 2: rt.Remove outside any lock.  It refuses a running instance and
\* accepts one that does not exist.
DeleteRuntime(t) ==
    /\ pc[t] = "rtremove"
    /\ \A q \in PodsOf(rec[t]) : q.state # "running"
    /\ pods' = pods \ PodsOf(rec[t])
    /\ Goto(t, "lock")
    /\ UNCHANGED <<file, issued, flock, mode, booted, kind, rec, cur, budget>>

\* Step 3: take the write lock, then the file lock.
DeleteLock(t) ==
    /\ pc[t] = "lock"
    /\ CanLock(t)
    /\ SetMode(t, "write")
    /\ Goto(t, "flock")
    /\ UNCHANGED <<file, pods, issued, flock, booted, kind, rec, cur, budget>>

-----------------------------------------------------------------------------
(* Reconcile.                                                              *)

ReconcileBegin(t) ==
    /\ UseReconcile
    /\ Call(t, "reconcile")
    /\ CanLock(t)
    /\ SetMode(t, "write")
    /\ Goto(t, "flock")
    /\ UNCHANGED <<issued, rec>>

-----------------------------------------------------------------------------
(* Terminal.                                                               *)

\* terminalCheckState takes and releases the read lock.
TerminalBegin(t) ==
    /\ Call(t, "terminal")
    /\ CanRLock(t)
    /\ \E id \in issued : Found(t, id, file)
    /\ Goto(t, IF rec'[t].state = "running" THEN "attach" ELSE "autostart")
    /\ UNCHANGED <<issued, mode>>

\* Start loads the list again: the instance may be gone by now.
TerminalAutoStart(t) ==
    /\ pc[t] = "autostart"
    /\ CanLock(t)
    /\ IF rec[t].id \in IdsOf(file)
       THEN /\ Found(t, rec[t].id, file)
            /\ SetMode(t, "write")
            /\ Goto(t, "rtstart")
            /\ UNCHANGED <<kind, cur>>
       ELSE Return(t)
    /\ UNCHANGED <<file, pods, issued, flock, booted, budget>>

\* The session runs with the read lock held, on what a third load found.
TerminalAttach(t) ==
    /\ pc[t] = "attach"
    /\ CanRLock(t)
    /\ IF rec[t].id \in IdsOf(file)
       THEN /\ Found(t, rec[t].id, file)
            /\ SetMode(t, "read")
            /\ Goto(t, "session")
            /\ UNCHANGED <<kind, cur>>
       ELSE Return(t)
    /\ UNCHANGED <<file, pods, issued, flock, booted, budget>>

\* The user leaves, or the runtime could not open a session.
TerminalEnd(t) ==
    /\ pc[t] = "session"
    /\ Return(t)
    /\ UNCHANGED <<file, pods, issued, flock, booted, budget>>

-----------------------------------------------------------------------------
(* withStorageLock: acquire, reload, change and save, release.             *)

\* Mutant: the lock file is opened but not locked.
Acquire_unlocked(t) ==
    /\ pc[t] = "flock"
    /\ flock' = {t}
    /\ Goto(t, "reload")
    /\ UNCHANGED <<file, pods, issued, mode, booted, kind, rec, cur, budget>>

Acquire(t) ==
    /\ pc[t] = "flock"
    /\ flock = {}
    /\ flock' = {t}
    /\ Goto(t, "reload")
    /\ UNCHANGED <<file, pods, issued, mode, booted, kind, rec, cur, budget>>

Reload(t) ==
    /\ pc[t] = "reload"
    /\ cur' = [cur EXCEPT ![t] = file]
    /\ Goto(t, "write")
    /\ UNCHANGED <<file, pods, issued, flock, mode, booted, kind, rec, budget>>

\* The file is replaced and the file lock released.
Store(t, list) ==
    /\ pc[t] = "write"
    /\ file' = list
    /\ flock' = flock \ {t}
    /\ UNCHANGED <<pods, issued, budget>>

SaveAdd(t) ==
    /\ kind[t] = "add"
    /\ Store(t, cur[t] \cup {rec[t]})
    /\ Return(t)
    /\ UNCHANGED booted

\* Mutants: a record is appended, or stored even when its id is gone.
Replaced_append(list, r) == list \cup {r}

Replaced_upsert(list, r) == {s \in list : s.id # r.id} \cup {r}

\* Start and Stop replace the record they find under their id, if any.
Replaced(list, r) == {IF s.id = r.id THEN r ELSE s : s \in list}

SaveUpdate(t) ==
    /\ kind[t] \in {"start", "stop"}
    /\ Store(t, Replaced(cur[t], rec[t]))
    /\ Return(t)
    /\ UNCHANGED booted

\* Mutant: after the auto-start, Terminal checks the stale state again.
SaveAutoStart_loops(t) ==
    /\ kind[t] = "terminal"
    /\ Store(t, Replaced(cur[t], rec[t]))
    /\ Goto(t, "autostart")
    /\ SetMode(t, "free")
    /\ cur' = [cur EXCEPT ![t] = {}]
    /\ UNCHANGED <<booted, kind, rec>>

\* Terminal goes on when its Start has returned and released the write lock.
SaveAutoStart(t) ==
    /\ kind[t] = "terminal"
    /\ Store(t, Replaced(cur[t], rec[t]))
    /\ Goto(t, "attach")
    /\ SetMode(t, "free")
    /\ cur' = [cur EXCEPT ![t] = {}]
    /\ UNCHANGED <<booted, kind, rec>>

\* Mutant: the filtered list is computed and the loaded one saved.
SaveDelete_unfiltered(t) ==
    /\ kind[t] = "delete"
    /\ Store(t, cur[t])
    /\ Return(t)
    /\ UNCHANGED booted

SaveDelete(t) ==
    /\ kind[t] = "delete"
    /\ Store(t, {s \in cur[t] : s.id # rec[t].id})
    /\ Return(t)
    /\ UNCHANGED booted

\* Any directory may have become inaccessible.
SaveReconcile(t) ==
    /\ kind[t] = "reconcile"
    /\ \E gone \in SUBSET cur[t] : Store(t, cur[t] \ gone)
    /\ Return(t)
    /\ UNCHANGED booted

SaveMigrate(t) ==
    /\ kind[t] = "migrate"
    /\ Store(t, {[s EXCEPT !.created = TRUE] : s \in cur[t]})
    /\ Return(t)
    /\ booted' = [booted EXCEPT ![ProcOf[t]] = TRUE]

\* Reading or writing the file fails: the method returns the error.
SaveFails(t) ==
    /\ "save" \in Faults
    /\ pc[t] \in {"reload", "write"}
    /\ flock' = flock \ {t}
    /\ Return(t)
    /\ UNCHANGED <<file, pods, issued, booted, budget>>

-----------------------------------------------------------------------------
(* The environment.                                                        *)

\* A process dies, or exits, and the kernel drops its locks; another command
\* may start in its place.
Crash(p) ==
    LET mine == {t \in Threads : ProcOf[t] = p}
        reset(f, v) == [t \in Threads |-> IF t \in mine THEN v ELSE f[t]] IN
    /\ "crash" \in Faults
    /\ booted[p] \/ \E t \in mine : pc[t] # "idle"
    /\ flock' = flock \ mine
    /\ mode' = reset(mode, "free")
    /\ booted' = [booted EXCEPT ![p] = FALSE]
    /\ pc' = reset(pc, "idle")
    /\ kind' = reset(kind, "none")
    /\ rec' = reset(rec, NoRec)
    /\ cur' = reset(cur, {})
    /\ UNCHANGED <<file, pods, issued, budget>>

\* Somebody uses the runtime's own command on a pod.
External ==
    /\ "external" \in Faults
    /\ \E q \in pods, s \in States :
          \/ pods' = pods \ {q}
          \/ pods' = (pods \ {q}) \cup {[q EXCEPT !.state = s]}
    /\ UNCHANGED <<file, issued, flock, mode, booted, pc, kind, rec, cur, budget>>

\* Nobody calls any more.
Finished ==
    /\ \A t \in Threads : pc[t] = "idle" /\ booted[ProcOf[t]]
    /\ UNCHANGED vars

-----------------------------------------------------------------------------

Begin(t) ==
    \/ NewManager(t)
    \/ AddBegin(t)
    \/ StartBegin(t)
    \/ StopBegin(t)
    \/ DeleteBegin(t)
    \/ ReconcileBegin(t)
    \/ TerminalBegin(t)

Save(t) ==
    \/ SaveAdd(t)
    \/ SaveUpdate(t)
    \/ SaveAutoStart(t)
    \/ SaveDelete(t)
    \/ SaveReconcile(t)
    \/ SaveMigrate(t)
    \/ SaveFails(t)

\* What a method does once it was called, the session of a user aside.
Proceed(t) ==
    \/ AddCreate(t)
    \/ StartRuntime(t)
    \/ StopRuntime(t)
    \/ StopInfo(t)
    \/ DeleteRuntime(t)
    \/ DeleteLock(t)
    \/ TerminalAutoStart(t)
    \/ TerminalAttach(t)
    \/ RuntimeFails(t)
    \/ Acquire(t)
    \/ Reload(t)
    \/ Save(t)

Next ==
    \/ \E t \in Threads : Begin(t) \/ Proceed(t) \/ TerminalEnd(t)
    \/ \E p \in Procs : Crash(p)
    \/ External
    \/ Finished

Spec == Init /\ [][Next]_vars

\* Go runs every runnable goroutine and runtime calls return.  Nothing is
\* assumed of the user who has a terminal open, nor that anybody calls.
FairSpec == Spec /\ \A t \in Threads : WF_vars(Proceed(t))

-----------------------------------------------------------------------------
(* Correctness.                                                            *)

\* Every variable holds a value of its kind.
TypeOK ==
    /\ file \subseteq Instance
    /\ pods \subseteq Pod
    /\ issued \subseteq Ids
    /\ flock \subseteq Threads
    /\ mode \in [Threads -> Modes]
    /\ booted \in [Procs -> BOOLEAN]
    /\ pc \in [Threads -> Labels]
    /\ kind \in [Threads -> Kinds]
    /\ rec \in [Threads -> Instance \cup {NoRec}]
    /\ cur \in [Threads -> SUBSET Instance]
    /\ budget \in [Threads -> Nat]

\* The list a thread is about to save was derived from the file as it is now:
\* no other process or thread, a booting one included, saved in between
\* (withStorageLock, manager.go:1033-1051).
SnapshotIsCurrent ==
    \A t \in Threads : pc[t] = "write" => flock = {t} /\ cur[t] = file

\* A writer of the RWMutex excludes all other threads of its process.
MutexExcludes ==
    \A t \in Threads : \A u \in Mates(t) :
        mode[t] = "write" /\ mode[u] # "free" => u = t

\* An id identifies one stored record, whatever Start and Stop replaced.
UniqueIds == \A r, s \in file : r.id = s.id => r = s

Registered == IdsOf(file)

\* No process can lose a workspace that another one registered: an id leaves
\* the file only in the save of a Delete of that id, or of a Reconcile
\* (manager.go:446-454, "is not lost").
NoLostRegistration ==
    [][\A id \in Registered \ Registered' :
          \E t \in Threads :
              /\ pc[t] = "write"
              /\ \/ kind[t] = "delete" /\ rec[t].id = id
                 \/ kind[t] = "reconcile"]_vars

\* A deleted workspace does not come back: an id enters the file only in the
\* save of the Add that generated it, so that a Start or a Stop that was
\* under way during the Delete does not store its record again.
NoResurrection ==
    [][\A id \in Registered' \ Registered :
          \E t \in Threads :
              pc[t] = "write" /\ kind[t] = "add" /\ rec[t].id = id]_vars

\* The ids of the registrations in progress.
Pending == {rec[t].id : t \in {u \in Threads : kind[u] = "add"}}

\* The manager implements the atomic registry, in spite of the unlocked loads
\* before the critical section and of crashes (manager.go:446-454, 802-821).
Registry == INSTANCE InstanceRegistry
                WITH registry <- file, pending <- Pending, used <- issued

RegistrySpec == Registry!Spec

-----------------------------------------------------------------------------
(* The registry and the runtime.                                           *)

\* Names identify workspaces (README.md:3151, "to ensure uniqueness").
NamesUnique == \A r, s \in file : r.name = s.name => r = s

Busy(id) == \E t \in Threads : rec[t] # NoRec /\ rec[t].id = id

\* The stored state of a workspace that no method is working on is the state
\* the runtime would report (instance.go:53, "the current runtime state").
StateAgrees ==
    \A r \in file : \A q \in PodsOf(r) : Busy(r.id) \/ r.state = q.state

\* A workspace has a start time exactly while it is stored as running
\* (instance.go:86, "Zero value means not started").
StartTimeAgrees == \A r \in file : r.started <=> r.state = "running"

\* kdn knows an instance: it belongs to a stored workspace, or to a registration
\* whose Create has returned and which is going to store it.
Known(q) ==
    \/ \E r \in file : r.rt = q.rt /\ r.rid = q.rid
    \/ \E t \in Threads : /\ kind[t] = "add" /\ pc[t] # "create"
                          /\ rec[t].rt = q.rt /\ rec[t].rid = q.rid

\* As long as no process dies and no save fails, kdn loses no instance: one that
\* it knows exists no more when it is not known any more, whatever other
\* Creates leave behind (manager.go:765-821).
NoOrphanPods == [][\A q \in pods' : Known(q) => Known(q)']_vars

\* As long as no Start, Stop or Remove fails after its effect, every stored
\* workspace has its runtime instance, but for one that is being deleted:
\* Delete removes the instance first (manager.go:765-767).
NoDanglingRecords ==
    \A r \in file :
        \/ PodsOf(r) # {}
        \/ \E t \in Threads : /\ kind[t] = "delete" /\ rec[t].id = r.id
                              /\ pc[t] # "rtremove"

-----------------------------------------------------------------------------
(* Progress.                                                               *)

\* Every call returns, whatever calls the other processes make and however
\* long their terminals stay open, unless a terminal session of the same
\* process keeps the read lock.
CallsReturn ==
    \A t \in Threads :
        pc[t] # "idle" ~>
            (pc[t] = "idle" \/ \E u \in Mates(t) : pc[u] = "session")
=============================================================================
