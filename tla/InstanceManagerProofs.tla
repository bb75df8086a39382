----------------------- MODULE InstanceManagerProofs ------------------------
(***************************************************************************)
(* Proofs about InstanceManager, for every number of processes, threads,   *)
(* ids, names and runtimes, and for every combination of faults.           *)
(***************************************************************************)
EXTENDS InstanceManager, TLAPS

-----------------------------------------------------------------------------
(* Typing.  Beside TypeOK, a thread that executes a method on an instance  *)
(* has a record, and its label tells the method.                           *)

RecordInv ==
    \A t \in Threads :
        /\ kind[t] \in {"add", "start", "stop", "delete", "terminal"}
              => rec[t] \in Instance
        /\ pc[t] = "create" => kind[t] = "add"
        /\ pc[t] = "rtstart" => kind[t] \in {"start", "terminal"}
        /\ pc[t] \in {"rtstop", "rtinfo"} => kind[t] = "stop"
        /\ pc[t] \in {"rtremove", "lock"} => kind[t] = "delete"
        /\ pc[t] \in {"autostart", "attach", "session"} => kind[t] = "terminal"
        /\ pc[t] = "idle" => kind[t] = "none"

TypeInv == TypeOK /\ RecordInv

LEMMA ProcOfType == ASSUME NEW t \in Threads PROVE ProcOf[t] \in Procs
  BY ConstantsAssumption

LEMMA NewRecordType ==
  ASSUME NEW id \in Ids, NEW name \in Names, NEW rt \in Runtimes
  PROVE  NewRecord(id, name, rt) \in Instance
  BY DEF NewRecord, RidFor, Instance, States

LEMMA PodOfType == ASSUME NEW r \in Instance PROVE PodOf(r) \in Pod
  BY DEF PodOf, Instance, Pod

LEMMA PodStateType ==
  ASSUME NEW r, NEW s \in States, pods \subseteq Pod, SetPodState(r, s)
  PROVE  pods' \subseteq Pod
  BY DEF SetPodState, Pod

LEMMA ReplacedType ==
  ASSUME NEW list \in SUBSET Instance, NEW r \in Instance
  PROVE  Replaced(list, r) \subseteq Instance
  BY DEF Replaced

\* When a method returns, its thread is as at the start.
LEMMA ReturnType ==
  ASSUME TypeInv, NEW t \in Threads, Return(t)
  PROVE  /\ mode' \in [Threads -> Modes]
         /\ pc' \in [Threads -> Labels]
         /\ kind' \in [Threads -> Kinds]
         /\ rec' \in [Threads -> Instance \cup {NoRec}]
         /\ cur' \in [Threads -> SUBSET Instance]
         /\ RecordInv'
  BY DEF TypeInv, TypeOK, RecordInv, Return, Goto, SetMode, Modes, Labels, Kinds

\* When a method is called, its thread, which was idle, is told the method.
LEMMA CallType ==
  ASSUME TypeInv, NEW t \in Threads, NEW k \in Kinds, Call(t, k)
  PROVE  /\ file' \subseteq Instance
         /\ pods' \subseteq Pod
         /\ flock' \subseteq Threads
         /\ booted' \in [Procs -> BOOLEAN]
         /\ cur' \in [Threads -> SUBSET Instance]
         /\ budget' \in [Threads -> Nat]
         /\ kind' \in [Threads -> Kinds]
  BY DEF TypeInv, TypeOK, Call

LEMMA FoundType ==
  ASSUME TypeInv, NEW t \in Threads, NEW id, Found(t, id, file)
  PROVE  /\ rec' \in [Threads -> Instance \cup {NoRec}]
         /\ rec'[t] \in Instance
         /\ \A u \in Threads \ {t} : rec'[u] = rec[u]
  BY DEF TypeInv, TypeOK, Found

LEMMA TypeInit == Init => TypeInv
<1> SUFFICES ASSUME Init PROVE TypeInv
  OBVIOUS
<1>1. pods \subseteq Pod
  BY LegacyAssumption, PodOfType DEF Init
<1>2. issued \subseteq Ids
  BY LegacyAssumption DEF Init, IdsOf, Instance
<1>3. budget \in [Threads -> Nat]
  BY ConstantsAssumption DEF Init
<1> QED
  BY <1>1, <1>2, <1>3, LegacyAssumption
  DEF Init, TypeInv, TypeOK, RecordInv, Modes, Labels, Kinds

LEMMA TypeBegin ==
  ASSUME TypeInv, NEW t \in Threads, Begin(t)
  PROVE  TypeInv'
<1>1. CASE NewManager(t)
  BY <1>1 DEF NewManager, Goto, TypeInv, TypeOK, RecordInv, Labels, Kinds
<1>2. CASE AddBegin(t)
  <2>1. PICK id \in Ids, base \in Bases, name \in Names, rt \in Runtimes :
           /\ issued' = issued \cup {id}
           /\ rec' = [rec EXCEPT ![t] = NewRecord(id, name, rt)]
    BY <1>2 DEF AddBegin
  <2>2. NewRecord(id, name, rt) \in Instance
    BY <2>1, NewRecordType
  <2>3. Call(t, "add")
    BY <1>2 DEF AddBegin
  <2>4. /\ rec' \in [Threads -> Instance \cup {NoRec}]
        /\ rec'[t] \in Instance
        /\ \A u \in Threads \ {t} : rec'[u] = rec[u]
    BY <2>1, <2>2 DEF TypeInv, TypeOK
  <2>5. TypeOK'
    BY <1>2, <2>1, <2>3, <2>4, CallType
    DEF AddBegin, Goto, SetMode, TypeInv, TypeOK, Labels, Modes, Kinds
  <2>6. RecordInv'
    BY <1>2, <2>3, <2>4 DEF AddBegin, Call, Goto, TypeInv, TypeOK, RecordInv
  <2> QED
    BY <2>5, <2>6 DEF TypeInv
<1>3. CASE StartBegin(t)
  BY <1>3, CallType, FoundType
  DEF StartBegin, Call, Goto, SetMode, TypeInv, TypeOK, RecordInv, Labels, Kinds, Modes
<1>4. CASE StopBegin(t)
  BY <1>4, CallType, FoundType
  DEF StopBegin, Call, Goto, SetMode, TypeInv, TypeOK, RecordInv, Labels, Kinds, Modes
<1>5. CASE DeleteBegin(t)
  BY <1>5, CallType, FoundType
  DEF DeleteBegin, Call, Goto, TypeInv, TypeOK, RecordInv, Labels, Kinds, Modes
<1>6. CASE ReconcileBegin(t)
  <2>1. TypeOK'
    BY <1>6, CallType
    DEF ReconcileBegin, Goto, SetMode, TypeInv, TypeOK, Labels, Kinds, Modes
  <2>2. RecordInv'
    BY <1>6 DEF ReconcileBegin, Call, Goto, TypeInv, TypeOK, RecordInv
  <2> QED
    BY <2>1, <2>2 DEF TypeInv
<1>7. CASE TerminalBegin(t)
  <2>1. /\ Call(t, "terminal")
        /\ \E id \in issued : Found(t, id, file)
    BY <1>7 DEF TerminalBegin
  <2>2. /\ rec' \in [Threads -> Instance \cup {NoRec}]
        /\ rec'[t] \in Instance
        /\ \A u \in Threads \ {t} : rec'[u] = rec[u]
    BY <2>1, FoundType
  <2>3. \E label \in {"attach", "autostart"} : Goto(t, label)
    BY <1>7 DEF TerminalBegin
  <2>4. TypeOK'
    BY <1>7, <2>1, <2>2, <2>3, CallType
    DEF TerminalBegin, Goto, TypeInv, TypeOK, Labels, Kinds
  <2>5. RecordInv'
    BY <2>1, <2>2, <2>3 DEF Call, Goto, TypeInv, TypeOK, RecordInv
  <2> QED
    BY <2>4, <2>5 DEF TypeInv
<1> QED
  BY <1>1, <1>2, <1>3, <1>4, <1>5, <1>6, <1>7 DEF Begin

LEMMA TypeSave ==
  ASSUME TypeInv, NEW t \in Threads, Save(t)
  PROVE  TypeInv'
<1>1. cur[t] \subseteq Instance
  BY DEF TypeInv, TypeOK
<1>2. CASE SaveAdd(t)
  <2>1. file' \subseteq Instance
    BY <1>1, <1>2 DEF SaveAdd, Store, TypeInv, RecordInv
  <2> QED
    BY <1>2, <2>1, ReturnType DEF SaveAdd, Store, TypeInv, TypeOK
<1>3. CASE SaveUpdate(t)
  <2>1. file' \subseteq Instance
    BY <1>1, <1>3, ReplacedType DEF SaveUpdate, Store, TypeInv, RecordInv
  <2> QED
    BY <1>3, <2>1, ReturnType DEF SaveUpdate, Store, TypeInv, TypeOK
<1>4. CASE SaveAutoStart(t)
  <2>1. file' \subseteq Instance
    BY <1>1, <1>4, ReplacedType DEF SaveAutoStart, Store, TypeInv, RecordInv
  <2> QED
    BY <1>4, <2>1
    DEF SaveAutoStart, Store, Goto, SetMode, TypeInv, TypeOK, RecordInv, Labels, Modes
<1>5. CASE SaveDelete(t)
  <2>1. file' \subseteq Instance
    BY <1>1, <1>5 DEF SaveDelete, Store
  <2> QED
    BY <1>5, <2>1, ReturnType DEF SaveDelete, Store, TypeInv, TypeOK
<1>6. CASE SaveReconcile(t)
  <2>1. file' \subseteq Instance
    BY <1>1, <1>6 DEF SaveReconcile, Store
  <2> QED
    BY <1>6, <2>1, ReturnType DEF SaveReconcile, Store, TypeInv, TypeOK
<1>7. CASE SaveMigrate(t)
  <2>1. file' \subseteq Instance
    BY <1>1, <1>7 DEF SaveMigrate, Store, Instance
  <2> QED
    BY <1>7, <2>1, ReturnType DEF SaveMigrate, Store, TypeInv, TypeOK
<1>8. CASE SaveFails(t)
  BY <1>8, ReturnType DEF SaveFails, TypeInv, TypeOK
<1> QED
  BY <1>2, <1>3, <1>4, <1>5, <1>6, <1>7, <1>8 DEF Save

LEMMA TypeProceed ==
  ASSUME TypeInv, NEW t \in Threads, Proceed(t)
  PROVE  TypeInv'
<1>1. CASE AddCreate(t)
  BY <1>1, PodOfType
  DEF AddCreate, Goto, TypeInv, TypeOK, RecordInv, Labels
<1>2. CASE StartRuntime(t)
  <2>1. rec[t] \in Instance
    BY <1>2 DEF StartRuntime, TypeInv, RecordInv
  <2>2. pods' \subseteq Pod
    BY <1>2, PodStateType DEF StartRuntime, TypeInv, TypeOK, States
  <2>3. /\ rec' \in [Threads -> Instance \cup {NoRec}]
        /\ rec'[t] \in Instance
        /\ \A u \in Threads \ {t} : rec'[u] = rec[u]
    BY <1>2, <2>1 DEF StartRuntime, TypeInv, TypeOK, Instance, States
  <2> QED
    BY <1>2, <2>2, <2>3 DEF StartRuntime, Goto, TypeInv, TypeOK, RecordInv, Labels
<1>3. CASE StopRuntime(t)
  <2>1. pods' \subseteq Pod
    BY <1>3, PodStateType DEF StopRuntime, TypeInv, TypeOK, States
  <2> QED
    BY <1>3, <2>1 DEF StopRuntime, Goto, TypeInv, TypeOK, RecordInv, Labels
<1>4. CASE StopInfo(t)
  <2>1. rec[t] \in Instance
    BY <1>4 DEF StopInfo, TypeInv, RecordInv
  <2>2. PICK s \in States :
           rec' = [rec EXCEPT ![t].state = s, ![t].started = FALSE]
    BY <1>4 DEF StopInfo, States
  <2>3. /\ rec' \in [Threads -> Instance \cup {NoRec}]
        /\ rec'[t] \in Instance
        /\ \A u \in Threads \ {t} : rec'[u] = rec[u]
    BY <2>1, <2>2 DEF TypeInv, TypeOK, Instance
  <2> QED
    BY <1>4, <2>3 DEF StopInfo, Goto, TypeInv, TypeOK, RecordInv, Labels
<1>5. CASE DeleteRuntime(t)
  BY <1>5 DEF DeleteRuntime, Goto, TypeInv, TypeOK, RecordInv, Labels
<1>6. CASE DeleteLock(t)
  BY <1>6 DEF DeleteLock, Goto, SetMode, TypeInv, TypeOK, RecordInv, Labels, Modes
<1>7. CASE TerminalAutoStart(t)
  <2>1. CASE rec[t].id \in IdsOf(file)
    BY <1>7, <2>1, FoundType
    DEF TerminalAutoStart, Goto, SetMode, TypeInv, TypeOK, RecordInv, Labels, Modes
  <2>2. CASE rec[t].id \notin IdsOf(file)
    BY <1>7, <2>2, ReturnType DEF TerminalAutoStart, TypeInv, TypeOK
  <2> QED
    BY <2>1, <2>2
<1>8. CASE TerminalAttach(t)
  <2>1. CASE rec[t].id \in IdsOf(file)
    BY <1>8, <2>1, FoundType
    DEF TerminalAttach, Goto, SetMode, TypeInv, TypeOK, RecordInv, Labels, Modes
  <2>2. CASE rec[t].id \notin IdsOf(file)
    BY <1>8, <2>2, ReturnType DEF TerminalAttach, TypeInv, TypeOK
  <2> QED
    BY <2>1, <2>2
<1>9. CASE RuntimeFails(t)
  <2>1. CASE pc[t] = "create"
    <3>1. PodOf(rec[t]) \in Pod
      BY <2>1, PodOfType DEF TypeInv, RecordInv
    <3>2. \A s \in States : [PodOf(rec[t]) EXCEPT !.state = s] \in Pod
      BY <3>1 DEF Pod
    <3> QED
      BY <1>9, <2>1, <3>2, ReturnType
      DEF RuntimeFails, LeavesBehind, FailsLate, TypeInv, TypeOK
  <2>2. CASE pc[t] # "create"
    <3>1. pods' \subseteq Pod
      BY <1>9, <2>2, PodStateType
      DEF RuntimeFails, LeavesBehind, FailsLate, TypeInv, TypeOK, States
    <3> QED
      BY <1>9, <3>1, ReturnType DEF RuntimeFails, TypeInv, TypeOK
  <2> QED
    BY <2>1, <2>2
<1>10. CASE Acquire(t)
  BY <1>10 DEF Acquire, Goto, TypeInv, TypeOK, RecordInv, Labels
<1>11. CASE Reload(t)
  BY <1>11 DEF Reload, Goto, TypeInv, TypeOK, RecordInv, Labels
<1>12. CASE Save(t)
  BY <1>12, TypeSave
<1> QED
  BY <1>1, <1>2, <1>3, <1>4, <1>5, <1>6, <1>7, <1>8, <1>9, <1>10, <1>11, <1>12
  DEF Proceed

LEMMA TypeNext ==
  ASSUME TypeInv, [Next]_vars
  PROVE  TypeInv'
<1>1. CASE \E t \in Threads : Begin(t) \/ Proceed(t)
  BY <1>1, TypeBegin, TypeProceed
<1>2. CASE \E t \in Threads : TerminalEnd(t)
  BY <1>2, ReturnType DEF TerminalEnd, TypeInv, TypeOK
<1>3. CASE \E p \in Procs : Crash(p)
  BY <1>3 DEF Crash, TypeInv, TypeOK, RecordInv, Labels, Kinds, Modes
<1>4. CASE External
  BY <1>4 DEF External, TypeInv, TypeOK, RecordInv, Pod
<1>5. CASE Finished \/ UNCHANGED vars
  BY <1>5 DEF Finished, vars, TypeInv, TypeOK, RecordInv
<1> QED
  BY <1>1, <1>2, <1>3, <1>4, <1>5 DEF Next

\* In every reachable state the variables hold values of their kinds.
THEOREM TypeCorrect == Spec => []TypeOK
<1>1. Init => TypeInv
  BY TypeInit
<1>2. TypeInv /\ [Next]_vars => TypeInv'
  BY TypeNext
<1>3. TypeInv => TypeOK
  BY DEF TypeInv
<1> QED
  BY <1>1, <1>2, <1>3, PTL DEF Spec

-----------------------------------------------------------------------------
(* The file lock.  The threads between Acquire and the end of their save   *)
(* are the holders of the lock, there is at most one, and the list it      *)
(* loaded is the file.                                                     *)

InLock(t) == pc[t] \in {"reload", "write"}

LockInv ==
    \A t \in Threads :
        /\ InLock(t) <=> t \in flock
        /\ \A u \in flock : t \in flock => t = u
        /\ pc[t] = "write" => cur[t] = file

\* A step of a thread outside the lock that stays outside it.
LEMMA LockOutside ==
  ASSUME TypeInv, LockInv, NEW t \in Threads, ~InLock(t),
         NEW label \in Labels \ {"reload", "write"}, Goto(t, label),
         UNCHANGED <<file, flock>>,
         \A u \in Threads \ {t} : cur'[u] = cur[u]
  PROVE  LockInv'
  BY DEF TypeInv, TypeOK, LockInv, InLock, Goto

LEMMA LockBegin ==
  ASSUME TypeInv, LockInv, NEW t \in Threads, Begin(t)
  PROVE  LockInv'
<1>1. PICK label \in {"flock", "create", "rtstart", "rtstop", "rtremove",
                      "attach", "autostart"} : Goto(t, label)
  BY DEF Begin, NewManager, AddBegin, StartBegin, StopBegin, DeleteBegin,
         ReconcileBegin, TerminalBegin
<1>2. /\ ~InLock(t)
      /\ UNCHANGED <<file, flock, cur>>
  <2>1. CASE NewManager(t)
    BY <2>1 DEF NewManager, InLock, Mates
  <2>2. CASE \E k \in Kinds : Call(t, k)
    BY <2>2 DEF Call, InLock
  <2> QED
    BY <2>1, <2>2
    DEF Begin, AddBegin, StartBegin, StopBegin, DeleteBegin, ReconcileBegin,
        TerminalBegin, Kinds
<1>3. label \in Labels \ {"reload", "write"}
  BY <1>1 DEF Labels
<1> QED
  BY <1>1, <1>2, <1>3, LockOutside

LEMMA LockSave ==
  ASSUME TypeInv, LockInv, NEW t \in Threads, Save(t)
  PROVE  LockInv'
<1>1. /\ t \in flock
      /\ flock' = flock \ {t}
      /\ \A u \in Threads \ {t} : u \notin flock
  BY DEF Save, SaveAdd, SaveUpdate, SaveAutoStart, SaveDelete, SaveReconcile,
         SaveMigrate, SaveFails, Store, LockInv, InLock
<1>2. PICK label \in {"idle", "attach"} : Goto(t, label)
  BY DEF Save, SaveAdd, SaveUpdate, SaveAutoStart, SaveDelete, SaveReconcile,
         SaveMigrate, SaveFails, Return
<1> QED
  BY <1>1, <1>2 DEF LockInv, InLock, Goto, TypeInv, TypeOK

LEMMA LockProceed ==
  ASSUME TypeInv, LockInv, NEW t \in Threads, Proceed(t)
  PROVE  LockInv'
<1>1. CASE Acquire(t)
  BY <1>1 DEF Acquire, Goto, LockInv, InLock, TypeInv, TypeOK
<1>2. CASE Reload(t)
  BY <1>2 DEF Reload, Goto, LockInv, InLock, TypeInv, TypeOK
<1>3. CASE Save(t)
  BY <1>3, LockSave
<1>4. CASE \/ AddCreate(t) \/ StartRuntime(t) \/ StopRuntime(t) \/ StopInfo(t)
           \/ DeleteRuntime(t) \/ DeleteLock(t)
  <2>1. PICK label \in {"flock", "rtinfo", "lock"} : Goto(t, label)
    BY <1>4 DEF AddCreate, StartRuntime, StopRuntime, StopInfo, DeleteRuntime,
                DeleteLock
  <2>2. ~InLock(t) /\ UNCHANGED <<file, flock, cur>>
    BY <1>4 DEF AddCreate, StartRuntime, StopRuntime, StopInfo, DeleteRuntime,
                DeleteLock, InLock
  <2>3. label \in Labels \ {"reload", "write"}
    BY <2>1 DEF Labels
  <2> QED
    BY <2>1, <2>2, <2>3, LockOutside
<1>5. CASE TerminalAutoStart(t) \/ TerminalAttach(t) \/ RuntimeFails(t)
  <2>1. PICK label \in {"idle", "rtstart", "session"} : Goto(t, label)
    BY <1>5 DEF TerminalAutoStart, TerminalAttach, RuntimeFails, Return
  <2>2. ~InLock(t) /\ UNCHANGED <<file, flock>>
    BY <1>5 DEF TerminalAutoStart, TerminalAttach, RuntimeFails, LeavesBehind,
                FailsLate, InLock
  <2>3. \A u \in Threads \ {t} : cur'[u] = cur[u]
    BY <1>5 DEF TerminalAutoStart, TerminalAttach, RuntimeFails, Return,
                TypeInv, TypeOK
  <2>4. label \in Labels \ {"reload", "write"}
    BY <2>1 DEF Labels
  <2> QED
    BY <2>1, <2>2, <2>3, <2>4, LockOutside
<1> QED
  BY <1>1, <1>2, <1>3, <1>4, <1>5 DEF Proceed

LEMMA LockNext ==
  ASSUME TypeInv, LockInv, [Next]_vars
  PROVE  LockInv'
<1>1. CASE \E t \in Threads : Begin(t) \/ Proceed(t)
  BY <1>1, LockBegin, LockProceed
<1>2. ASSUME NEW t \in Threads, TerminalEnd(t) PROVE LockInv'
  <2>1. /\ ~InLock(t)
        /\ Goto(t, "idle")
        /\ UNCHANGED <<file, flock>>
        /\ \A u \in Threads \ {t} : cur'[u] = cur[u]
    BY <1>2 DEF TerminalEnd, Return, InLock, TypeInv, TypeOK
  <2> QED
    BY <2>1, LockOutside DEF Labels
<1>3. CASE \E p \in Procs : Crash(p)
  BY <1>3 DEF Crash, LockInv, InLock, TypeInv, TypeOK
<1>4. CASE External \/ Finished \/ UNCHANGED vars
  BY <1>4 DEF External, Finished, vars, LockInv, InLock
<1> QED
  BY <1>1, <1>2, <1>3, <1>4 DEF Next

\* What is saved under the file lock was made from the file as it is: no
\* process loses what another one saved.
THEOREM SnapshotCorrect == Spec => []SnapshotIsCurrent
<1>1. Init => TypeInv /\ LockInv
  <2>1. Init => LockInv
    BY DEF Init, LockInv, InLock
  <2> QED
    BY <2>1, TypeInit
<1>2. TypeInv /\ LockInv /\ [Next]_vars => TypeInv' /\ LockInv'
  BY TypeNext, LockNext
<1>3. TypeInv /\ LockInv => SnapshotIsCurrent
  BY DEF TypeInv, TypeOK, LockInv, InLock, SnapshotIsCurrent
<1> QED
  BY <1>1, <1>2, <1>3, PTL DEF Spec

-----------------------------------------------------------------------------
(* The RWMutex of a manager.                                               *)

LEMMA MutexStep ==
  ASSUME TypeInv, MutexExcludes, NEW t \in Threads, NEW m \in Modes,
         SetMode(t, m),
         m = "write" => CanLock(t),
         m = "read" => CanRLock(t)
  PROVE  MutexExcludes'
  BY ConstantsAssumption
  DEF TypeInv, TypeOK, MutexExcludes, SetMode, CanLock, CanRLock, Mates, Modes

LEMMA MutexNext ==
  ASSUME TypeInv, MutexExcludes, [Next]_vars
  PROVE  MutexExcludes'
<1>1. ASSUME NEW t \in Threads, Begin(t) PROVE MutexExcludes'
  <2>1. CASE NewManager(t) \/ DeleteBegin(t) \/ TerminalBegin(t)
    BY <2>1 DEF NewManager, DeleteBegin, TerminalBegin, MutexExcludes, Mates
  <2>2. CASE AddBegin(t) \/ StartBegin(t) \/ StopBegin(t) \/ ReconcileBegin(t)
    BY <2>2, MutexStep DEF AddBegin, StartBegin, StopBegin, ReconcileBegin, Modes
  <2> QED
    BY <1>1, <2>1, <2>2 DEF Begin
<1>2. ASSUME NEW t \in Threads, Proceed(t) PROVE MutexExcludes'
  <2>1. CASE \/ AddCreate(t) \/ StartRuntime(t) \/ StopRuntime(t) \/ StopInfo(t)
             \/ DeleteRuntime(t) \/ Acquire(t) \/ Reload(t)
    BY <2>1 DEF AddCreate, StartRuntime, StopRuntime, StopInfo, DeleteRuntime,
                Acquire, Reload, MutexExcludes, Mates
  <2>2. CASE DeleteLock(t) \/ TerminalAutoStart(t) \/ TerminalAttach(t)
    BY <2>2, MutexStep
    DEF DeleteLock, TerminalAutoStart, TerminalAttach, Return, Modes
  <2>3. CASE RuntimeFails(t) \/ Save(t)
    BY <2>3, MutexStep
    DEF RuntimeFails, Save, SaveAdd, SaveUpdate, SaveAutoStart, SaveDelete,
        SaveReconcile, SaveMigrate, SaveFails, Return, Modes
  <2> QED
    BY <1>2, <2>1, <2>2, <2>3 DEF Proceed
<1>3. ASSUME NEW t \in Threads, TerminalEnd(t) PROVE MutexExcludes'
  BY <1>3, MutexStep DEF TerminalEnd, Return, Modes
<1>4. CASE \E p \in Procs : Crash(p)
  BY <1>4 DEF Crash, MutexExcludes, Mates, TypeInv, TypeOK
<1>5. CASE External \/ Finished \/ UNCHANGED vars
  BY <1>5 DEF External, Finished, vars, MutexExcludes, Mates
<1> QED
  BY <1>1, <1>2, <1>3, <1>4, <1>5 DEF Next

\* Within a process a method that writes runs alone.
THEOREM MutexCorrect == Spec => []MutexExcludes
<1>1. Init => TypeInv /\ MutexExcludes
  BY TypeInit DEF Init, MutexExcludes, Mates
<1>2. TypeInv /\ MutexExcludes /\ [Next]_vars => TypeInv' /\ MutexExcludes'
  BY TypeNext, MutexNext
<1> QED
  BY <1>1, <1>2, PTL DEF Spec

-----------------------------------------------------------------------------
(* Steps that change the file.                                             *)

\* Only a save changes the file, and it starts from the file as it is.
LEMMA OnlySaves ==
  ASSUME TypeInv, LockInv, [Next]_vars, file' # file
  PROVE  \E t \in Threads : Save(t) /\ pc[t] = "write" /\ cur[t] = file
<1>1. ASSUME NEW t \in Threads, Begin(t) PROVE file' = file
  BY <1>1 DEF Begin, NewManager, AddBegin, StartBegin, StopBegin, DeleteBegin,
              ReconcileBegin, TerminalBegin, Call
<1>2. ASSUME NEW t \in Threads, Proceed(t), ~Save(t) PROVE file' = file
  BY <1>2 DEF Proceed, AddCreate, StartRuntime, StopRuntime, StopInfo,
              DeleteRuntime, DeleteLock, TerminalAutoStart, TerminalAttach,
              RuntimeFails, Acquire, Reload
<1>3. PICK t \in Threads : Save(t)
  BY <1>1, <1>2 DEF Next, TerminalEnd, Crash, External, Finished, vars
<1>4. pc[t] = "write"
  BY <1>3 DEF Save, SaveAdd, SaveUpdate, SaveAutoStart, SaveDelete,
              SaveReconcile, SaveMigrate, SaveFails, Store
<1> QED
  BY <1>3, <1>4 DEF LockInv

LEMMA ReplacedIds ==
  ASSUME NEW list, NEW r PROVE IdsOf(Replaced(list, r)) = IdsOf(list)
  BY DEF IdsOf, Replaced

\* A workspace leaves the file only when it is deleted or reconciled away.
THEOREM RegistrationsKept == Spec => NoLostRegistration
<1> DEFINE Kept ==
      \A id \in Registered \ Registered' :
          \E t \in Threads :
              /\ pc[t] = "write"
              /\ \/ kind[t] = "delete" /\ rec[t].id = id
                 \/ kind[t] = "reconcile"
<1>1. Init => TypeInv /\ LockInv
  BY TypeInit DEF Init, LockInv, InLock
<1>2. TypeInv /\ LockInv /\ [Next]_vars => TypeInv' /\ LockInv'
  BY TypeNext, LockNext
<1>3. TypeInv /\ LockInv /\ [Next]_vars => Kept
  <2> SUFFICES ASSUME TypeInv, LockInv, [Next]_vars,
                      NEW id \in Registered, id \notin Registered'
               PROVE  \E t \in Threads :
                          /\ pc[t] = "write"
                          /\ \/ kind[t] = "delete" /\ rec[t].id = id
                             \/ kind[t] = "reconcile"
    OBVIOUS
  <2>1. PICK t \in Threads : Save(t) /\ pc[t] = "write" /\ cur[t] = file
    BY OnlySaves DEF Registered
  <2>2. ~SaveAdd(t)
    BY <2>1 DEF SaveAdd, Store, Registered, IdsOf
  <2>3. ~SaveUpdate(t) /\ ~SaveAutoStart(t)
    BY <2>1, ReplacedIds DEF SaveUpdate, SaveAutoStart, Store, Registered
  <2>4. ~SaveMigrate(t)
    <3>1. SUFFICES ASSUME SaveMigrate(t) PROVE FALSE
      OBVIOUS
    <3>2. PICK r \in file : r.id = id
      BY DEF Registered, IdsOf
    <3>3. [r EXCEPT !.created = TRUE] \in file'
      BY <2>1, <3>1, <3>2 DEF SaveMigrate, Store
    <3>4. [r EXCEPT !.created = TRUE].id = id
      BY <3>2 DEF TypeInv, TypeOK, Instance
    <3> QED
      BY <3>3, <3>4 DEF Registered, IdsOf
  <2>5. ~SaveFails(t)
    BY <2>1 DEF SaveFails, Registered
  <2>6. SaveDelete(t) => kind[t] = "delete" /\ rec[t].id = id
    BY <2>1 DEF SaveDelete, Store, Registered, IdsOf
  <2> QED
    BY <2>1, <2>2, <2>3, <2>4, <2>5, <2>6 DEF Save, SaveReconcile
<1> QED
  BY <1>1, <1>2, <1>3, PTL DEF Spec, NoLostRegistration

\* A workspace enters the file only in the Add that made its id.
THEOREM NothingResurrected == Spec => NoResurrection
<1> DEFINE Added ==
      \A id \in Registered' \ Registered :
          \E t \in Threads :
              pc[t] = "write" /\ kind[t] = "add" /\ rec[t].id = id
<1>1. Init => TypeInv /\ LockInv
  BY TypeInit DEF Init, LockInv, InLock
<1>2. TypeInv /\ LockInv /\ [Next]_vars => TypeInv' /\ LockInv'
  BY TypeNext, LockNext
<1>3. TypeInv /\ LockInv /\ [Next]_vars => Added
  <2> SUFFICES ASSUME TypeInv, LockInv, [Next]_vars,
                      NEW id \in Registered', id \notin Registered
               PROVE  \E t \in Threads :
                          pc[t] = "write" /\ kind[t] = "add" /\ rec[t].id = id
    OBVIOUS
  <2>1. PICK t \in Threads : Save(t) /\ pc[t] = "write" /\ cur[t] = file
    BY OnlySaves DEF Registered
  <2>2. ~SaveUpdate(t) /\ ~SaveAutoStart(t)
    BY <2>1, ReplacedIds DEF SaveUpdate, SaveAutoStart, Store, Registered
  <2>3. ~SaveDelete(t) /\ ~SaveReconcile(t) /\ ~SaveFails(t)
    BY <2>1 DEF SaveDelete, SaveReconcile, SaveFails, Store, Registered, IdsOf
  <2>4. ~SaveMigrate(t)
    BY <2>1 DEF SaveMigrate, Store, Registered, IdsOf, TypeInv, TypeOK, Instance
  <2>5. SaveAdd(t) => kind[t] = "add" /\ rec[t].id = id
    BY <2>1 DEF SaveAdd, Store, Registered, IdsOf
  <2> QED
    BY <2>1, <2>2, <2>3, <2>4, <2>5 DEF Save
<1> QED
  BY <1>1, <1>2, <1>3, PTL DEF Spec, NoResurrection

-----------------------------------------------------------------------------
(* Identity.  An id belongs to one Add, is stored at most once, and the    *)
(* record that Start and Stop will store differs from the stored one only  *)
(* in its state and start time.  The creation time is part of that: once a *)
(* process has booted, every record has one.                               *)

\* The generator never returns an id again, in any process: it is math/rand with
\* the time as its seed (generator.go:53-71).  The manager itself compares a new
\* id with the stored ones alone.
FreshIds == "collision" \notin Faults

Adding(t) == kind[t] = "add"

Updating(t) == kind[t] \in {"start", "stop", "terminal"}

SameIdentity(r, s) ==
    /\ r.id = s.id /\ r.name = s.name
    /\ r.rt = s.rt /\ r.rid = s.rid
    /\ r.created = s.created

MatchesFile(r) ==
    /\ r.id \in issued
    /\ \A s \in file : s.id = r.id => SameIdentity(s, r)

IdInv ==
    /\ IdsOf(file) \subseteq issued
    /\ UniqueIds
    /\ \A t \in Threads : Adding(t) =>
          rec[t].id \in issued \ IdsOf(file) /\ rec[t].created
    /\ \A t, u \in Threads :
          Adding(t) /\ rec[t].id = rec[u].id => ~Updating(u) /\ (Adding(u) => t = u)
    /\ \A t \in Threads : Updating(t) => MatchesFile(rec[t])
    /\ \A t \in Threads : kind[t] \notin {"none", "migrate"} => booted[ProcOf[t]]
    /\ \A p \in Procs : booted[p] => \A r \in file : r.created

Inv == TypeInv /\ LockInv /\ IdInv

LEMMA IdInit == Init => IdInv
  BY LegacyAssumption, ProcOfType
  DEF Init, IdInv, UniqueIds, Adding, Updating

\* A step of one thread that leaves the file and the issued ids alone, and
\* starts no Add.
LEMMA IdLocal ==
  ASSUME Inv, NEW t \in Threads, UNCHANGED <<file, issued, booted>>,
         \A u \in Threads \ {t} : kind'[u] = kind[u] /\ rec'[u] = rec[u],
         kind'[t] \in {"none", "migrate"} \/ booted[ProcOf[t]],
         Adding(t)' => Adding(t) /\ rec'[t] = rec[t],
         Updating(t)' => MatchesFile(rec'[t]) /\ (Updating(t) => rec'[t].id = rec[t].id),
         Updating(t)' => Updating(t) \/ rec'[t].id \in IdsOf(file)
  PROVE  IdInv'
<1>1. \A u \in Threads : Adding(u)' => Adding(u) /\ rec'[u] = rec[u]
  BY DEF Adding
<1>2. \A u \in Threads : Updating(u)' => MatchesFile(rec'[u])
  BY DEF Inv, IdInv, Updating
<1>3. \A u \in Threads : Updating(u)' =>
          \/ Updating(u) /\ rec'[u].id = rec[u].id
          \/ rec'[u].id \in IdsOf(file)
  BY DEF Updating
<1>4. \A u, v \in Threads :
          Adding(u)' /\ rec'[u].id = rec'[v].id => ~Updating(v)' /\ (Adding(v)' => u = v)
  BY <1>1, <1>3 DEF Inv, IdInv
<1>5. \A u \in Threads : kind'[u] \notin {"none", "migrate"} => booted'[ProcOf[u]]
  BY DEF Inv, IdInv
<1>6. (IdsOf(file))' = IdsOf(file)
  BY DEF IdsOf
<1> QED
  BY <1>1, <1>2, <1>4, <1>5, <1>6 DEF Inv, IdInv, UniqueIds, MatchesFile, SameIdentity

LEMMA IdReturn ==
  ASSUME Inv, NEW t \in Threads, Return(t), UNCHANGED <<file, issued, booted>>
  PROVE  IdInv'
<1>1. /\ kind'[t] = "none"
      /\ \A u \in Threads \ {t} : kind'[u] = kind[u] /\ rec'[u] = rec[u]
  BY DEF Return, Inv, TypeInv, TypeOK
<1> QED
  BY <1>1, IdLocal DEF Adding, Updating

LEMMA FoundMatches ==
  ASSUME Inv, NEW t \in Threads, NEW id, Found(t, id, file)
  PROVE  /\ MatchesFile(rec'[t])
         /\ rec'[t].id = id
         /\ id \in IdsOf(file)
         /\ \A u \in Threads \ {t} : rec'[u] = rec[u]
<1>1. PICK r \in file : r.id = id /\ rec' = [rec EXCEPT ![t] = r]
  BY DEF Found
<1>2. rec'[t] = r /\ \A u \in Threads \ {t} : rec'[u] = rec[u]
  BY <1>1 DEF Inv, TypeInv, TypeOK
<1> QED
  BY <1>1, <1>2 DEF Inv, IdInv, UniqueIds, MatchesFile, SameIdentity, IdsOf

LEMMA IdBegin ==
  ASSUME FreshIds, Inv, NEW t \in Threads, Begin(t)
  PROVE  IdInv'
<1>1. CASE NewManager(t)
  BY <1>1, IdLocal DEF NewManager, Adding, Updating, Inv, TypeInv, TypeOK
<1>2. CASE AddBegin(t)
  <2>1. PICK id \in Ids \ issued, base \in Bases, name \in Names, rt \in Runtimes :
           /\ issued' = issued \cup {id}
           /\ rec' = [rec EXCEPT ![t] = NewRecord(id, name, rt)]
    BY <1>2 DEF AddBegin, FreshIds
  <2>2. /\ rec'[t].id = id
        /\ rec'[t].created
        /\ \A u \in Threads \ {t} : rec'[u] = rec[u]
    BY <2>1 DEF NewRecord, Inv, TypeInv, TypeOK
  <2>3. /\ kind'[t] = "add"
        /\ booted[ProcOf[t]]
        /\ \A u \in Threads \ {t} : kind'[u] = kind[u]
        /\ UNCHANGED <<file, booted>>
    BY <1>2 DEF AddBegin, Call, Inv, TypeInv, TypeOK
  <2>4. /\ (IdsOf(file))' = IdsOf(file)
        /\ id \notin IdsOf(file)
    BY <2>1, <2>3 DEF IdsOf, Inv, IdInv
  <2>5. \A u \in Threads : Adding(u)' =>
            rec'[u].id \in issued' \ IdsOf(file)' /\ rec'[u].created
    BY <2>1, <2>2, <2>3, <2>4 DEF Inv, IdInv, Adding
  <2>6. \A u, v \in Threads :
            Adding(u)' /\ rec'[u].id = rec'[v].id
               => ~Updating(v)' /\ (Adding(v)' => u = v)
    BY <2>1, <2>2, <2>3, <2>4 DEF Inv, IdInv, Adding, Updating, MatchesFile
  <2>7. \A u \in Threads : Updating(u)' => MatchesFile(rec[u])'
    BY <2>1, <2>2, <2>3 DEF Inv, IdInv, Updating, MatchesFile, SameIdentity
  <2> QED
    BY <2>1, <2>3, <2>4, <2>5, <2>6, <2>7 DEF Inv, IdInv, UniqueIds
<1>3. CASE StartBegin(t) \/ StopBegin(t) \/ DeleteBegin(t) \/ TerminalBegin(t)
  <2>1. /\ \E id \in issued : Found(t, id, file)
        /\ issued' = issued
    BY <1>3 DEF StartBegin, StopBegin, DeleteBegin, TerminalBegin
  <2>2. /\ kind'[t] \in {"start", "stop", "delete", "terminal"}
        /\ kind[t] = "none"
        /\ booted[ProcOf[t]]
        /\ \A u \in Threads \ {t} : kind'[u] = kind[u]
        /\ UNCHANGED <<file, booted>>
    BY <1>3 DEF StartBegin, StopBegin, DeleteBegin, TerminalBegin, Call,
                Inv, TypeInv, TypeOK, RecordInv
  <2> QED
    BY <2>1, <2>2, FoundMatches, IdLocal DEF Adding, Updating
<1>4. CASE ReconcileBegin(t)
  BY <1>4, IdLocal
  DEF ReconcileBegin, Call, Adding, Updating, Inv, TypeInv, TypeOK
<1> QED
  BY <1>1, <1>2, <1>3, <1>4 DEF Begin

\* Backfilling a record sets its creation time.
LEMMA BackfilledRecord ==
  ASSUME NEW s \in Instance
  PROVE  LET r == [s EXCEPT !.created = TRUE] IN
         /\ r.id = s.id /\ r.name = s.name /\ r.rt = s.rt /\ r.rid = s.rid
         /\ r.created
         /\ s.created => r = s
  BY DEF Instance

\* A save that keeps the identity of what it keeps, and forgets the locals of
\* its thread.
LEMMA IdSaved ==
  ASSUME Inv, NEW t \in Threads, UNCHANGED issued,
         \A u \in Threads \ {t} : kind'[u] = kind[u] /\ rec'[u] = rec[u],
         \/ kind'[t] = "none" /\ UNCHANGED booted
         \/ kind'[t] = kind[t] /\ rec'[t] = rec[t] /\ Updating(t) /\ UNCHANGED booted,
         \A r \in file' : \E s \in file : SameIdentity(r, s),
         \A r, s \in file' : r.id = s.id => r = s
  PROVE  IdInv'
<1>1. \A u \in Threads : Adding(u)' => Adding(u) /\ rec'[u] = rec[u]
  BY DEF Adding, Updating
<1>2. \A u \in Threads : Updating(u)' => Updating(u) /\ rec'[u] = rec[u]
  BY DEF Updating
<1>3. (IdsOf(file))' \subseteq IdsOf(file)
  BY DEF IdsOf, SameIdentity
<1>4. \A u \in Threads : Updating(u)' => MatchesFile(rec[u])'
  BY <1>2 DEF Inv, IdInv, MatchesFile, SameIdentity
<1>5. \A r \in file' : (\A s \in file : s.created) => r.created
  BY DEF SameIdentity
<1>6. \A u \in Threads : kind'[u] \notin {"none", "migrate"} => booted'[ProcOf[u]]
  BY DEF Inv, IdInv
<1> QED
  BY <1>1, <1>2, <1>3, <1>4, <1>5, <1>6 DEF Inv, IdInv, UniqueIds

\* When the thread has booted, so that all records have a creation time, the
\* replaced list differs from the file in states and start times only.
LEMMA ReplacedIdentity ==
  ASSUME Inv, NEW t \in Threads, Updating(t)
  PROVE  /\ \A r \in Replaced(file, rec[t]) : \E s \in file : SameIdentity(r, s)
         /\ \A r, s \in Replaced(file, rec[t]) : r.id = s.id => r = s
  BY DEF Inv, IdInv, UniqueIds, MatchesFile, SameIdentity, Replaced

LEMMA IdSave ==
  ASSUME Inv, NEW t \in Threads, Save(t)
  PROVE  IdInv'
<1>1. \A u \in Threads \ {t} : kind'[u] = kind[u] /\ rec'[u] = rec[u]
  BY DEF Save, SaveAdd, SaveUpdate, SaveAutoStart, SaveDelete, SaveReconcile,
         SaveMigrate, SaveFails, Return, Inv, TypeInv, TypeOK
<1>2. pc[t] = "write" => cur[t] = file
  BY DEF Inv, LockInv
<1>3. UNCHANGED issued
  BY DEF Save, SaveAdd, SaveUpdate, SaveAutoStart, SaveDelete, SaveReconcile,
         SaveMigrate, SaveFails, Store
<1>4. CASE SaveAdd(t)
  <2>1. /\ file' = file \cup {rec[t]}
        /\ kind[t] = "add"
        /\ kind'[t] = "none"
        /\ UNCHANGED booted
    BY <1>2, <1>4 DEF SaveAdd, Store, Return, Inv, TypeInv, TypeOK
  <2>2. IdsOf(file)' = IdsOf(file) \cup {rec[t].id}
    BY <2>1 DEF IdsOf
  <2>3. /\ rec[t].id \in issued \ IdsOf(file)
        /\ rec[t].created
        /\ booted[ProcOf[t]]
    BY <2>1 DEF Inv, IdInv, Adding
  <2>4. \A u \in Threads : Adding(u)' =>
            rec'[u].id \in issued' \ IdsOf(file)' /\ rec'[u].created
    BY <1>1, <1>3, <2>1, <2>2 DEF Inv, IdInv, Adding
  <2>5. \A u \in Threads : Updating(u)' => MatchesFile(rec[u])'
    BY <1>1, <1>3, <2>1 DEF Inv, IdInv, Adding, Updating, MatchesFile, SameIdentity
  <2>6. UniqueIds'
    BY <2>1, <2>3 DEF Inv, IdInv, UniqueIds, IdsOf
  <2>7. \A u \in Threads : Adding(u)' \/ Updating(u)' =>
            u # t /\ kind'[u] = kind[u] /\ rec'[u] = rec[u]
    BY <1>1, <2>1 DEF Adding, Updating
  <2>8. \A u, v \in Threads :
            Adding(u)' /\ rec'[u].id = rec'[v].id
               => ~Updating(v)' /\ (Adding(v)' => u = v)
    BY <2>7 DEF Inv, IdInv, Adding, Updating
  <2>9. \A u \in Threads : kind'[u] \notin {"none", "migrate"} => booted'[ProcOf[u]]
    BY <1>1, <2>1 DEF Inv, IdInv
  <2>10. \A p \in Procs : booted'[p] => \A r \in file' : r.created
    BY <2>1, <2>3 DEF Inv, IdInv
  <2>11. IdsOf(file)' \subseteq issued'
    BY <1>3, <2>2, <2>3 DEF Inv, IdInv
  <2> QED
    BY <2>4, <2>5, <2>6, <2>8, <2>9, <2>10, <2>11 DEF IdInv
<1>5. CASE SaveUpdate(t)
  <2>1. /\ file' = Replaced(file, rec[t])
        /\ Updating(t)
        /\ kind'[t] = "none"
        /\ UNCHANGED booted
    BY <1>2, <1>5 DEF SaveUpdate, Store, Return, Updating, Inv, TypeInv, TypeOK
  <2> QED
    BY <1>1, <1>3, <2>1, ReplacedIdentity, IdSaved
<1>6. CASE SaveAutoStart(t)
  <2>1. /\ file' = Replaced(file, rec[t])
        /\ Updating(t)
        /\ UNCHANGED <<kind, rec, booted>>
    BY <1>2, <1>6 DEF SaveAutoStart, Store, Updating
  <2> QED
    BY <1>1, <1>3, <2>1, ReplacedIdentity, IdSaved
<1>7. CASE SaveDelete(t) \/ SaveReconcile(t)
  <2>1. /\ file' \subseteq file
        /\ kind'[t] = "none"
        /\ UNCHANGED booted
    BY <1>2, <1>7 DEF SaveDelete, SaveReconcile, Store, Return, Inv, TypeInv, TypeOK
  <2>2. \A r \in file' : \E s \in file : SameIdentity(r, s)
    BY <2>1 DEF SameIdentity
  <2> QED
    BY <1>1, <1>3, <2>1, <2>2, IdSaved DEF Inv, IdInv, UniqueIds
<1>8. CASE SaveMigrate(t)
  <2> DEFINE Backfilled(s) == [s EXCEPT !.created = TRUE]
  <2>0. \A s \in file :
            LET r == Backfilled(s) IN
            /\ r.id = s.id /\ r.name = s.name /\ r.rt = s.rt /\ r.rid = s.rid
            /\ r.created
            /\ s.created => r = s
    BY BackfilledRecord DEF Inv, TypeInv, TypeOK
  <2>1. /\ file' = {Backfilled(s) : s \in file}
        /\ kind'[t] = "none"
        /\ booted' = [booted EXCEPT ![ProcOf[t]] = TRUE]
    BY <1>2, <1>8 DEF SaveMigrate, Store, Return, Inv, TypeInv, TypeOK
  <2> HIDE DEF Backfilled
  <2>2. \A r \in file' : \E s \in file :
            /\ r.id = s.id /\ r.name = s.name /\ r.rt = s.rt /\ r.rid = s.rid
            /\ r.created
            /\ s.created => r = s
    BY <2>0, <2>1
  <2>3. (IdsOf(file))' \subseteq IdsOf(file)
    BY <2>2 DEF IdsOf
  <2>4. UniqueIds'
    BY <2>0, <2>1 DEF Inv, IdInv, UniqueIds
  <2>5. \A u \in Threads : Updating(u)' => Updating(u) /\ u # t
    BY <1>1, <2>1 DEF Updating
  <2>6. \A u \in Threads : Updating(u) => \A s \in file : s.created
    BY ProcOfType DEF Inv, IdInv, Updating
  <2>7. \A u \in Threads : Updating(u)' => MatchesFile(rec[u])'
    BY <1>1, <1>3, <2>2, <2>5, <2>6 DEF Inv, IdInv, MatchesFile, SameIdentity
  <2>8. \A u \in Threads : Adding(u)' => Adding(u) /\ rec'[u] = rec[u]
    BY <1>1, <2>1 DEF Adding
  <2>9. \A u \in Threads : kind'[u] \notin {"none", "migrate"} => booted'[ProcOf[u]]
    BY <1>1, <2>1, ProcOfType DEF Inv, IdInv, TypeInv, TypeOK
  <2> QED
    BY <1>1, <1>3, <2>2, <2>3, <2>4, <2>5, <2>7, <2>8, <2>9 DEF Inv, IdInv
<1>9. CASE SaveFails(t)
  <2>1. /\ kind'[t] = "none"
        /\ UNCHANGED <<file, booted>>
    BY <1>9 DEF SaveFails, Return, Inv, TypeInv, TypeOK
  <2>2. \A r \in file' : \E s \in file : SameIdentity(r, s)
    BY <2>1 DEF SameIdentity
  <2> QED
    BY <1>1, <1>3, <2>1, <2>2, IdSaved DEF Inv, IdInv, UniqueIds
<1> QED
  BY <1>4, <1>5, <1>6, <1>7, <1>8, <1>9 DEF Save

LEMMA IdProceed ==
  ASSUME Inv, NEW t \in Threads, Proceed(t)
  PROVE  IdInv'
<1>1. CASE \/ AddCreate(t) \/ StopRuntime(t) \/ DeleteRuntime(t) \/ DeleteLock(t)
           \/ Acquire(t) \/ Reload(t)
  BY <1>1 DEF AddCreate, StopRuntime, DeleteRuntime, DeleteLock, Acquire, Reload,
              Inv, IdInv, UniqueIds, Adding, Updating, MatchesFile, SameIdentity
<1>2. CASE StartRuntime(t) \/ StopInfo(t)
  <2>1. Updating(t) /\ rec[t] \in Instance
    BY <1>2 DEF StartRuntime, StopInfo, Updating, Inv, TypeInv, RecordInv
  <2>2. PICK s, b : rec' = [rec EXCEPT ![t].state = s, ![t].started = b]
    BY <1>2 DEF StartRuntime, StopInfo
  <2>3. /\ SameIdentity(rec[t], rec'[t])
        /\ \A u \in Threads \ {t} : rec'[u] = rec[u]
    BY <2>1, <2>2 DEF SameIdentity, Inv, TypeInv, TypeOK, Instance
  <2>4. MatchesFile(rec'[t])
    BY <2>1, <2>3 DEF Inv, IdInv, MatchesFile, SameIdentity
  <2>5. UNCHANGED <<file, issued, booted, kind>>
    BY <1>2 DEF StartRuntime, StopInfo
  <2>6. rec'[t].id = rec[t].id /\ ~Adding(t) /\ booted[ProcOf[t]]
    BY <2>1, <2>3 DEF SameIdentity, Adding, Updating, Inv, IdInv
  <2> QED
    BY <2>1, <2>3, <2>4, <2>5, <2>6, IdLocal DEF Adding, Updating
<1>3. CASE TerminalAutoStart(t) \/ TerminalAttach(t)
  <2>1. CASE rec[t].id \in IdsOf(file)
    <3>1. /\ Found(t, rec[t].id, file)
          /\ UNCHANGED <<file, issued, booted, kind>>
          /\ kind[t] = "terminal"
      BY <1>3, <2>1
      DEF TerminalAutoStart, TerminalAttach, Inv, TypeInv, RecordInv
    <3> QED
      BY <3>1, FoundMatches, IdLocal DEF Adding, Updating, Inv, IdInv
  <2>2. CASE rec[t].id \notin IdsOf(file)
    BY <1>3, <2>2, IdReturn DEF TerminalAutoStart, TerminalAttach
  <2> QED
    BY <2>1, <2>2
<1>4. CASE RuntimeFails(t)
  BY <1>4, IdReturn DEF RuntimeFails
<1>5. CASE Save(t)
  BY <1>5, IdSave
<1> QED
  BY <1>1, <1>2, <1>3, <1>4, <1>5 DEF Proceed

LEMMA IdNext ==
  ASSUME FreshIds, Inv, [Next]_vars
  PROVE  IdInv'
<1>1. CASE \E t \in Threads : Begin(t) \/ Proceed(t)
  BY <1>1, IdBegin, IdProceed
<1>2. CASE \E t \in Threads : TerminalEnd(t)
  BY <1>2, IdReturn DEF TerminalEnd
<1>3. CASE \E p \in Procs : Crash(p)
  <2>1. PICK p \in Procs : Crash(p)
    BY <1>3
  <2>2. /\ UNCHANGED <<file, issued>>
        /\ booted' = [booted EXCEPT ![p] = FALSE]
    BY <2>1 DEF Crash
  <2>3. \A u \in Threads :
            IF ProcOf[u] = p THEN kind'[u] = "none"
            ELSE kind'[u] = kind[u] /\ rec'[u] = rec[u]
    BY <2>1 DEF Crash
  <2>4. \A u \in Threads : kind'[u] \notin {"none", "migrate"} => booted'[ProcOf[u]]
    BY <2>2, <2>3, ProcOfType DEF Inv, IdInv, TypeInv, TypeOK
  <2>5. \A q \in Procs : booted'[q] => booted[q]
    BY <2>2 DEF Inv, TypeInv, TypeOK
  <2>6. \A u \in Threads : Adding(u)' \/ Updating(u)' =>
            kind'[u] = kind[u] /\ rec'[u] = rec[u]
    BY <2>3 DEF Adding, Updating
  <2>7. \A u, v \in Threads :
            Adding(u)' /\ rec'[u].id = rec'[v].id
               => ~Updating(v)' /\ (Adding(v)' => u = v)
    BY <2>6 DEF Inv, IdInv, Adding, Updating
  <2>8. \A u \in Threads : Adding(u)' =>
            rec'[u].id \in issued' \ IdsOf(file)' /\ rec'[u].created
    BY <2>2, <2>6 DEF Inv, IdInv, Adding, IdsOf
  <2>9. \A u \in Threads : Updating(u)' => MatchesFile(rec[u])'
    BY <2>2, <2>6 DEF Inv, IdInv, Updating, MatchesFile, SameIdentity
  <2> QED
    BY <2>2, <2>4, <2>5, <2>7, <2>8, <2>9 DEF Inv, IdInv, UniqueIds, IdsOf
<1>4. CASE External \/ Finished \/ UNCHANGED vars
  BY <1>4 DEF External, Finished, vars, Inv, IdInv, UniqueIds, Adding, Updating,
              MatchesFile, SameIdentity
<1> QED
  BY <1>1, <1>2, <1>3, <1>4 DEF Next

LEMMA InvCorrect == ASSUME FreshIds PROVE Spec => []Inv
<1>1. Init => Inv
  <2>1. Init => LockInv
    BY DEF Init, LockInv, InLock
  <2> QED
    BY <2>1, TypeInit, IdInit DEF Inv
<1>2. Inv /\ [Next]_vars => Inv'
  BY TypeNext, LockNext, IdNext DEF Inv
<1> QED
  BY <1>1, <1>2, PTL DEF Spec

-----------------------------------------------------------------------------
(* The manager implements the registry.                                    *)

RegistryVars == <<file, Pending, issued>>

\* A step that stores nothing and starts no Add may abandon some.
LEMMA AbandonStep ==
  ASSUME UNCHANGED <<file, issued>>,
         \A u \in Threads : Adding(u)' => Adding(u) /\ rec'[u] = rec[u]
  PROVE  Registry!Next
<1>1. Pending' \subseteq Pending
  BY DEF Pending, Adding
<1>2. /\ Pending' = Pending \ (Pending \ Pending')
      /\ Pending \ Pending' \in SUBSET Pending
  BY <1>1
<1>3. Registry!Abandon(Pending \ Pending')
  BY <1>2 DEF Registry!Abandon
<1> QED
  BY <1>2, <1>3 DEF Registry!Next

LEMMA PendingKept ==
  ASSUME \A u \in Threads : Adding(u)' <=> Adding(u),
         \A u \in Threads : Adding(u) => rec'[u] = rec[u]
  PROVE  Pending' = Pending
  BY DEF Pending, Adding

LEMMA ReserveStep ==
  ASSUME FreshIds, Inv, NEW t \in Threads, AddBegin(t)
  PROVE  Registry!Next
<1>1. PICK id \in Ids \ issued, base \in Bases, name \in Names, rt \in Runtimes :
         /\ issued' = issued \cup {id}
         /\ rec' = [rec EXCEPT ![t] = NewRecord(id, name, rt)]
  BY DEF AddBegin, FreshIds
<1>2. /\ rec'[t].id = id
      /\ \A u \in Threads \ {t} : rec'[u] = rec[u]
  BY <1>1 DEF NewRecord, Inv, TypeInv, TypeOK
<1>3. /\ kind[t] # "add" /\ kind'[t] = "add"
      /\ \A u \in Threads \ {t} : kind'[u] = kind[u]
      /\ UNCHANGED file
  BY DEF AddBegin, Call, Inv, TypeInv, TypeOK, RecordInv
<1>4. Pending' = Pending \cup {id}
  BY <1>2, <1>3 DEF Pending
<1>5. Registry!Reserve(id)
  BY <1>1, <1>3, <1>4 DEF Registry!Reserve
<1>6. NewRecord(id, name, rt) \in Instance /\ NewRecord(id, name, rt).id = id
  BY <1>1, NewRecordType DEF NewRecord
<1> QED
  BY <1>5, <1>6 DEF Registry!Next

LEMMA RegisterStep ==
  ASSUME Inv, NEW t \in Threads, SaveAdd(t)
  PROVE  Registry!Next
<1>1. /\ kind[t] = "add" /\ kind'[t] = "none"
      /\ \A u \in Threads \ {t} : kind'[u] = kind[u] /\ rec'[u] = rec[u]
      /\ file' = file \cup {rec[t]}
      /\ UNCHANGED issued
  BY DEF SaveAdd, Store, Return, Inv, TypeInv, TypeOK, LockInv
<1>2. \A u \in Threads \ {t} : kind[u] = "add" => rec[u].id # rec[t].id
  BY <1>1 DEF Inv, IdInv, Adding
<1>3. Pending' = Pending \ {rec[t].id}
  BY <1>1, <1>2 DEF Pending
<1>4. rec[t] \in Instance /\ rec[t].id \in Pending /\ rec[t].id \notin IdsOf(file)
  BY <1>1 DEF Inv, TypeInv, RecordInv, IdInv, Adding, Pending
<1>5. Registry!Register(rec[t])
  BY <1>1, <1>3, <1>4 DEF Registry!Register, Registry!IdsOf, IdsOf
<1> QED
  BY <1>4, <1>5 DEF Registry!Next

\* Storing the updated record updates the stored one, if it is still there.
LEMMA UpdateStep ==
  ASSUME Inv, NEW t \in Threads, Updating(t), file' = Replaced(file, rec[t]),
         Pending' = Pending, UNCHANGED issued
  PROVE  Registry!Next \/ UNCHANGED RegistryVars
<1>1. CASE \A r \in file : r.id # rec[t].id
  BY <1>1 DEF Replaced, RegistryVars
<1>2. ASSUME NEW r \in file, r.id = rec[t].id
      PROVE  Registry!Next
  <2>1. /\ SameIdentity(r, rec[t])
        /\ rec[t] \in Instance
        /\ r \in Instance
        /\ \A s \in file : s.id = rec[t].id => s = r
    BY <1>2 DEF Inv, IdInv, MatchesFile, UniqueIds, Updating, TypeInv, TypeOK, RecordInv
  <2>2. rec[t] = [r EXCEPT !.state = rec[t].state, !.started = rec[t].started]
    BY <2>1 DEF SameIdentity, Instance
  <2>3. file' = (file \ {r}) \cup {rec[t]}
    BY <1>2, <2>1 DEF Replaced
  <2>4. Registry!Update(r, rec[t].state, rec[t].started)
    BY <2>2, <2>3 DEF Registry!Update
  <2>5. rec[t].state \in {"stopped", "running"} /\ rec[t].started \in BOOLEAN
    BY <2>1 DEF Instance, States
  <2> QED
    BY <2>4, <2>5 DEF Registry!Next
<1> QED
  BY <1>1, <1>2

LEMMA SaveStep ==
  ASSUME Inv, NEW t \in Threads, Save(t)
  PROVE  Registry!Next \/ UNCHANGED RegistryVars
<1>1. CASE SaveAdd(t)
  BY <1>1, RegisterStep
<1>2. CASE SaveFails(t)
  <2>1. \A u \in Threads : Adding(u)' => Adding(u) /\ rec'[u] = rec[u]
    BY <1>2 DEF SaveFails, Return, Adding, Inv, TypeInv, TypeOK
  <2> QED
    BY <1>2, <2>1, AbandonStep DEF SaveFails
<1>3. ASSUME Save(t), ~SaveAdd(t), ~SaveFails(t)
      PROVE  Registry!Next \/ UNCHANGED RegistryVars
  <2>1. cur[t] = file /\ UNCHANGED issued
    BY <1>3 DEF Save, SaveUpdate, SaveAutoStart, SaveDelete, SaveReconcile,
                SaveMigrate, Store, Inv, LockInv
  <2>2. /\ ~Adding(t) /\ ~Adding(t)'
        /\ \A u \in Threads \ {t} : kind'[u] = kind[u] /\ rec'[u] = rec[u]
    BY <1>3 DEF Save, SaveUpdate, SaveAutoStart, SaveDelete, SaveReconcile,
                SaveMigrate, Return, Adding, Inv, TypeInv, TypeOK
  <2>3. Pending' = Pending
    BY <2>2, PendingKept DEF Adding
  <2>4. CASE SaveUpdate(t) \/ SaveAutoStart(t)
    BY <2>1, <2>3, <2>4, UpdateStep DEF SaveUpdate, SaveAutoStart, Store, Updating
  <2>5. CASE SaveDelete(t) \/ SaveReconcile(t)
    <3>1. file' \subseteq file
      BY <2>1, <2>5 DEF SaveDelete, SaveReconcile, Store
    <3>2. /\ file' = file \ (file \ file')
          /\ file \ file' \in SUBSET file
      BY <3>1
    <3>3. Registry!Unregister(file \ file')
      BY <2>1, <2>3, <3>2 DEF Registry!Unregister
    <3> QED
      BY <3>2, <3>3 DEF Registry!Next
  <2>6. CASE SaveMigrate(t)
    <3>1. file' = {[s EXCEPT !.created = TRUE] : s \in file}
      BY <2>1, <2>6 DEF SaveMigrate, Store
    <3>2. Registry!Backfill
      BY <2>1, <2>3, <3>1 DEF Registry!Backfill
    <3> QED
      BY <3>2 DEF Registry!Next
  <2> QED
    BY <1>3, <2>4, <2>5, <2>6 DEF Save
<1> QED
  BY <1>1, <1>2, <1>3

LEMMA RegistryStep ==
  ASSUME FreshIds, Inv, [Next]_vars
  PROVE  Registry!Next \/ UNCHANGED RegistryVars
<1>1. ASSUME NEW t \in Threads, Begin(t), ~AddBegin(t) PROVE Registry!Next
  <2>1. UNCHANGED <<file, issued>>
    BY <1>1 DEF Begin, NewManager, StartBegin, StopBegin, DeleteBegin,
                ReconcileBegin, TerminalBegin, Call
  <2>2. \A u \in Threads : kind'[u] = "add" => u # t
    BY <1>1 DEF Begin, NewManager, StartBegin, StopBegin, DeleteBegin,
                ReconcileBegin, TerminalBegin, Call, Inv, TypeInv, TypeOK
  <2>3. \A u \in Threads \ {t} : kind'[u] = kind[u] /\ rec'[u] = rec[u]
    BY <1>1 DEF Begin, NewManager, StartBegin, StopBegin, DeleteBegin,
                ReconcileBegin, TerminalBegin, Call, Found, Inv, TypeInv, TypeOK
  <2> QED
    BY <2>1, <2>2, <2>3, AbandonStep DEF Adding
<1>2. ASSUME NEW t \in Threads, Proceed(t), ~Save(t) PROVE Registry!Next
  <2>1. UNCHANGED <<file, issued>>
    BY <1>2 DEF Proceed, AddCreate, StartRuntime, StopRuntime, StopInfo,
                DeleteRuntime, DeleteLock, TerminalAutoStart, TerminalAttach,
                RuntimeFails, Acquire, Reload
  <2>2. \A u \in Threads \ {t} : kind'[u] = kind[u] /\ rec'[u] = rec[u]
    BY <1>2 DEF Proceed, AddCreate, StartRuntime, StopRuntime, StopInfo,
                DeleteRuntime, DeleteLock, TerminalAutoStart, TerminalAttach,
                RuntimeFails, Acquire, Reload, Return, Found, Inv, TypeInv, TypeOK
  <2>3. kind'[t] = "add" => kind[t] = "add" /\ rec'[t] = rec[t]
    BY <1>2 DEF Proceed, AddCreate, StartRuntime, StopRuntime, StopInfo,
                DeleteRuntime, DeleteLock, TerminalAutoStart, TerminalAttach,
                RuntimeFails, Acquire, Reload, Return, Inv, TypeInv, TypeOK,
                RecordInv
  <2> QED
    BY <2>1, <2>2, <2>3, AbandonStep DEF Adding
<1>3. ASSUME NEW t \in Threads, TerminalEnd(t) PROVE Registry!Next
  <2>1. \A u \in Threads : Adding(u)' => Adding(u) /\ rec'[u] = rec[u]
    BY <1>3 DEF TerminalEnd, Return, Adding, Inv, TypeInv, TypeOK
  <2> QED
    BY <1>3, <2>1, AbandonStep DEF TerminalEnd
<1>4. CASE \E p \in Procs : Crash(p)
  <2>1. \A u \in Threads : Adding(u)' => Adding(u) /\ rec'[u] = rec[u]
    BY <1>4 DEF Crash, Adding
  <2> QED
    BY <1>4, <2>1, AbandonStep DEF Crash
<1>5. CASE External \/ Finished \/ UNCHANGED vars
  BY <1>5 DEF External, Finished, vars, RegistryVars, Pending
<1> QED
  BY <1>1, <1>2, <1>3, <1>4, <1>5, ReserveStep, SaveStep DEF Next

\* The workspaces on disk behave as the atomic registry, if the generator never
\* returns an id again: no interleaving of processes and threads, no failing
\* save and no crash shows through.
THEOREM ManagerImplementsRegistry == ASSUME FreshIds PROVE Spec => RegistrySpec
<1>1. Init => Registry!Init
  BY DEF Init, Registry!Init, Pending, Registry!IdsOf, IdsOf
<1>2. Inv /\ [Next]_vars => [Registry!Next]_<<file, Pending, issued>>
  BY RegistryStep DEF RegistryVars
<1> QED
  BY <1>1, <1>2, InvCorrect, PTL DEF Spec, RegistrySpec, Registry!Spec
=============================================================================
