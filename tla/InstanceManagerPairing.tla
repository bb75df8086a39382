------------------------ MODULE InstanceManagerPairing ------------------------
(***************************************************************************)
(* Proofs about InstanceManager and the runtimes: names are unique, every  *)
(* runtime instance belongs to a stored workspace and every workspace has  *)
(* its instance, stored states and start times follow the runtime.  What   *)
(* needs a single process (OneProcess) rests on the RWMutex, which most    *)
(* methods hold across their runtime call; the file lock alone, shared by  *)
(* every process, pairs workspaces and instances where a runtime never     *)
(* hands out an instance twice (NameKeyed = {}).                           *)
(***************************************************************************)
EXTENDS InstanceManagerProofs

OneProcess == \A t, u \in Threads : ProcOf[t] = ProcOf[u]

-----------------------------------------------------------------------------
(* Steps of one thread.                                                    *)

\* The other threads keep their locals.
Only(t) ==
    \A u \in Threads \ {t} :
        /\ kind'[u] = kind[u] /\ pc'[u] = pc[u]
        /\ rec'[u] = rec[u] /\ mode'[u] = mode[u]

Idle(t) == kind[t] = "none" /\ pc[t] = "idle" /\ mode[t] = "free" /\ rec[t] = NoRec

LEMMA ReturnIsIdle ==
  ASSUME TypeOK, NEW t \in Threads, Return(t)
  PROVE  Only(t) /\ Idle(t)'
  BY DEF TypeOK, Return, Goto, SetMode, Only, Idle

LEMMA FoundOnly ==
  ASSUME TypeOK, NEW t \in Threads, NEW id, Found(t, id, file)
  PROVE  /\ \A u \in Threads \ {t} : rec'[u] = rec[u]
         /\ rec'[t] \in file /\ rec'[t].id = id
  BY DEF TypeOK, Found

\* What a call has set when it has begun.
LEMMA CallOnly ==
  ASSUME TypeOK, NEW t \in Threads, NEW k, NEW label, Call(t, k), Goto(t, label)
  PROVE  /\ pc[t] = "idle" /\ pc'[t] = label /\ kind'[t] = k
         /\ booted[ProcOf[t]] /\ UNCHANGED <<file, pods, booted>>
         /\ \A u \in Threads \ {t} : kind'[u] = kind[u] /\ pc'[u] = pc[u]
  BY DEF TypeOK, Call, Goto

LEMMA ModeOnly ==
  ASSUME TypeOK, NEW t \in Threads, NEW m, SetMode(t, m)
  PROVE  mode'[t] = m /\ \A u \in Threads \ {t} : mode'[u] = mode[u]
  BY DEF TypeOK, SetMode

LEMMA GotoOnly ==
  ASSUME TypeOK, NEW t \in Threads, NEW label, Goto(t, label)
  PROVE  pc'[t] = label /\ \A u \in Threads \ {t} : pc'[u] = pc[u]
  BY DEF TypeOK, Goto

LEMMA BeginOnly ==
  ASSUME TypeOK, NEW t \in Threads, Begin(t)
  PROVE  Only(t)
<1>1. CASE NewManager(t)
  BY <1>1 DEF NewManager, Goto, Only, TypeOK
<1>2. CASE AddBegin(t)
  <2>1. \A u \in Threads \ {t} : rec'[u] = rec[u]
    BY <1>2 DEF AddBegin, TypeOK
  <2> QED
    BY <1>2, <2>1, CallOnly, ModeOnly DEF AddBegin, Only
<1>3. CASE StartBegin(t)
  BY <1>3, CallOnly, ModeOnly, FoundOnly DEF StartBegin, Only
<1>4. CASE StopBegin(t)
  BY <1>4, CallOnly, ModeOnly, FoundOnly DEF StopBegin, Only
<1>5. CASE DeleteBegin(t)
  BY <1>5, CallOnly, FoundOnly DEF DeleteBegin, Only
<1>6. CASE ReconcileBegin(t)
  BY <1>6, CallOnly, ModeOnly DEF ReconcileBegin, Only
<1>7. CASE TerminalBegin(t)
  BY <1>7, CallOnly, FoundOnly DEF TerminalBegin, Only
<1> QED
  BY <1>1, <1>2, <1>3, <1>4, <1>5, <1>6, <1>7 DEF Begin

LEMMA SaveOnly ==
  ASSUME TypeOK, NEW t \in Threads, Save(t)
  PROVE  Only(t)
<1>1. CASE SaveAutoStart(t)
  BY <1>1 DEF SaveAutoStart, Goto, SetMode, Only, TypeOK
<1>2. CASE ~SaveAutoStart(t)
  BY <1>2, ReturnIsIdle
  DEF Save, SaveAdd, SaveUpdate, SaveDelete, SaveReconcile, SaveMigrate, SaveFails
<1> QED
  BY <1>1, <1>2

LEMMA ProceedOnly ==
  ASSUME TypeOK, NEW t \in Threads, Proceed(t)
  PROVE  Only(t)
<1>1. CASE AddCreate(t) \/ DeleteRuntime(t) \/ StopRuntime(t) \/ Acquire(t) \/ Reload(t)
  BY <1>1, GotoOnly DEF AddCreate, DeleteRuntime, StopRuntime, Acquire, Reload, Only
<1>2. CASE StartRuntime(t) \/ StopInfo(t)
  <2>1. \A u \in Threads \ {t} : rec'[u] = rec[u]
    BY <1>2 DEF StartRuntime, StopInfo, TypeOK
  <2> QED
    BY <1>2, <2>1, GotoOnly DEF StartRuntime, StopInfo, Only
<1>3. CASE DeleteLock(t)
  BY <1>3, GotoOnly, ModeOnly DEF DeleteLock, Only
<1>4. CASE TerminalAutoStart(t)
  BY <1>4, GotoOnly, ModeOnly, FoundOnly, ReturnIsIdle DEF TerminalAutoStart, Only
<1>5. CASE TerminalAttach(t)
  BY <1>5, GotoOnly, ModeOnly, FoundOnly, ReturnIsIdle DEF TerminalAttach, Only
<1>6. CASE RuntimeFails(t)
  BY <1>6, ReturnIsIdle DEF RuntimeFails
<1>7. CASE Save(t)
  BY <1>7, SaveOnly
<1> QED
  BY <1>1, <1>2, <1>3, <1>4, <1>5, <1>6, <1>7 DEF Proceed

-----------------------------------------------------------------------------
(* Who runs alone.  A thread that changes the file or, Delete aside, a     *)
(* runtime instance holds the RWMutex for writing, or it is booting.       *)

Alone(t) == mode[t] = "write" \/ kind[t] = "migrate"

ModeInv ==
    \A t \in Threads :
        /\ kind[t] = "none" => Idle(t)
        /\ kind[t] = "migrate" =>
              /\ ~booted[ProcOf[t]] /\ mode[t] = "free"
              /\ \A u \in Mates(t) \ {t} : Idle(u)
        /\ kind[t] \in {"add", "start", "stop", "reconcile"} => mode[t] = "write"
        /\ pc[t] \in {"create", "rtstart", "rtstop", "rtinfo", "flock", "reload", "write"}
              => Alone(t)
        /\ pc[t] \in {"rtremove", "lock", "autostart", "attach"} => mode[t] = "free"
        /\ kind[t] = "reconcile" => UseReconcile
        /\ kind[t] \notin {"none", "migrate"} => booted[ProcOf[t]]

\* What the locks and the scheduling of a process give, whatever the ids.
LockedInv == TypeInv /\ LockInv /\ MutexExcludes /\ ModeInv

BaseInv == Inv /\ LockedInv

\* A step of a booted thread, and of a thread that returns.
LEMMA ModeLocal ==
  ASSUME LockedInv, NEW t \in Threads, Only(t), kind'[t] # "migrate", kind[t] # "migrate",
         UNCHANGED booted, booted[ProcOf[t]],
         kind'[t] = "none" => Idle(t)',
         kind'[t] \in {"add", "start", "stop", "reconcile"} => mode'[t] = "write",
         pc'[t] \in {"create", "rtstart", "rtstop", "rtinfo", "flock", "reload", "write"}
            => mode'[t] = "write",
         pc'[t] \in {"rtremove", "lock", "autostart", "attach"} => mode'[t] = "free",
         kind'[t] = "reconcile" => UseReconcile
  PROVE  ModeInv'
  BY DEF LockedInv, ModeInv, Only, Alone, Mates, Idle

LEMMA ModeReturn ==
  ASSUME LockedInv, NEW t \in Threads, Return(t),
         \/ UNCHANGED booted
         \/ booted' = [booted EXCEPT ![ProcOf[t]] = TRUE] /\ kind[t] = "migrate"
  PROVE  ModeInv'
<1>1. Only(t) /\ Idle(t)'
  BY ReturnIsIdle DEF LockedInv, TypeInv
<1>2. \A u \in Threads \ {t} : kind[u] = "migrate" => booted'[ProcOf[u]] = booted[ProcOf[u]]
  BY ProcOfType DEF LockedInv, ModeInv, Idle, Mates, TypeInv, TypeOK
<1>3. \A u \in Threads : booted[ProcOf[u]] => booted'[ProcOf[u]]
  BY ProcOfType DEF LockedInv, TypeInv, TypeOK
<1> QED
  BY <1>1, <1>2, <1>3 DEF LockedInv, ModeInv, Only, Alone, Mates, Idle

LEMMA ModeBegin ==
  ASSUME LockedInv, NEW t \in Threads, Begin(t)
  PROVE  ModeInv'
<1>1. TypeOK /\ Only(t)
  BY BeginOnly DEF LockedInv, TypeInv
<1>2. CASE NewManager(t)
  <2>1. /\ kind'[t] = "migrate" /\ pc'[t] = "flock"
        /\ UNCHANGED <<mode, rec, booted>>
        /\ \A u \in Mates(t) : Idle(u)
    BY <1>1, <1>2
    DEF NewManager, Goto, TypeOK, LockedInv, TypeInv, RecordInv, ModeInv, Mates
  <2> QED
    BY <1>1, <1>2, <2>1 DEF NewManager, LockedInv, ModeInv, Only, Alone, Mates, Idle
<1>3. CASE AddBegin(t)
  BY <1>1, <1>3, CallOnly, ModeOnly, ModeLocal
  DEF AddBegin, LockedInv, TypeInv, RecordInv
<1>4. CASE StartBegin(t)
  BY <1>1, <1>4, CallOnly, ModeOnly, ModeLocal
  DEF StartBegin, LockedInv, TypeInv, RecordInv
<1>5. CASE StopBegin(t)
  BY <1>1, <1>5, CallOnly, ModeOnly, ModeLocal
  DEF StopBegin, LockedInv, TypeInv, RecordInv
<1>6. CASE DeleteBegin(t)
  BY <1>1, <1>6, CallOnly, ModeLocal
  DEF DeleteBegin, LockedInv, TypeInv, RecordInv, ModeInv, Idle
<1>7. CASE ReconcileBegin(t)
  BY <1>1, <1>7, CallOnly, ModeOnly, ModeLocal
  DEF ReconcileBegin, LockedInv, TypeInv, RecordInv
<1>8. CASE TerminalBegin(t)
  <2>1. PICK label \in {"attach", "autostart"} : Goto(t, label)
    BY <1>8 DEF TerminalBegin
  <2> QED
    BY <1>1, <1>8, <2>1, CallOnly, ModeLocal
    DEF TerminalBegin, LockedInv, TypeInv, RecordInv, ModeInv, Idle
<1> QED
  BY <1>2, <1>3, <1>4, <1>5, <1>6, <1>7, <1>8 DEF Begin

LEMMA ModeProceed ==
  ASSUME LockedInv, NEW t \in Threads, Proceed(t)
  PROVE  ModeInv'
<1>1. TypeOK /\ RecordInv /\ Only(t)
  BY ProceedOnly DEF LockedInv, TypeInv
<1>2. kind[t] \notin {"none", "migrate"} => booted[ProcOf[t]]
  BY DEF LockedInv, ModeInv
<1>3. CASE \/ AddCreate(t) \/ StartRuntime(t) \/ StopRuntime(t) \/ StopInfo(t)
           \/ DeleteRuntime(t)
  <2>1. /\ pc[t] \in {"create", "rtstart", "rtstop", "rtinfo", "rtremove"}
        /\ UNCHANGED <<kind, mode, booted>>
    BY <1>3 DEF AddCreate, StartRuntime, StopRuntime, StopInfo, DeleteRuntime
  <2>2. \/ pc[t] \in {"create", "rtstart", "rtstop", "rtinfo"} /\ pc'[t] \in {"flock", "rtinfo"}
        \/ pc[t] = "rtremove" /\ pc'[t] = "lock"
    BY <1>1, <1>3, GotoOnly
    DEF AddCreate, StartRuntime, StopRuntime, StopInfo, DeleteRuntime
  <2>3. kind[t] \notin {"none", "migrate"}
    BY <1>1, <2>1 DEF RecordInv
  <2> QED
    BY <1>1, <1>2, <2>1, <2>2, <2>3, ModeLocal DEF LockedInv, ModeInv, Alone
<1>4. CASE DeleteLock(t)
  <2>1. kind'[t] = "delete" /\ kind[t] = "delete" /\ pc'[t] = "flock" /\ mode'[t] = "write"
    BY <1>1, <1>4, GotoOnly, ModeOnly DEF DeleteLock, RecordInv
  <2> QED
    BY <1>1, <1>2, <1>4, <2>1, ModeLocal DEF DeleteLock
<1>5. CASE TerminalAutoStart(t)
  <2>1. CASE rec[t].id \in IdsOf(file)
    <3>1. /\ kind'[t] = "terminal" /\ kind[t] = "terminal"
          /\ pc'[t] = "rtstart" /\ mode'[t] = "write"
      BY <1>1, <1>5, <2>1, GotoOnly, ModeOnly DEF TerminalAutoStart, RecordInv
    <3> QED
      BY <1>1, <1>2, <1>5, <3>1, ModeLocal DEF TerminalAutoStart
  <2> QED
    BY <1>5, <2>1, ModeReturn DEF TerminalAutoStart
<1>6. CASE TerminalAttach(t)
  <2>1. CASE rec[t].id \in IdsOf(file)
    <3>1. kind'[t] = "terminal" /\ kind[t] = "terminal" /\ pc'[t] = "session"
      BY <1>1, <1>6, <2>1, GotoOnly DEF TerminalAttach, RecordInv
    <3> QED
      BY <1>1, <1>2, <1>6, <3>1, ModeLocal DEF TerminalAttach
  <2> QED
    BY <1>6, <2>1, ModeReturn DEF TerminalAttach
<1>7. CASE RuntimeFails(t)
  BY <1>7, ModeReturn DEF RuntimeFails
<1>8. CASE Acquire(t) \/ Reload(t)
  <2>1. /\ pc[t] \in {"flock", "reload"} /\ pc'[t] \in {"reload", "write"}
        /\ UNCHANGED <<kind, mode, booted, rec>>
    BY <1>1, <1>8, GotoOnly DEF Acquire, Reload
  <2> QED
    BY <1>1, <2>1 DEF LockedInv, ModeInv, Only, Alone, Mates, Idle
<1>9. CASE Save(t)
  <2>1. CASE SaveAutoStart(t)
    <3>1. /\ kind'[t] = "terminal" /\ kind[t] = "terminal"
          /\ pc'[t] = "attach" /\ mode'[t] = "free" /\ UNCHANGED booted
      BY <1>1, <2>1, GotoOnly, ModeOnly DEF SaveAutoStart
    <3> QED
      BY <1>1, <1>2, <3>1, ModeLocal
  <2>2. CASE ~SaveAutoStart(t)
    BY <1>9, <2>2, ModeReturn
    DEF Save, SaveAdd, SaveUpdate, SaveDelete, SaveReconcile, SaveMigrate, SaveFails
  <2> QED
    BY <2>1, <2>2
<1> QED
  BY <1>3, <1>4, <1>5, <1>6, <1>7, <1>8, <1>9 DEF Proceed

LEMMA ModeNext ==
  ASSUME LockedInv, [Next]_vars
  PROVE  ModeInv'
<1>1. CASE \E t \in Threads : Begin(t) \/ Proceed(t)
  BY <1>1, ModeBegin, ModeProceed
<1>2. CASE \E t \in Threads : TerminalEnd(t)
  BY <1>2, ModeReturn DEF TerminalEnd
<1>3. ASSUME NEW p \in Procs, Crash(p)
      PROVE  ModeInv'
  <2>1. \A u \in Threads :
           IF ProcOf[u] = p THEN Idle(u)'
           ELSE /\ kind'[u] = kind[u] /\ pc'[u] = pc[u] /\ rec'[u] = rec[u]
                /\ mode'[u] = mode[u] /\ booted'[ProcOf[u]] = booted[ProcOf[u]]
    BY <1>3, ProcOfType DEF Crash, Idle, LockedInv, TypeInv, TypeOK
  <2> QED
    BY <2>1 DEF LockedInv, ModeInv, Alone, Mates, Idle
<1>4. CASE External \/ Finished \/ UNCHANGED vars
  BY <1>4 DEF External, Finished, vars, LockedInv, ModeInv, Alone, Mates, Idle
<1> QED
  BY <1>1, <1>2, <1>3, <1>4 DEF Next

LEMMA LockedNext ==
  ASSUME LockedInv, [Next]_vars
  PROVE  LockedInv'
  BY TypeNext, LockNext, MutexNext, ModeNext DEF LockedInv

LEMMA LockedInit == Init => LockedInv
<1>1. Init => LockInv /\ ModeInv
  BY DEF Init, LockInv, InLock, ModeInv, Idle, Alone
<1> QED
  BY <1>1, TypeInit DEF Init, LockedInv, MutexExcludes, Mates

LEMMA LockedCorrect == Spec => []LockedInv
  BY LockedInit, LockedNext, PTL DEF Spec

LEMMA BaseCorrect == ASSUME FreshIds PROVE Spec => []BaseInv
  BY LockedCorrect, InvCorrect, PTL DEF BaseInv

\* In a single process a thread that is alone is the only one.
LEMMA AloneIsOne ==
  ASSUME OneProcess, LockedInv, NEW t \in Threads, NEW u \in Threads, Alone(t), Alone(u)
  PROVE  t = u
<1>1. u \in Mates(t) /\ t \in Mates(u)
  BY DEF OneProcess, Mates
<1> QED
  BY <1>1 DEF LockedInv, ModeInv, MutexExcludes, Alone, Idle

-----------------------------------------------------------------------------
(* What a step does to the file, to the instances and to the records.      *)

\* Two records of one workspace.
Same(r, s) == r.id = s.id /\ r.name = s.name /\ r.rt = s.rt /\ r.rid = s.rid

\* t executes a method on a record.
Working(t) == kind[t] \in {"add", "start", "stop", "delete", "terminal"}

\* The steps that return from a method without a save, or begin nothing.
LEMMA SaveEffect ==
  ASSUME LockedInv, NEW t \in Threads, Save(t)
  PROVE  /\ Only(t) /\ Alone(t) /\ UNCHANGED <<pods, issued>>
         /\ pc[t] \in {"reload", "write"}
         /\ \/ Idle(t)'
            \/ /\ kind[t] = "terminal" /\ kind'[t] = "terminal" /\ pc'[t] = "attach"
               /\ mode'[t] = "free" /\ rec'[t] = rec[t]
               /\ file' = Replaced(file, rec[t])
         /\ \/ "save" \in Faults /\ file' = file
            \/ kind[t] = "add" /\ file' = file \cup {rec[t]}
            \/ Updating(t) /\ file' = Replaced(file, rec[t])
            \/ kind[t] = "delete" /\ file' = {s \in file : s.id # rec[t].id}
            \/ UseReconcile /\ kind[t] = "reconcile" /\ file' \subseteq file
            \/ kind[t] = "migrate" /\ file' = {[s EXCEPT !.created = TRUE] : s \in file}
<1>1. /\ TypeOK /\ Only(t)
      /\ pc[t] = "write" => cur[t] = file
      /\ pc[t] \in {"reload", "write"} => Alone(t)
  BY SaveOnly DEF LockedInv, TypeInv, LockInv, ModeInv
<1>2. CASE SaveAdd(t)
  BY <1>1, <1>2, ReturnIsIdle DEF SaveAdd, Store
<1>3. CASE SaveUpdate(t)
  BY <1>1, <1>3, ReturnIsIdle DEF SaveUpdate, Store, Updating
<1>4. CASE SaveAutoStart(t)
  BY <1>1, <1>4, GotoOnly, ModeOnly DEF SaveAutoStart, Store, Updating
<1>5. CASE SaveDelete(t)
  BY <1>1, <1>5, ReturnIsIdle DEF SaveDelete, Store
<1>6. CASE SaveReconcile(t)
  BY <1>1, <1>6, ReturnIsIdle DEF SaveReconcile, Store, LockedInv, ModeInv
<1>7. CASE SaveMigrate(t)
  BY <1>1, <1>7, ReturnIsIdle DEF SaveMigrate, Store
<1>8. CASE SaveFails(t)
  BY <1>1, <1>8, ReturnIsIdle DEF SaveFails
<1> QED
  BY <1>2, <1>3, <1>4, <1>5, <1>6, <1>7, <1>8 DEF Save

\* Only a save changes the file.
LEMMA FileEffect ==
  ASSUME LockedInv, [Next]_vars
  PROVE  file' = file \/ \E t \in Threads : Save(t)
  BY OnlySaves DEF LockedInv

\* What is stored, an Add aside, was stored before.
LEMMA StoredBefore ==
  ASSUME BaseInv, [Next]_vars
  PROVE  \/ \E t \in Threads : Save(t) /\ kind[t] = "add" /\ file' = file \cup {rec[t]}
         \/ \A r \in file' : \E s \in file : Same(r, s)
<1>1. CASE file' = file
  BY <1>1 DEF Same
<1>2. ASSUME NEW t \in Threads, Save(t)
      PROVE  \/ kind[t] = "add" /\ file' = file \cup {rec[t]}
             \/ \A r \in file' : \E s \in file : Same(r, s)
  <2>1. CASE Updating(t) /\ file' = Replaced(file, rec[t])
    BY <2>1, ReplacedIdentity DEF BaseInv, SameIdentity, Same
  <2>2. CASE file' = {[s EXCEPT !.created = TRUE] : s \in file}
    <3>1. \A s \in file : Same([s EXCEPT !.created = TRUE], s)
      BY BackfilledRecord DEF Same, BaseInv, Inv, TypeInv, TypeOK
    <3> QED
      BY <2>2, <3>1
  <2>3. CASE file' \subseteq file
    BY <2>3 DEF Same
  <2> QED
    BY <1>2, <2>1, <2>2, <2>3, SaveEffect DEF BaseInv
<1> QED
  BY <1>1, <1>2, FileEffect DEF BaseInv

\* What was stored, a Delete and a Reconcile aside, stays.
LEMMA StoredAfter ==
  ASSUME BaseInv, [Next]_vars
  PROVE  \/ \E t \in Threads :
              /\ Save(t)
              /\ \/ kind[t] = "delete" /\ file' = {s \in file : s.id # rec[t].id}
                 \/ UseReconcile /\ kind[t] = "reconcile" /\ file' \subseteq file
         \/ \A s \in file : \E r \in file' : Same(r, s)
<1>1. CASE file' = file
  BY <1>1 DEF Same
<1>2. ASSUME NEW t \in Threads, Save(t)
      PROVE  \/ kind[t] = "delete" /\ file' = {s \in file : s.id # rec[t].id}
             \/ UseReconcile /\ kind[t] = "reconcile" /\ file' \subseteq file
             \/ \A s \in file : \E r \in file' : Same(r, s)
  <2>1. CASE Updating(t) /\ file' = Replaced(file, rec[t])
    <3>1. \A s \in file : s.id = rec[t].id => Same(rec[t], s)
      BY <2>1 DEF BaseInv, Inv, IdInv, MatchesFile, SameIdentity, Same
    <3> QED
      BY <2>1, <3>1 DEF Replaced, Same
  <2>2. CASE file' = {[s EXCEPT !.created = TRUE] : s \in file}
    <3>1. \A s \in file : Same([s EXCEPT !.created = TRUE], s)
      BY BackfilledRecord DEF Same, BaseInv, Inv, TypeInv, TypeOK
    <3> QED
      BY <2>2, <3>1
  <2>3. CASE file \subseteq file'
    BY <2>3 DEF Same
  <2> QED
    BY <1>2, <2>1, <2>2, <2>3, SaveEffect DEF BaseInv
<1> QED
  BY <1>1, <1>2, FileEffect DEF BaseInv

SamePod(p, q) == p.rt = q.rt /\ p.rid = q.rid /\ p.name = q.name

LEMMA PodStateEffect ==
  ASSUME pods \subseteq Pod, NEW r, NEW s, SetPodState(r, s)
  PROVE  /\ \A q \in pods' : \E p \in pods :
              SamePod(p, q) /\ q.state = IF p \in PodsOf(r) THEN s ELSE p.state
         /\ \A p \in pods : \E q \in pods' : SamePod(p, q)
<1> DEFINE after(p) == IF p \in PodsOf(r) THEN [p EXCEPT !.state = s] ELSE p
<1>1. pods' = {after(p) : p \in pods}
  BY DEF SetPodState
<1>2. \A p \in pods : /\ SamePod(p, after(p))
                      /\ after(p).state = IF p \in PodsOf(r) THEN s ELSE p.state
  BY DEF Pod, SamePod
<1> HIDE DEF after
<1> QED
  BY <1>1, <1>2

\* The instance of an Add whose Create succeeds, or fails late.
Makes(t, q) ==
    /\ Adding(t) /\ pc[t] = "create" /\ SamePod(PodOf(rec[t]), q)
    /\ AddCreate(t) \/ (RuntimeFails(t) /\ "leftover" \in Faults)

\* No runtime call but Create makes an instance.
LEMMA PodsBefore ==
  ASSUME BaseInv, [Next]_vars, NEW q \in pods'
  PROVE  (\E p \in pods : SamePod(p, q)) \/ \E t \in Threads : Makes(t, q)
<1> DEFINE Goal == (\E p \in pods : SamePod(p, q)) \/ \E t \in Threads : Makes(t, q)
<1>0. pods \subseteq Pod /\ RecordInv
  BY DEF BaseInv, Inv, TypeInv, TypeOK
<1>1. pods' \subseteq pods => Goal
  BY DEF SamePod
<1>2. ASSUME NEW t \in Threads, NEW s, SetPodState(rec[t], s) PROVE Goal
  BY <1>0, <1>2, PodStateEffect
<1>3. ASSUME NEW t \in Threads, AddCreate(t) PROVE Goal
  BY <1>0, <1>3 DEF AddCreate, Makes, SamePod, RecordInv, Adding
<1>4. ASSUME NEW t \in Threads, RuntimeFails(t) PROVE Goal
  <2>1. CASE "leftover" \in Faults /\ LeavesBehind(t)
    <3>1. PICK s \in States : pods' = pods \cup {[PodOf(rec[t]) EXCEPT !.state = s]}
      BY <2>1 DEF LeavesBehind
    <3>2. SamePod(PodOf(rec[t]), [PodOf(rec[t]) EXCEPT !.state = s])
      BY DEF PodOf, SamePod
    <3> QED
      BY <1>0, <1>1, <1>4, <2>1, <3>1, <3>2
      DEF Makes, LeavesBehind, RecordInv, Adding, SamePod
  <2>2. CASE UNCHANGED pods
    BY <1>1, <2>2
  <2>3. CASE FailsLate(t)
    BY <1>1, <1>2, <2>3 DEF FailsLate
  <2> QED
    BY <1>4, <2>1, <2>2, <2>3 DEF RuntimeFails
<1>5. CASE External
  <2>1. \A p \in pods, s \in States : SamePod(p, [p EXCEPT !.state = s])
    BY <1>0 DEF Pod, SamePod
  <2> QED
    BY <1>5, <2>1 DEF External, SamePod
<1>6. ASSUME NEW t \in Threads, Begin(t) PROVE UNCHANGED pods
  BY <1>6 DEF Begin, NewManager, AddBegin, StartBegin, StopBegin, DeleteBegin,
              ReconcileBegin, TerminalBegin, Call
<1>7. ASSUME NEW t \in Threads, Proceed(t), ~AddCreate(t), ~RuntimeFails(t)
      PROVE  pods' \subseteq pods \/ \E s : SetPodState(rec[t], s)
  <2>1. CASE Save(t)
    BY <2>1, SaveEffect DEF BaseInv
  <2>2. CASE StartRuntime(t) \/ StopRuntime(t)
    BY <2>2 DEF StartRuntime, StopRuntime
  <2>3. CASE DeleteRuntime(t)
    BY <2>3 DEF DeleteRuntime
  <2> QED
    BY <1>7, <2>1, <2>2, <2>3
    DEF Proceed, StopInfo, DeleteLock, TerminalAutoStart, TerminalAttach, Acquire, Reload
<1>8. ASSUME NEW t \in Threads, TerminalEnd(t) PROVE UNCHANGED pods
  BY <1>8 DEF TerminalEnd
<1>9. (\E p \in Procs : Crash(p)) \/ Finished \/ UNCHANGED vars => UNCHANGED pods
  BY DEF Crash, Finished, vars
<1> QED
  BY <1>1, <1>2, <1>3, <1>4, <1>5, <1>6, <1>7, <1>8, <1>9 DEF Next

\* The record of a method is new, that of a step before, or found in the file.
LEMMA RecordBefore ==
  ASSUME BaseInv, [Next]_vars, NEW u \in Threads, Working(u)'
  PROVE  \/ AddBegin(u)
         \/ kind'[u] = kind[u] /\ rec'[u] = rec[u] /\ (pc'[u] = "create" => pc[u] = "create")
         \/ kind'[u] = kind[u] /\ Updating(u) /\ Same(rec'[u], rec[u])
         \/ kind[u] = "none" /\ kind'[u] # "add" /\ rec'[u] \in file
<1> DEFINE Goal == \/ AddBegin(u)
                   \/ /\ kind'[u] = kind[u] /\ rec'[u] = rec[u]
                      /\ pc'[u] = "create" => pc[u] = "create"
                   \/ kind'[u] = kind[u] /\ Updating(u) /\ Same(rec'[u], rec[u])
                   \/ kind[u] = "none" /\ kind'[u] # "add" /\ rec'[u] \in file
<1>0. TypeOK /\ RecordInv /\ ~Idle(u)' /\ kind'[u] # "none"
  BY DEF BaseInv, Inv, TypeInv, Idle, Working
<1>1. ASSUME NEW t \in Threads, t # u, Begin(t) \/ Proceed(t) \/ TerminalEnd(t) PROVE Goal
  BY <1>0, <1>1, BeginOnly, ProceedOnly, ReturnIsIdle DEF TerminalEnd, Only
<1>2. CASE Begin(u)
  <2>1. CASE NewManager(u)
    BY <1>0, <2>1 DEF NewManager, Working, TypeOK
  <2>2. CASE ReconcileBegin(u)
    BY <1>0, <2>2 DEF ReconcileBegin, Call, Working, TypeOK
  <2>3. CASE StartBegin(u) \/ StopBegin(u) \/ DeleteBegin(u) \/ TerminalBegin(u)
    <3>1. PICK k \in {"start", "stop", "delete", "terminal"} : Call(u, k)
      BY <2>3 DEF StartBegin, StopBegin, DeleteBegin, TerminalBegin
    <3>2. \E id \in issued : Found(u, id, file)
      BY <2>3 DEF StartBegin, StopBegin, DeleteBegin, TerminalBegin
    <3>3. kind[u] = "none" /\ kind'[u] = k
      BY <1>0, <3>1 DEF Call, RecordInv, TypeOK
    <3> QED
      BY <1>0, <3>2, <3>3, FoundOnly
  <2> QED
    BY <1>2, <2>1, <2>2, <2>3 DEF Begin
<1>3. CASE Proceed(u)
  <2>1. CASE AddCreate(u) \/ StopRuntime(u) \/ DeleteRuntime(u) \/ DeleteLock(u)
             \/ Acquire(u) \/ Reload(u)
    <3>1. PICK label \in {"flock", "rtinfo", "lock", "reload", "write"} : Goto(u, label)
      BY <2>1 DEF AddCreate, StopRuntime, DeleteRuntime, DeleteLock, Acquire, Reload
    <3> QED
      BY <1>0, <2>1, <3>1, GotoOnly
      DEF AddCreate, StopRuntime, DeleteRuntime, DeleteLock, Acquire, Reload
  <2>2. CASE StartRuntime(u) \/ StopInfo(u)
    <3>1. Updating(u) /\ rec[u] \in Instance /\ kind'[u] = kind[u]
      BY <1>0, <2>2 DEF StartRuntime, StopInfo, Updating, RecordInv
    <3>2. PICK s, b : rec' = [rec EXCEPT ![u].state = s, ![u].started = b]
      BY <2>2 DEF StartRuntime, StopInfo
    <3>3. Same(rec'[u], rec[u])
      BY <1>0, <3>1, <3>2 DEF Same, TypeOK, Instance
    <3> QED
      BY <3>1, <3>3
  <2>3. CASE TerminalAutoStart(u) \/ TerminalAttach(u)
    <3>1. Found(u, rec[u].id, file) /\ kind'[u] = kind[u] /\ Updating(u)
      BY <1>0, <2>3, ReturnIsIdle
      DEF TerminalAutoStart, TerminalAttach, RecordInv, Updating
    <3>2. Same(rec'[u], rec[u])
      BY <1>0, <3>1, FoundOnly DEF BaseInv, Inv, IdInv, MatchesFile, SameIdentity, Same
    <3> QED
      BY <3>1, <3>2
  <2>4. CASE RuntimeFails(u)
    BY <1>0, <2>4, ReturnIsIdle DEF RuntimeFails
  <2>5. CASE Save(u)
    BY <1>0, <2>5, SaveEffect DEF BaseInv
  <2> QED
    BY <1>3, <2>1, <2>2, <2>3, <2>4, <2>5 DEF Proceed
<1>4. CASE TerminalEnd(u)
  BY <1>0, <1>4, ReturnIsIdle DEF TerminalEnd
<1>5. ASSUME NEW p \in Procs, Crash(p) PROVE Goal
  BY <1>0, <1>5 DEF Crash
<1>6. CASE External \/ Finished \/ UNCHANGED vars
  BY <1>6 DEF External, Finished, vars
<1> QED
  BY <1>1, <1>2, <1>3, <1>4, <1>5, <1>6 DEF Next

LEMMA IssuedGrows ==
  ASSUME [Next]_vars
  PROVE  issued \subseteq issued'
<1>1. ASSUME NEW t \in Threads, Begin(t) PROVE issued \subseteq issued'
  BY <1>1 DEF Begin, NewManager, AddBegin, StartBegin, StopBegin, DeleteBegin,
              ReconcileBegin, TerminalBegin
<1>2. ASSUME NEW t \in Threads, Proceed(t) PROVE issued \subseteq issued'
  <2>1. CASE Save(t)
    BY <2>1 DEF Save, SaveAdd, SaveUpdate, SaveAutoStart, SaveDelete, SaveReconcile,
                SaveMigrate, SaveFails, Store
  <2> QED
    BY <1>2, <2>1
    DEF Proceed, AddCreate, StartRuntime, StopRuntime, StopInfo, DeleteRuntime,
        DeleteLock, TerminalAutoStart, TerminalAttach, RuntimeFails, Acquire, Reload
<1> QED
  BY <1>1, <1>2 DEF Next, TerminalEnd, Crash, External, Finished, vars

\* What the record of an Add is made of.
LEMMA AddBeginEffect ==
  ASSUME LockedInv, NEW t \in Threads, AddBegin(t)
  PROVE  /\ UNCHANGED <<file, pods>> /\ Only(t) /\ kind'[t] = "add"
         /\ \E id \in Ids, base \in Bases, name \in Names, rt \in Runtimes :
               /\ id \notin IdsOf(file)
               /\ id \in issued => ~FreshIds
               /\ IsUniqueName(name, base, file)
               /\ issued' = issued \cup {id}
               /\ rec'[t] = NewRecord(id, name, rt)
<1>1. TypeOK /\ Only(t)
  BY BeginOnly DEF Begin, LockedInv, TypeInv
<1> QED
  BY <1>1 DEF AddBegin, Call, TypeOK, FreshIds

-----------------------------------------------------------------------------
(* Ids.  In a single process the comparison of a new id with the stored    *)
(* ones is enough, even where the generator returns ids again: the mutex   *)
(* is held from there to the save.                                         *)

ChosenInv ==
    /\ UniqueIds
    /\ \A t \in Threads : Adding(t) => rec[t].id \notin IdsOf(file)

\* When one thread saves, no other thread of its process executes an Add.
LEMMA OneSaves ==
  ASSUME OneProcess, LockedInv, NEW t \in Threads, Save(t), NEW u \in Threads, u # t
  PROVE  ~Alone(u) /\ ~Adding(u)
  BY SaveEffect, AloneIsOne DEF LockedInv, ModeInv, Alone, Adding

LEMMA AddingBefore ==
  ASSUME LockedInv, [Next]_vars, NEW u \in Threads, Adding(u)'
  PROVE  AddBegin(u) \/ (Adding(u) /\ rec'[u] = rec[u])
<1> DEFINE Goal == AddBegin(u) \/ (Adding(u) /\ rec'[u] = rec[u])
<1>0. TypeOK /\ RecordInv /\ ~Idle(u)'
  BY DEF LockedInv, TypeInv, Idle, Adding
<1>1. ASSUME NEW t \in Threads, t # u, Begin(t) \/ Proceed(t) \/ TerminalEnd(t) PROVE Goal
  BY <1>0, <1>1, BeginOnly, ProceedOnly, ReturnIsIdle DEF TerminalEnd, Only, Adding
<1>2. ASSUME Begin(u) PROVE Goal
  BY <1>0, <1>2
  DEF Begin, NewManager, StartBegin, StopBegin, DeleteBegin, ReconcileBegin,
      TerminalBegin, Call, TypeOK, Adding
<1>3. ASSUME Proceed(u) PROVE Goal
  <2>1. CASE Save(u)
    BY <1>0, <2>1, SaveEffect DEF Adding
  <2>2. CASE TerminalAutoStart(u) \/ TerminalAttach(u) \/ RuntimeFails(u)
    BY <1>0, <2>2, ReturnIsIdle
    DEF TerminalAutoStart, TerminalAttach, RuntimeFails, RecordInv, Adding
  <2> QED
    BY <1>0, <1>3, <2>1, <2>2
    DEF Proceed, AddCreate, StartRuntime, StopRuntime, StopInfo, DeleteRuntime,
        DeleteLock, Acquire, Reload, RecordInv, Adding
<1>4. TerminalEnd(u) => Goal
  BY <1>0, ReturnIsIdle DEF TerminalEnd
<1>5. (\E p \in Procs : Crash(p)) => Goal
  BY <1>0 DEF Crash, Adding
<1>6. External \/ Finished \/ UNCHANGED vars => Goal
  BY DEF External, Finished, vars, Adding
<1> QED
  BY <1>1, <1>2, <1>3, <1>4, <1>5, <1>6 DEF Next

LEMMA ChosenNext ==
  ASSUME OneProcess, LockedInv, ChosenInv, [Next]_vars
  PROVE  ChosenInv'
<1>1. ASSUME NEW t \in Threads, Save(t) PROVE UniqueIds'
  <2>1. CASE kind[t] = "add" /\ file' = file \cup {rec[t]}
    BY <2>1 DEF ChosenInv, UniqueIds, Adding, IdsOf
  <2>2. CASE file' = Replaced(file, rec[t])
    BY <2>2 DEF ChosenInv, UniqueIds, Replaced
  <2>3. CASE file' = {[s EXCEPT !.created = TRUE] : s \in file}
    <3> DEFINE after(s) == [s EXCEPT !.created = TRUE]
    <3>1. \A s \in file : after(s).id = s.id
      BY BackfilledRecord DEF LockedInv, TypeInv, TypeOK
    <3>2. file' = {after(s) : s \in file}
      BY <2>3
    <3> HIDE DEF after
    <3> QED
      BY <3>1, <3>2 DEF ChosenInv, UniqueIds
  <2>4. CASE file' \subseteq file
    BY <2>4 DEF ChosenInv, UniqueIds
  <2> QED
    BY <1>1, <2>1, <2>2, <2>3, <2>4, SaveEffect
<1>2. UniqueIds'
  BY <1>1, FileEffect DEF ChosenInv, UniqueIds
<1>3. ASSUME NEW u \in Threads, Adding(u)' PROVE rec'[u].id \notin IdsOf(file)'
  <2>1. CASE AddBegin(u)
    <3>1. PICK id \in Ids, name \in Names, rt \in Runtimes :
             id \notin IdsOf(file) /\ rec'[u] = NewRecord(id, name, rt)
      BY <2>1, AddBeginEffect
    <3>2. file' = file /\ rec'[u].id = id
      BY <2>1, <3>1, AddBeginEffect DEF NewRecord
    <3> QED
      BY <3>1, <3>2 DEF IdsOf
  <2>2. CASE ~AddBegin(u)
    <3>1. Adding(u) /\ rec'[u] = rec[u]
      BY <1>3, <2>2, AddingBefore
    <3>2. ASSUME NEW t \in Threads, Save(t) PROVE FALSE
      BY <1>3, <3>1, <3>2, OneSaves, SaveEffect DEF Adding, Idle
    <3> QED
      BY <3>1, <3>2, FileEffect DEF ChosenInv, IdsOf
  <2> QED
    BY <2>1, <2>2
<1> QED
  BY <1>2, <1>3 DEF ChosenInv

\* An id identifies one stored workspace: in a single process whatever the
\* generator returns, and in any number of processes if it never returns an id
\* again (manager.go:257-272).
THEOREM IdsUnique ==
  ASSUME OneProcess \/ FreshIds
  PROVE  Spec => []UniqueIds
<1>1. CASE OneProcess
  <2>1. Init => ChosenInv
    BY LegacyAssumption DEF Init, ChosenInv, UniqueIds, Adding
  <2>2. LockedInv /\ ChosenInv /\ [Next]_vars => ChosenInv'
    BY <1>1, ChosenNext
  <2>3. ChosenInv => UniqueIds
    BY DEF ChosenInv
  <2> QED
    BY <2>1, <2>2, <2>3, LockedCorrect, PTL DEF Spec
<1>2. CASE FreshIds
  <2>1. Inv => UniqueIds
    BY DEF Inv, IdInv
  <2> QED
    BY <1>2, <2>1, InvCorrect, PTL
<1> QED
  BY <1>1, <1>2

-----------------------------------------------------------------------------
(* Names.  While an Add is under way its process is alone with the file,   *)
(* so that the name it chose from its first load is still free.            *)

NameInv ==
    /\ NamesUnique
    /\ \A t \in Threads : Adding(t) => \A r \in file : r.name # rec[t].name

LEMMA NameNext ==
  ASSUME OneProcess, FreshIds, BaseInv, NameInv, [Next]_vars
  PROVE  NameInv'
<1>0. UniqueIds /\ UniqueIds'
  BY TypeNext, LockNext, IdNext DEF BaseInv, Inv, IdInv
<1>1. NamesUnique'
  <2>1. CASE \A r \in file' : \E s \in file : Same(r, s)
    BY <1>0, <2>1 DEF NameInv, NamesUnique, UniqueIds, Same
  <2>2. ASSUME NEW t \in Threads, kind[t] = "add", file' = file \cup {rec[t]}
        PROVE  NamesUnique'
    BY <2>2 DEF NameInv, NamesUnique, Adding
  <2> QED
    BY <2>1, <2>2, StoredBefore
<1>2. ASSUME NEW u \in Threads, Adding(u)', NEW r \in file'
      PROVE  r.name # rec'[u].name
  <2>1. CASE file' # file
    <3>1. PICK t \in Threads : Save(t)
      BY <2>1, FileEffect DEF BaseInv
    <3>2. u = t
      BY <1>2, <3>1, SaveEffect, OneSaves DEF BaseInv, Only, Adding
    <3> QED
      BY <1>2, <3>1, <3>2, SaveEffect DEF BaseInv, Idle, Adding
  <2>2. CASE AddBegin(u)
    <3>1. PICK id, base, name, rt :
             IsUniqueName(name, base, file) /\ rec'[u] = NewRecord(id, name, rt)
      BY <2>2, AddBeginEffect DEF BaseInv
    <3> QED
      BY <1>2, <2>2, <3>1, AddBeginEffect DEF BaseInv, NewRecord, IsUniqueName
  <2>3. CASE file' = file /\ ~AddBegin(u)
    <3>1. kind[u] = "add" /\ rec'[u] = rec[u]
      BY <1>2, <2>3, RecordBefore DEF Adding, Updating, Working
    <3> QED
      BY <1>2, <2>3, <3>1 DEF NameInv, Adding
  <2> QED
    BY <2>1, <2>2, <2>3
<1> QED
  BY <1>1, <1>2 DEF NameInv

UniqueLegacy == \A r, s \in Legacy : r.name = s.name => r = s

LEMMA NamesKept ==
  ASSUME OneProcess, UniqueLegacy, FreshIds
  PROVE  Spec => []NameInv
<1>1. Init => NameInv
  BY DEF Init, NameInv, NamesUnique, UniqueLegacy, Adding
<1>2. BaseInv /\ NameInv /\ [Next]_vars => NameInv'
  BY NameNext
<1> QED
  BY <1>1, <1>2, BaseCorrect, PTL DEF Spec

\* In a single process names identify workspaces, if they did when the history
\* begins, whatever fails or dies and whoever touches the runtime, as long as
\* the generator never returns an id again (manager.go:926-960, README.md:3151).
THEOREM NamesAreUnique ==
  ASSUME OneProcess, UniqueLegacy, FreshIds
  PROVE  Spec => []NamesUnique
<1>1. NameInv => NamesUnique
  BY DEF NameInv
<1> QED
  BY <1>1, NamesKept, PTL

-----------------------------------------------------------------------------
(* Workspaces and runtime instances.  An id is that of one record, and of  *)
(* one instance where the runtime makes its own ids.                       *)

Paired(r) == r.rid = RidFor(r.rt, r.name, r.id)

PairInv ==
    /\ \A r \in file : Paired(r)
    /\ \A t \in Threads : Working(t) => Paired(rec[t])
    /\ \A q \in pods : IF q.rt \in NameKeyed THEN q.rid = q.name ELSE q.rid \in issued
    /\ \A t \in Threads : Adding(t) /\ pc[t] = "create" =>
          \A q \in pods : q.rt \notin NameKeyed => q.rid # rec[t].id

LEMMA SamePaired == ASSUME NEW r, NEW s, Same(r, s), Paired(s) PROVE Paired(r)
  BY DEF Same, Paired

LEMMA AddCreateEffect ==
  ASSUME BaseInv, NEW t \in Threads, AddCreate(t)
  PROVE  /\ Adding(t) /\ Only(t) /\ kind' = kind /\ rec' = rec /\ mode' = mode
         /\ pc[t] = "create" /\ pc'[t] = "flock"
         /\ UNCHANGED <<file, issued>>
         /\ pods' = pods \cup {PodOf(rec[t])}
         /\ \A q \in pods : ~(q.rt = rec[t].rt /\ q.name = rec[t].name)
  BY ProceedOnly, GotoOnly
  DEF AddCreate, NameIsFree, Proceed, BaseInv, Inv, TypeInv, RecordInv, Adding

\* Its thread goes on to the save, or returns.
LEMMA MakesEffect ==
  ASSUME BaseInv, NEW t \in Threads, NEW q, Makes(t, q)
  PROVE  /\ Only(t) /\ UNCHANGED <<file, issued>>
         /\ Adding(t)' => AddCreate(t)
<1>1. TypeOK
  BY DEF BaseInv, Inv, TypeInv
<1> QED
  BY <1>1, AddCreateEffect, ReturnIsIdle DEF Makes, RuntimeFails, Adding, Idle

LEMMA PairNext ==
  ASSUME FreshIds, BaseInv, PairInv, [Next]_vars
  PROVE  PairInv'
<1>1. \A r \in file' : Paired(r)
  BY StoredBefore, SamePaired DEF PairInv, Working
<1>2. ASSUME NEW u \in Threads, Working(u)' PROVE Paired(rec'[u])
  <2>1. CASE AddBegin(u)
    <3>1. PICK id, name, rt : rec'[u] = NewRecord(id, name, rt)
      BY <2>1, AddBeginEffect DEF BaseInv
    <3> QED
      BY <3>1 DEF NewRecord, Paired
  <2> QED
    BY <1>2, <2>1, RecordBefore, SamePaired DEF PairInv, Working, Updating
<1>3. ASSUME NEW q \in pods'
      PROVE  IF q.rt \in NameKeyed THEN q.rid = q.name ELSE q.rid \in issued'
  <2>1. CASE \E p \in pods : SamePod(p, q)
    BY <2>1, IssuedGrows DEF PairInv, SamePod
  <2>2. ASSUME NEW t \in Threads, Makes(t, q)
        PROVE  IF q.rt \in NameKeyed THEN q.rid = q.name ELSE q.rid \in issued'
    <3>1. Paired(rec[t]) /\ rec[t].id \in issued
      BY <2>2 DEF Makes, PairInv, Working, Adding, BaseInv, Inv, IdInv
    <3> QED
      BY <2>2, <3>1, IssuedGrows DEF Makes, SamePod, PodOf, Paired, RidFor
  <2> QED
    BY <2>1, <2>2, PodsBefore
<1>4. ASSUME NEW u \in Threads, Adding(u)', pc'[u] = "create",
             NEW q \in pods', q.rt \notin NameKeyed
      PROVE  q.rid # rec'[u].id
  <2>1. CASE AddBegin(u)
    <3>1. PICK id \in Ids \ issued, name \in Names, rt \in Runtimes :
             rec'[u] = NewRecord(id, name, rt)
      BY <2>1, AddBeginEffect DEF BaseInv
    <3>2. q \in pods /\ rec'[u].id \notin issued
      BY <1>4, <2>1, <3>1, AddBeginEffect DEF BaseInv, NewRecord
    <3> QED
      BY <1>4, <3>2 DEF PairInv
  <2>2. CASE ~AddBegin(u)
    <3>1. Adding(u) /\ pc[u] = "create" /\ rec'[u] = rec[u]
      BY <1>4, <2>2, RecordBefore DEF Adding, Updating, Working
    <3>2. CASE \E p \in pods : SamePod(p, q)
      BY <1>4, <3>1, <3>2 DEF PairInv, SamePod
    <3>3. ASSUME NEW t \in Threads, Makes(t, q)
          PROVE  q.rid # rec'[u].id
      <4>1. t # u
        BY <1>4, <3>3, MakesEffect, AddCreateEffect
      <4>2. Adding(t) /\ Paired(rec[t]) /\ q.rt = rec[t].rt /\ q.rid = rec[t].rid
        BY <3>3 DEF Makes, PairInv, Working, Adding, SamePod, PodOf
      <4> QED
        BY <1>4, <3>1, <4>1, <4>2 DEF BaseInv, Inv, IdInv, Paired, RidFor
    <3> QED
      BY <3>2, <3>3, PodsBefore
  <2> QED
    BY <2>1, <2>2
<1> QED
  BY <1>1, <1>2, <1>3, <1>4 DEF PairInv

PairedLegacy == \A r \in Legacy : Paired(r)

LEMMA PairInit == ASSUME PairedLegacy PROVE Init => PairInv
<1> SUFFICES ASSUME Init PROVE PairInv
  OBVIOUS
<1>1. \A q \in pods : \E r \in Legacy : q = PodOf(r)
  BY DEF Init
<1>2. ASSUME NEW q \in pods
      PROVE  IF q.rt \in NameKeyed THEN q.rid = q.name ELSE q.rid \in issued
  <2>1. PICK r \in Legacy : q = PodOf(r)
    BY <1>1
  <2> QED
    BY <2>1 DEF PairedLegacy, Paired, PodOf, RidFor, Init, IdsOf
<1> QED
  BY <1>2 DEF Init, PairInv, PairedLegacy, Working, Adding

-----------------------------------------------------------------------------
(* Deleting.                                                               *)

Going == {"lock", "flock", "reload", "write"}

Removing(t) == kind[t] = "delete" /\ pc[t] \in Going

Created(t) == kind[t] = "add" /\ pc[t] \in Going

LEMMA GoingLabels ==
  ASSUME BaseInv, NEW t \in Threads
  PROVE  /\ Adding(t) /\ pc[t] # "create" => Created(t)
         /\ kind[t] = "delete" /\ pc[t] # "rtremove" => Removing(t)
  BY DEF BaseInv, Inv, TypeInv, TypeOK, RecordInv, Labels, Kinds, Going, Adding,
         Removing, Created

LEMMA DeleteRuntimeEffect ==
  ASSUME BaseInv, NEW t \in Threads, DeleteRuntime(t)
  PROVE  /\ kind[t] = "delete" /\ pc[t] = "rtremove" /\ pc'[t] = "lock"
         /\ Only(t) /\ kind' = kind /\ rec' = rec /\ mode' = mode
         /\ UNCHANGED <<file, issued>>
         /\ pods' = pods \ PodsOf(rec[t])
  BY ProceedOnly, GotoOnly
  DEF DeleteRuntime, Proceed, BaseInv, Inv, TypeInv, RecordInv

\* A thread past its runtime call goes on to its save.
LEMMA GoesOn ==
  ASSUME BaseInv, [Next]_vars, NEW t \in Threads, pc[t] \in Going
  PROVE  \/ kind'[t] = kind[t] /\ rec'[t] = rec[t] /\ pc'[t] \in Going
         \/ Save(t)
         \/ "crash" \in Faults
<1> DEFINE Goal == \/ kind'[t] = kind[t] /\ rec'[t] = rec[t] /\ pc'[t] \in Going
                   \/ Save(t)
                   \/ "crash" \in Faults
<1>0. TypeOK
  BY DEF BaseInv, Inv, TypeInv
<1>1. ASSUME NEW u \in Threads, u # t, Begin(u) \/ Proceed(u) \/ TerminalEnd(u) PROVE Goal
  BY <1>0, <1>1, BeginOnly, ProceedOnly, ReturnIsIdle DEF TerminalEnd, Only
<1>2. ~Begin(t) /\ ~TerminalEnd(t)
  BY DEF Begin, NewManager, AddBegin, StartBegin, StopBegin, DeleteBegin,
         ReconcileBegin, TerminalBegin, Call, Mates, TerminalEnd, Going
<1>3. CASE Proceed(t)
  BY <1>0, <1>3, GotoOnly
  DEF Proceed, AddCreate, StartRuntime, StopRuntime, StopInfo, DeleteRuntime,
      DeleteLock, TerminalAutoStart, TerminalAttach, RuntimeFails, LeavesBehind,
      FailsLate, Acquire, Reload, Going
<1>4. (\E p \in Procs : Crash(p)) => Goal
  BY DEF Crash
<1>5. External \/ Finished \/ UNCHANGED vars => Goal
  BY DEF External, Finished, vars
<1> QED
  BY <1>1, <1>2, <1>3, <1>4, <1>5 DEF Next

\* How a thread comes past its runtime calls.
LEMMA GoingBefore ==
  ASSUME BaseInv, [Next]_vars, NEW t \in Threads, pc'[t] \in Going \cup {"rtinfo"}
  PROVE  \/ AddCreate(t) \/ StartRuntime(t) \/ StopRuntime(t) \/ StopInfo(t)
         \/ DeleteRuntime(t) \/ NewManager(t) \/ ReconcileBegin(t)
         \/ /\ pc[t] \in Going \cup {"rtinfo"} /\ (pc'[t] = "rtinfo" <=> pc[t] = "rtinfo")
            /\ kind'[t] = kind[t] /\ rec'[t] = rec[t]
<1> DEFINE Stays == /\ pc[t] \in Going \cup {"rtinfo"} /\ (pc'[t] = "rtinfo" <=> pc[t] = "rtinfo")
                    /\ kind'[t] = kind[t] /\ rec'[t] = rec[t]
           Goal == \/ AddCreate(t) \/ StartRuntime(t) \/ StopRuntime(t) \/ StopInfo(t)
                   \/ DeleteRuntime(t) \/ NewManager(t) \/ ReconcileBegin(t)
                   \/ Stays
<1>0. TypeOK /\ ~Idle(t)'
  BY DEF BaseInv, Inv, TypeInv, Going, Idle
<1>1. ASSUME NEW u \in Threads, u # t, Begin(u) \/ Proceed(u) \/ TerminalEnd(u) PROVE Stays
  BY <1>0, <1>1, BeginOnly, ProceedOnly, ReturnIsIdle DEF TerminalEnd, Only
<1>2. ASSUME Begin(t) PROVE NewManager(t) \/ ReconcileBegin(t)
  BY <1>0, <1>2, GotoOnly
  DEF Begin, AddBegin, StartBegin, StopBegin, DeleteBegin, TerminalBegin, Going
<1>3. ~TerminalEnd(t)
  BY <1>0, ReturnIsIdle DEF TerminalEnd
<1>4. CASE Proceed(t)
  <2>1. ~Save(t)
    BY <1>0, SaveEffect DEF BaseInv, Going
  <2>2. ~(RuntimeFails(t) \/ TerminalAutoStart(t) \/ TerminalAttach(t))
    BY <1>0, GotoOnly, ReturnIsIdle DEF RuntimeFails, TerminalAutoStart,
       TerminalAttach, Going
  <2>3. DeleteLock(t) \/ Acquire(t) \/ Reload(t) => Stays
    BY <1>0, GotoOnly DEF DeleteLock, Acquire, Reload, Going
  <2> QED
    BY <1>4, <2>1, <2>2, <2>3 DEF Proceed
<1>5. (\E p \in Procs : Crash(p)) => Stays
  BY <1>0 DEF Crash, Going
<1>6. External \/ Finished \/ UNCHANGED vars => Stays
  BY DEF External, Finished, vars
<1> QED
  BY <1>1, <1>2, <1>3, <1>4, <1>5, <1>6 DEF Next

LEMMA RemovingBefore ==
  ASSUME BaseInv, [Next]_vars, NEW t \in Threads, Removing(t)'
  PROVE  DeleteRuntime(t) \/ (Removing(t) /\ rec'[t] = rec[t])
<1>0. TypeOK /\ RecordInv
  BY DEF BaseInv, Inv, TypeInv
<1>1. ~(AddCreate(t) \/ StartRuntime(t) \/ StopRuntime(t) \/ StopInfo(t))
  BY <1>0 DEF AddCreate, StartRuntime, StopRuntime, StopInfo, RecordInv, Removing
<1>2. ~(NewManager(t) \/ ReconcileBegin(t))
  BY <1>0 DEF NewManager, ReconcileBegin, Call, Removing, TypeOK
<1> QED
  BY <1>1, <1>2, GoingBefore DEF Removing, Going

\* An Add comes past its runtime call by it.
LEMMA CreatedBefore ==
  ASSUME BaseInv, [Next]_vars, NEW t \in Threads, Created(t)'
  PROVE  AddCreate(t) \/ (Created(t) /\ rec'[t] = rec[t])
<1>0. TypeOK /\ RecordInv
  BY DEF BaseInv, Inv, TypeInv
<1>1. ~(StartRuntime(t) \/ StopRuntime(t) \/ StopInfo(t) \/ DeleteRuntime(t))
  BY <1>0 DEF StartRuntime, StopRuntime, StopInfo, DeleteRuntime, RecordInv, Created
<1>2. ~(NewManager(t) \/ ReconcileBegin(t))
  BY <1>0 DEF NewManager, ReconcileBegin, Call, Created, TypeOK
<1> QED
  BY <1>1, <1>2, GoingBefore DEF Created, Going

\* The record a Delete found is still that of the workspace, and no Add makes
\* its id again.
DeleteInv ==
    \A t \in Threads : kind[t] = "delete" =>
        /\ rec[t].id \in issued
        /\ \A r \in file : r.id = rec[t].id => Same(r, rec[t])
        /\ \A u \in Threads : Adding(u) => rec[u].id # rec[t].id

LEMMA DeleteNext ==
  ASSUME FreshIds, BaseInv, DeleteInv, [Next]_vars
  PROVE  DeleteInv'
<1> SUFFICES ASSUME NEW t \in Threads, kind'[t] = "delete"
             PROVE  /\ rec'[t].id \in issued'
                    /\ \A r \in file' : r.id = rec'[t].id => Same(r, rec'[t])
                    /\ \A u \in Threads : Adding(u)' => rec'[u].id # rec'[t].id
  BY DEF DeleteInv
<1>0. UniqueIds /\ IdsOf(file) \subseteq issued
  BY DEF BaseInv, Inv, IdInv
<1>1. \/ kind[t] = "delete" /\ rec'[t] = rec[t]
      \/ kind[t] = "none" /\ rec'[t] \in file
  BY RecordBefore, AddBeginEffect DEF BaseInv, Working, Updating
<1>2. kind[t] = "none" => file' = file
  BY FileEffect, SaveEffect DEF BaseInv, Only, Idle
<1>3. rec'[t].id \in issued
  BY <1>0, <1>1 DEF DeleteInv, IdsOf
<1>4. ASSUME NEW r \in file', r.id = rec'[t].id PROVE Same(r, rec'[t])
  <2>1. CASE kind[t] = "none"
    BY <1>0, <1>1, <1>2, <1>4, <2>1 DEF UniqueIds, Same
  <2>2. CASE kind[t] = "delete" /\ rec'[t] = rec[t]
    BY <1>4, <2>2, StoredBefore DEF DeleteInv, Same, Adding
  <2> QED
    BY <1>1, <2>1, <2>2
<1>5. ASSUME NEW u \in Threads, Adding(u)' PROVE rec'[u].id # rec'[t].id
  <2>1. CASE AddBegin(u)
    <3>1. PICK id \in Ids \ issued, name \in Names, rt \in Runtimes :
             rec'[u] = NewRecord(id, name, rt)
      BY <2>1, AddBeginEffect DEF BaseInv
    <3> QED
      BY <1>3, <3>1 DEF NewRecord
  <2>2. CASE ~AddBegin(u)
    <3>1. Adding(u) /\ rec'[u] = rec[u]
      BY <1>5, <2>2, RecordBefore DEF Adding, Updating, Working
    <3> QED
      BY <1>1, <3>1 DEF DeleteInv, BaseInv, Inv, IdInv, IdsOf
  <2> QED
    BY <2>1, <2>2
<1> QED
  BY <1>3, <1>4, <1>5, IssuedGrows

\* When the runtime has removed the instance of a workspace, none comes in its
\* place before the record is removed.
GoneInv ==
    \A t \in Threads : Removing(t) =>
        \A r \in file : r.id = rec[t].id => PodsOf(r) = {}

LEMMA GoneNext ==
  ASSUME NameInv \/ NameKeyed = {},
         BaseInv, PairInv, DeleteInv, GoneInv, [Next]_vars
  PROVE  GoneInv'
<1> SUFFICES ASSUME NEW t \in Threads, Removing(t)',
                    NEW r \in file', r.id = rec'[t].id,
                    NEW q \in pods', q.rt = r.rt, q.rid = r.rid
             PROVE  FALSE
  BY DEF GoneInv, PodsOf
<1>1. CASE DeleteRuntime(t)
  <2>1. r \in file /\ Same(r, rec[t])
    BY <1>1, DeleteRuntimeEffect DEF DeleteInv
  <2> QED
    BY <1>1, <2>1, DeleteRuntimeEffect DEF PodsOf, Same
<1>2. CASE Removing(t) /\ rec'[t] = rec[t]
  <2>1. PICK s \in file : Same(r, s)
    BY <1>2, StoredBefore DEF DeleteInv, Removing, Adding, Same
  <2>2. PodsOf(s) = {}
    BY <1>2, <2>1 DEF GoneInv, Same
  <2>3. \A p \in pods : ~SamePod(p, q)
    BY <2>1, <2>2 DEF PodsOf, Same, SamePod
  <2>4. PICK u \in Threads : Makes(u, q)
    BY <2>3, PodsBefore
  <2>5. q.rt = rec[u].rt /\ q.rid = rec[u].rid /\ Adding(u)
    BY <2>4 DEF Makes, SamePod, PodOf
  <2>6. /\ Paired(rec[u]) /\ Paired(s) /\ rec[u].id # rec[t].id
        /\ NameKeyed # {} => s.name # rec[u].name
    BY <1>2, <2>1, <2>5 DEF PairInv, Working, Adding, DeleteInv, Removing, NameInv
  <2> QED
    BY <1>2, <2>1, <2>5, <2>6 DEF Paired, RidFor, Same
<1> QED
  BY <1>1, <1>2, RemovingBefore

-----------------------------------------------------------------------------
(* Workspaces and their instances.                                         *)

LEMMA KnownNext ==
  ASSUME {"crash", "save"} \cap Faults = {}, ~UseReconcile,
         BaseInv, GoneInv, [Next]_vars, NEW q \in pods', Known(q)
  PROVE  Known(q)'
<1> SUFFICES \/ \E r \in file' : r.rt = q.rt /\ r.rid = q.rid
             \/ \E t \in Threads : /\ kind'[t] = "add" /\ pc'[t] # "create"
                                   /\ rec'[t].rt = q.rt /\ rec'[t].rid = q.rid
  BY DEF Known
<1>1. ASSUME NEW r \in file, r.rt = q.rt, r.rid = q.rid
      PROVE  \E s \in file' : s.rt = q.rt /\ s.rid = q.rid
  <2>1. ASSUME NEW t \in Threads, Save(t), kind[t] = "delete", r.id = rec[t].id
        PROVE  FALSE
    <3>1. Removing(t) /\ q \in pods
      BY <2>1, SaveEffect DEF BaseInv, Removing, Going
    <3> QED
      BY <1>1, <2>1, <3>1 DEF GoneInv, PodsOf
  <2>2. \/ r \in file'
        \/ \E s \in file' : Same(s, r)
    BY <2>1, StoredAfter
  <2> QED
    BY <1>1, <2>2 DEF Same
<1>2. ASSUME NEW t \in Threads, kind[t] = "add", pc[t] # "create"
      PROVE  \/ rec[t] \in file'
             \/ kind'[t] = "add" /\ pc'[t] # "create" /\ rec'[t] = rec[t]
  <2>1. Created(t)
    BY <1>2, GoingLabels DEF Adding
  <2>2. CASE Save(t)
    BY <1>2, <2>2, SaveEffect DEF BaseInv, Updating
  <2> QED
    BY <2>1, <2>2, GoesOn DEF Created, Going
<1> QED
  BY <1>1, <1>2 DEF Known

\* kdn loses no runtime instance that belongs to a stored workspace or to an Add
\* that is going to store it, unless a process dies or a save fails, whatever
\* runtime calls fail after their effect: what Delete removes from the file has
\* lost its instance before, and nobody takes its id or, in a single process,
\* its name in between (manager.go:765-821).
THEOREM NoInstanceIsOrphaned ==
  ASSUME (OneProcess /\ UniqueLegacy) \/ NameKeyed = {}, PairedLegacy,
         {"crash", "save", "collision"} \cap Faults = {}, ~UseReconcile
  PROVE  Spec => NoOrphanPods
<1> DEFINE IInv == PairInv /\ DeleteInv /\ GoneInv
<1>0. FreshIds
  BY DEF FreshIds
<1>1. Init => IInv
  <2>1. Init => DeleteInv /\ GoneInv
    BY DEF Init, DeleteInv, GoneInv, Removing
  <2> QED
    BY <2>1, PairInit
<1>2. BaseInv /\ (NameInv \/ NameKeyed = {}) /\ IInv /\ [Next]_vars => IInv'
  BY <1>0, PairNext, DeleteNext, GoneNext
<1> DEFINE Keeps == \A q \in pods' : Known(q) => Known(q)'
<1>3. BaseInv /\ IInv /\ [Next]_vars => [Keeps]_vars
  BY KnownNext
<1> HIDE DEF Keeps, IInv
<1>4. CASE OneProcess /\ UniqueLegacy
  <2>1. Spec => []NameInv
    BY <1>0, <1>4, NamesKept
  <2>2. Spec => [][Keeps]_vars
    BY <2>1, <1>0, <1>1, <1>2, <1>3, BaseCorrect, PTL DEF Spec
  <2> QED
    BY <2>2 DEF NoOrphanPods, Keeps
<1>5. CASE NameKeyed = {}
  <2>1. BaseInv /\ IInv /\ [Next]_vars => IInv'
    BY <1>2, <1>5
  <2>2. Spec => [][Keeps]_vars
    BY <2>1, <1>0, <1>1, <1>3, BaseCorrect, PTL DEF Spec
  <2> QED
    BY <2>2 DEF NoOrphanPods, Keeps
<1> QED
  BY <1>4, <1>5

LEMMA PodsAfter ==
  ASSUME BaseInv, {"external", "partial"} \cap Faults = {}, [Next]_vars
  PROVE  \/ \E t \in Threads : DeleteRuntime(t)
         \/ \A p \in pods : \E q \in pods' : SamePod(p, q)
<1> DEFINE Stay == \A p \in pods : \E q \in pods' : SamePod(p, q)
<1>0. pods \subseteq Pod
  BY DEF BaseInv, Inv, TypeInv, TypeOK
<1>1. pods \subseteq pods' => Stay
  BY DEF SamePod
<1>2. ASSUME NEW t \in Threads, NEW s, SetPodState(rec[t], s) PROVE Stay
  BY <1>0, <1>2, PodStateEffect
<1>3. ASSUME NEW t \in Threads, Begin(t) \/ TerminalEnd(t) PROVE UNCHANGED pods
  BY <1>3 DEF Begin, NewManager, AddBegin, StartBegin, StopBegin, DeleteBegin,
              ReconcileBegin, TerminalBegin, Call, TerminalEnd
<1>4. ASSUME NEW t \in Threads, Proceed(t), ~DeleteRuntime(t)
      PROVE  pods \subseteq pods' \/ \E s : SetPodState(rec[t], s)
  <2>1. Save(t) => UNCHANGED pods
    BY SaveEffect DEF BaseInv
  <2>2. StartRuntime(t) \/ StopRuntime(t) \/ RuntimeFails(t)
           => UNCHANGED pods \/ \E s : SetPodState(rec[t], s)
           \/ pods \subseteq pods'
    BY DEF StartRuntime, StopRuntime, RuntimeFails, LeavesBehind
  <2> QED
    BY <1>4, <2>1, <2>2
    DEF Proceed, AddCreate, StopInfo, DeleteLock, TerminalAutoStart, TerminalAttach,
        Acquire, Reload
<1>5. (\E p \in Procs : Crash(p)) \/ Finished \/ UNCHANGED vars => UNCHANGED pods
  BY DEF Crash, Finished, vars
<1>6. ~External
  BY DEF External
<1> QED
  BY <1>1, <1>2, <1>3, <1>4, <1>5, <1>6 DEF Next

\* A stored workspace has its instance, or is being deleted; so has one that is
\* being added.
DangleInv ==
    /\ NoDanglingRecords
    /\ \A t \in Threads : Created(t) => PodsOf(rec[t]) # {}

LEMMA DangleNext ==
  ASSUME Faults \subseteq {"leftover"}, NameKeyed = {},
         BaseInv, PairInv, DeleteInv, DangleInv, [Next]_vars
  PROVE  DangleInv'
<1>1. ASSUME NEW r, NEW s, Same(r, s), Paired(s), PodsOf(s) # {}
      PROVE  \/ PodsOf(r)' # {}
             \/ \E t \in Threads : DeleteRuntime(t) /\ rec[t].id = s.id
  <2>1. PICK p \in pods : p.rt = s.rt /\ p.rid = s.rid
    BY <1>1 DEF PodsOf
  <2>2. ASSUME NEW q \in pods', SamePod(p, q) PROVE PodsOf(r)' # {}
    BY <1>1, <2>1, <2>2 DEF PodsOf, Same, SamePod
  <2>3. ASSUME NEW t \in Threads, DeleteRuntime(t), p \notin pods'
        PROVE  rec[t].id = s.id
    <3>1. p \in PodsOf(rec[t]) /\ Paired(rec[t])
      BY <2>3, DeleteRuntimeEffect DEF PairInv, Working
    <3> QED
      BY <1>1, <2>1, <3>1 DEF PodsOf, Paired, RidFor
  <2> QED
    BY <2>2, <2>3, PodsAfter DEF SamePod
<1>2. ASSUME NEW t \in Threads, Created(t)' PROVE PodsOf(rec[t])' # {}
  <2>1. CASE AddCreate(t)
    <3>1. PodOf(rec[t]) \in pods' /\ rec' = rec
      BY <2>1, AddCreateEffect
    <3>2. PodOf(rec[t]).rt = rec'[t].rt /\ PodOf(rec[t]).rid = rec'[t].rid
      BY <3>1 DEF PodOf
    <3> QED
      BY <3>1, <3>2 DEF PodsOf
  <2>2. CASE Created(t) /\ rec'[t] = rec[t]
    <3>1. PodsOf(rec[t]) # {} /\ Paired(rec[t]) /\ Same(rec'[t], rec[t])
      BY <2>2 DEF DangleInv, PairInv, Working, Created, Same
    <3>2. ~\E u \in Threads : DeleteRuntime(u) /\ rec[u].id = rec[t].id
      BY <2>2, DeleteRuntimeEffect DEF DeleteInv, Created, Adding
    <3> QED
      BY <1>1, <3>1, <3>2 DEF PodsOf
  <2> QED
    BY <1>2, <2>1, <2>2, CreatedBefore
<1>3. ASSUME NEW r \in file'
      PROVE  \/ PodsOf(r)' # {}
             \/ \E t \in Threads : kind'[t] = "delete" /\ rec'[t].id = r.id /\ pc'[t] # "rtremove"
  <2>1. ASSUME NEW t \in Threads, Save(t), kind[t] = "add", r = rec[t]
        PROVE  PodsOf(r)' # {}
    <3>1. Created(t) /\ UNCHANGED pods
      BY <2>1, SaveEffect DEF BaseInv, Created, Going
    <3> QED
      BY <2>1, <3>1 DEF DangleInv, PodsOf
  <2>2. ASSUME NEW s \in file, Same(r, s), PodsOf(s) # {}
        PROVE  \/ PodsOf(r)' # {}
               \/ \E t \in Threads : kind'[t] = "delete" /\ rec'[t].id = r.id /\ pc'[t] # "rtremove"
    <3>1. ASSUME NEW t \in Threads, DeleteRuntime(t), rec[t].id = s.id
          PROVE  kind'[t] = "delete" /\ rec'[t].id = r.id /\ pc'[t] # "rtremove"
      BY <2>2, <3>1, DeleteRuntimeEffect DEF Same
    <3> QED
      BY <1>1, <2>2, <3>1 DEF PairInv
  <2>3. ASSUME NEW s \in file, Same(r, s),
               NEW t \in Threads, Removing(t), rec[t].id = s.id
        PROVE  kind'[t] = "delete" /\ rec'[t].id = r.id /\ pc'[t] # "rtremove"
    <3>1. ~Save(t)
      BY <2>3, SaveEffect DEF BaseInv, Removing, Same, Updating
    <3> QED
      BY <2>3, <3>1, GoesOn DEF Removing, Going, Same
  <2>4. ASSUME NEW s \in file, Same(r, s)
        PROVE  \/ PodsOf(r)' # {}
               \/ \E t \in Threads : kind'[t] = "delete" /\ rec'[t].id = r.id /\ pc'[t] # "rtremove"
    BY <2>2, <2>3, <2>4, GoingLabels DEF DangleInv, NoDanglingRecords
  <2> QED
    BY <2>1, <2>4, StoredBefore DEF Same
<1> QED
  BY <1>2, <1>3 DEF DangleInv, NoDanglingRecords

\* Every stored workspace has its runtime instance, unless it is being deleted,
\* where the runtime makes its own ids and no failure has an effect but that of
\* a Create, which leaves an instance nobody knows (manager.go:765-767); any
\* number of processes may run.
THEOREM NoRecordDangles ==
  ASSUME PairedLegacy, Faults \subseteq {"leftover"}, NameKeyed = {}
  PROVE  Spec => []NoDanglingRecords
<1> DEFINE IInv == PairInv /\ DeleteInv /\ DangleInv
<1>0. FreshIds
  BY DEF FreshIds
<1>1. Init => IInv
  <2>1. Init => DangleInv
    <3> SUFFICES ASSUME Init PROVE DangleInv
      OBVIOUS
    <3>1. \A r \in file : PodOf(r) \in PodsOf(r)
      BY DEF Init, PodsOf, PodOf
    <3> QED
      BY <3>1 DEF Init, DangleInv, NoDanglingRecords, Created
  <2>2. Init => DeleteInv
    BY DEF Init, DeleteInv
  <2> QED
    BY <2>1, <2>2, PairInit
<1>2. BaseInv /\ IInv /\ [Next]_vars => IInv'
  BY <1>0, PairNext, DeleteNext, DangleNext
<1>3. IInv => NoDanglingRecords
  BY DEF DangleInv
<1> QED
  BY <1>0, <1>1, <1>2, <1>3, BaseCorrect, PTL DEF Spec

-----------------------------------------------------------------------------
(* States and start times.  Start and Stop hold the RWMutex from their     *)
(* first load to their save, so that nobody else of their process sets the *)
(* state of an instance or changes the file in between.                    *)

Settled(r) == \A q \in PodsOf(r) : q.state = r.state

\* A record that Start or Stop is going to store.
Set(t) == Updating(t) /\ pc[t] \in Going

AddedInv ==
    \A t \in Threads : Adding(t) => rec[t].state = "stopped" /\ ~rec[t].started

SetInv ==
    /\ \A t \in Threads : pc[t] = "rtinfo" =>
          \A q \in PodsOf(rec[t]) : q.state = "stopped"
    /\ \A t \in Threads : Set(t) =>
          Settled(rec[t]) /\ (rec[t].started <=> rec[t].state = "running")
    /\ StartTimeAgrees

\* Only a thread that is alone makes instances or sets their states.
LEMMA PodsByAlone ==
  ASSUME BaseInv, "external" \notin Faults, [Next]_vars
  PROVE  \/ pods' \subseteq pods
         \/ \E t \in Threads : /\ pc[t] \in {"create", "rtstart", "rtstop"}
                               /\ AddCreate(t) \/ StartRuntime(t) \/ StopRuntime(t)
                                  \/ RuntimeFails(t)
<1>1. ASSUME NEW t \in Threads, Begin(t) \/ TerminalEnd(t) PROVE UNCHANGED pods
  BY <1>1 DEF Begin, NewManager, AddBegin, StartBegin, StopBegin, DeleteBegin,
              ReconcileBegin, TerminalBegin, Call, TerminalEnd
<1>2. ASSUME NEW t \in Threads, Proceed(t)
      PROVE  \/ pods' \subseteq pods
             \/ /\ pc[t] \in {"create", "rtstart", "rtstop"}
                /\ AddCreate(t) \/ StartRuntime(t) \/ StopRuntime(t) \/ RuntimeFails(t)
  <2>1. Save(t) => UNCHANGED pods
    BY SaveEffect DEF BaseInv
  <2>2. AddCreate(t) \/ StartRuntime(t) \/ StopRuntime(t)
           => pc[t] \in {"create", "rtstart", "rtstop"}
    BY DEF AddCreate, StartRuntime, StopRuntime
  <2>3. RuntimeFails(t) => pods' \subseteq pods \/ pc[t] \in {"create", "rtstart", "rtstop"}
    BY DEF RuntimeFails, LeavesBehind, FailsLate
  <2>4. DeleteRuntime(t) => pods' \subseteq pods
    BY DEF DeleteRuntime
  <2> QED
    BY <1>2, <2>1, <2>2, <2>3, <2>4
    DEF Proceed, StopInfo, DeleteLock, TerminalAutoStart, TerminalAttach, Acquire, Reload
<1>3. (\E p \in Procs : Crash(p)) \/ Finished \/ UNCHANGED vars => UNCHANGED pods
  BY DEF Crash, Finished, vars
<1>4. ~External
  BY DEF External
<1> QED
  BY <1>1, <1>2, <1>3, <1>4 DEF Next

LEMMA OthersRemove ==
  ASSUME OneProcess, BaseInv, "external" \notin Faults, [Next]_vars,
         NEW t \in Threads, Alone(t), pc[t] \notin {"create", "rtstart", "rtstop"}
  PROVE  pods' \subseteq pods
  BY PodsByAlone, AloneIsOne DEF BaseInv, LockedInv, ModeInv

LEMMA StartRuntimeEffect ==
  ASSUME BaseInv, NEW t \in Threads, StartRuntime(t)
  PROVE  /\ Updating(t) /\ pc'[t] = "flock" /\ kind' = kind /\ UNCHANGED <<file, issued>>
         /\ Only(t) /\ Alone(t)
         /\ Same(rec'[t], rec[t]) /\ rec'[t].state = "running" /\ rec'[t].started
         /\ SetPodState(rec[t], "running")
<1>1. /\ TypeOK /\ Updating(t) /\ rec[t] \in Instance
      /\ rec' = [rec EXCEPT ![t].state = "running", ![t].started = TRUE]
  BY DEF StartRuntime, BaseInv, Inv, TypeInv, RecordInv, Updating
<1>2. Same(rec'[t], rec[t]) /\ rec'[t].state = "running" /\ rec'[t].started
  BY <1>1 DEF TypeOK, Instance, Same
<1> QED
  BY <1>1, <1>2, GotoOnly, ProceedOnly DEF StartRuntime, Proceed, BaseInv, LockedInv, ModeInv

LEMMA StopRuntimeEffect ==
  ASSUME BaseInv, NEW t \in Threads, StopRuntime(t)
  PROVE  /\ kind[t] = "stop" /\ pc'[t] = "rtinfo" /\ kind' = kind
         /\ UNCHANGED <<file, issued, rec>> /\ Only(t) /\ Alone(t)
         /\ SetPodState(rec[t], "stopped")
  BY GotoOnly, ProceedOnly
  DEF StopRuntime, Proceed, BaseInv, LockedInv, Inv, TypeInv, RecordInv, ModeInv

LEMMA StopInfoEffect ==
  ASSUME BaseInv, NEW t \in Threads, StopInfo(t)
  PROVE  /\ kind[t] = "stop" /\ pc[t] = "rtinfo" /\ pc'[t] = "flock" /\ kind' = kind
         /\ UNCHANGED <<file, pods, issued>> /\ Only(t) /\ Alone(t)
         /\ Same(rec'[t], rec[t]) /\ ~rec'[t].started
         /\ rec'[t].state = IF \E q \in PodsOf(rec[t]) : q.state = "running"
                            THEN "running" ELSE "stopped"
<1> DEFINE s == IF \E q \in PodsOf(rec[t]) : q.state = "running"
                THEN "running" ELSE "stopped"
<1>1. /\ TypeOK /\ kind[t] = "stop" /\ rec[t] \in Instance
      /\ rec' = [rec EXCEPT ![t].state = s, ![t].started = FALSE]
  BY DEF StopInfo, BaseInv, Inv, TypeInv, RecordInv
<1> HIDE DEF s
<1>2. Same(rec'[t], rec[t]) /\ rec'[t].state = s /\ ~rec'[t].started
  BY <1>1 DEF TypeOK, Instance, Same
<1> QED
  BY <1>1, <1>2, GotoOnly, ProceedOnly DEF StopInfo, Proceed, BaseInv, LockedInv, ModeInv, s

\* When a call has set the state of its instance, the instance has it.
LEMMA StateIsSet ==
  ASSUME BaseInv, NEW r, NEW s, SetPodState(r, s),
         NEW q \in pods', q.rt = r.rt, q.rid = r.rid
  PROVE  q.state = s
<1>1. PICK p \in pods :
         SamePod(p, q) /\ q.state = IF p \in PodsOf(r) THEN s ELSE p.state
  BY PodStateEffect DEF BaseInv, Inv, TypeInv, TypeOK
<1> QED
  BY <1>1 DEF SamePod, PodsOf

\* How a Start or a Stop comes to its save.
LEMMA SetBefore ==
  ASSUME BaseInv, [Next]_vars, NEW t \in Threads, Set(t)'
  PROVE  StartRuntime(t) \/ StopInfo(t) \/ (Set(t) /\ rec'[t] = rec[t])
<1>0. TypeOK /\ RecordInv
  BY DEF BaseInv, Inv, TypeInv
<1>1. ~(AddCreate(t) \/ StopRuntime(t) \/ DeleteRuntime(t))
  BY <1>0, GotoOnly
  DEF AddCreate, StopRuntime, DeleteRuntime, RecordInv, Set, Updating, Going
<1>2. ~(NewManager(t) \/ ReconcileBegin(t))
  BY <1>0 DEF NewManager, ReconcileBegin, Call, Set, Updating, TypeOK
<1> QED
  BY <1>1, <1>2, GoingBefore DEF Set, Updating, Going

LEMMA AddedNext ==
  ASSUME BaseInv, AddedInv, [Next]_vars
  PROVE  AddedInv'
<1> SUFFICES ASSUME NEW t \in Threads, Adding(t)'
             PROVE  rec'[t].state = "stopped" /\ ~rec'[t].started
  BY DEF AddedInv
<1>1. CASE AddBegin(t)
  <2>1. PICK id, name, rt : rec'[t] = NewRecord(id, name, rt)
    BY <1>1, AddBeginEffect DEF BaseInv
  <2> QED
    BY <2>1 DEF NewRecord
<1>2. CASE ~AddBegin(t)
  BY <1>2, RecordBefore DEF AddedInv, Adding, Updating, Working
<1> QED
  BY <1>1, <1>2

LEMMA SetNext ==
  ASSUME OneProcess, BaseInv, AddedInv, "external" \notin Faults, SetInv, [Next]_vars
  PROVE  SetInv'
<1>1. ASSUME NEW t \in Threads, pc'[t] = "rtinfo", NEW q \in PodsOf(rec[t])'
      PROVE  q.state = "stopped"
  <2>0. q \in pods' /\ q.rt = rec'[t].rt /\ q.rid = rec'[t].rid
    BY <1>1 DEF PodsOf
  <2>1. CASE StopRuntime(t)
    BY <2>0, <2>1, StopRuntimeEffect, StateIsSet
  <2>2. CASE pc[t] = "rtinfo" /\ rec'[t] = rec[t]
    <3>1. pods' \subseteq pods
      BY <2>2, OthersRemove DEF BaseInv, LockedInv, ModeInv
    <3> QED
      BY <2>0, <2>2, <3>1 DEF SetInv, PodsOf
  <2>3. ~(AddCreate(t) \/ StartRuntime(t) \/ StopInfo(t) \/ DeleteRuntime(t)
          \/ NewManager(t) \/ ReconcileBegin(t))
    BY <1>1, GotoOnly
    DEF AddCreate, StartRuntime, StopInfo, DeleteRuntime, NewManager, ReconcileBegin,
        BaseInv, Inv, TypeInv
  <2> QED
    BY <1>1, <2>1, <2>2, <2>3, GoingBefore
<1>2. ASSUME NEW t \in Threads, Set(t)'
      PROVE  Settled(rec[t])' /\ (rec'[t].started <=> rec'[t].state = "running")
  <2>1. CASE StartRuntime(t)
    BY <2>1, StartRuntimeEffect, StateIsSet DEF Settled, PodsOf, Same
  <2>2. CASE StopInfo(t)
    <3>1. \A q \in PodsOf(rec[t]) : q.state = "stopped"
      BY <2>2, StopInfoEffect DEF SetInv
    <3>2. rec'[t].state = "stopped" /\ ~rec'[t].started
      BY <2>2, <3>1, StopInfoEffect
    <3> QED
      BY <2>2, <3>1, <3>2, StopInfoEffect DEF Settled, PodsOf, Same
  <2>3. CASE Set(t) /\ rec'[t] = rec[t]
    <3>1. Alone(t) /\ pc[t] \notin {"create", "rtstart", "rtstop"}
      BY <2>3 DEF Set, Going, Updating, BaseInv, LockedInv, ModeInv, Inv, TypeInv, RecordInv
    <3>2. pods' \subseteq pods
      BY <3>1, OthersRemove
    <3> QED
      BY <2>3, <3>2 DEF SetInv, Settled, PodsOf
  <2> QED
    BY <1>2, <2>1, <2>2, <2>3, SetBefore
<1>3. ASSUME NEW r \in file' PROVE r.started <=> r.state = "running"
  <2>1. CASE r \in file
    BY <2>1 DEF SetInv, StartTimeAgrees
  <2>2. ASSUME NEW t \in Threads, Save(t), r \notin file
        PROVE  r.started <=> r.state = "running"
    <3>1. CASE kind[t] = "add" /\ file' = file \cup {rec[t]}
      BY <1>3, <2>2, <3>1 DEF AddedInv, Adding
    <3>2. CASE Updating(t) /\ file' = Replaced(file, rec[t])
      <4>1. Set(t) /\ r = rec[t]
        BY <1>3, <2>2, <3>2, SaveEffect DEF BaseInv, Set, Going, Replaced
      <4> QED
        BY <4>1 DEF SetInv
    <3>3. CASE file' = {[s EXCEPT !.created = TRUE] : s \in file}
      <4>1. PICK s \in file : r = [s EXCEPT !.created = TRUE]
        BY <1>3, <3>3
      <4>2. r.started = s.started /\ r.state = s.state
        BY <4>1 DEF BaseInv, Inv, TypeInv, TypeOK, Instance
      <4> QED
        BY <4>1, <4>2 DEF SetInv, StartTimeAgrees
    <3> QED
      BY <1>3, <2>2, <3>1, <3>2, <3>3, SaveEffect DEF BaseInv
  <2> QED
    BY <2>1, <2>2, FileEffect DEF BaseInv
<1> QED
  BY <1>1, <1>2, <1>3 DEF SetInv, StartTimeAgrees

AgreedLegacy == \A r \in Legacy : r.started <=> r.state = "running"

\* In a single process a stored workspace has a start time exactly while it is
\* stored as running, unless somebody touches its instance behind kdn's back:
\* whatever fails or dies, a Stop finds its instance stopped when it asks
\* (manager.go:586-632, instance.go:86).
THEOREM StartTimesAgree ==
  ASSUME OneProcess, AgreedLegacy, FreshIds, "external" \notin Faults
  PROVE  Spec => []StartTimeAgrees
<1> DEFINE IInv == AddedInv /\ SetInv
<1>1. Init => IInv
  BY DEF Init, AddedInv, Adding, SetInv, Set, Updating, StartTimeAgrees, AgreedLegacy
<1>2. BaseInv /\ IInv /\ [Next]_vars => IInv'
  BY AddedNext, SetNext
<1>3. IInv => StartTimeAgrees
  BY DEF SetInv
<1> QED
  BY <1>1, <1>2, <1>3, BaseCorrect, PTL DEF Spec

\* The workspace a Start or a Stop works on is registered until it is stored.
FoundInv ==
    \A t \in Threads : Updating(t) /\ Alone(t) => rec[t].id \in IdsOf(file)

LEMMA FoundBefore ==
  ASSUME BaseInv, [Next]_vars, NEW t \in Threads, Updating(t)', mode'[t] = "write"
  PROVE  \/ rec'[t] \in file
         \/ Updating(t) /\ mode[t] = "write" /\ rec'[t].id = rec[t].id
<1> DEFINE Goal == \/ rec'[t] \in file
                   \/ Updating(t) /\ mode[t] = "write" /\ rec'[t].id = rec[t].id
<1>0. TypeOK /\ RecordInv /\ ~Idle(t)' /\ Working(t)'
  BY DEF BaseInv, Inv, TypeInv, Idle, Updating, Working
<1>1. mode[t] = "write" => Goal
  <2>1. mode[t] = "write" => kind[t] # "none"
    BY DEF BaseInv, LockedInv, ModeInv, Idle
  <2>2. ~AddBegin(t)
    BY <1>0, AddBeginEffect DEF BaseInv, Updating
  <2> QED
    BY <1>0, <2>1, <2>2, RecordBefore DEF Updating, Same
<1>2. ASSUME NEW u \in Threads, u # t, Begin(u) \/ Proceed(u) \/ TerminalEnd(u)
      PROVE  mode'[t] = mode[t]
  BY <1>0, <1>2, BeginOnly, ProceedOnly, ReturnIsIdle DEF TerminalEnd, Only
<1>3. CASE Begin(t)
  <2>1. ~(NewManager(t) \/ ReconcileBegin(t) \/ AddBegin(t) \/ DeleteBegin(t))
    BY <1>0 DEF NewManager, ReconcileBegin, AddBegin, DeleteBegin, Call, Updating, TypeOK
  <2> QED
    BY <1>0, <1>3, <2>1, FoundOnly DEF Begin, StartBegin, StopBegin, TerminalBegin
<1>4. CASE Proceed(t)
  <2>1. TerminalAutoStart(t) \/ TerminalAttach(t) => rec'[t] \in file
    BY <1>0, FoundOnly, ReturnIsIdle DEF TerminalAutoStart, TerminalAttach
  <2>2. ~RuntimeFails(t)
    BY <1>0, ReturnIsIdle DEF RuntimeFails
  <2>3. ~Save(t) /\ ~DeleteLock(t)
    BY <1>0, SaveEffect DEF BaseInv, DeleteLock, RecordInv, Updating
  <2>4. AddCreate(t) \/ StartRuntime(t) \/ StopRuntime(t) \/ StopInfo(t) \/ DeleteRuntime(t)
        \/ Acquire(t) \/ Reload(t) => mode'[t] = mode[t]
    BY DEF AddCreate, StartRuntime, StopRuntime, StopInfo, DeleteRuntime, Acquire, Reload
  <2> QED
    BY <1>1, <1>4, <2>1, <2>2, <2>3, <2>4 DEF Proceed
<1>5. ~TerminalEnd(t)
  BY <1>0, ReturnIsIdle DEF TerminalEnd
<1>6. (\E p \in Procs : Crash(p)) => mode'[t] = mode[t]
  BY <1>0 DEF Crash, Updating
<1>7. External \/ Finished \/ UNCHANGED vars => mode'[t] = mode[t]
  BY DEF External, Finished, vars
<1> QED
  BY <1>1, <1>2, <1>3, <1>4, <1>5, <1>6, <1>7 DEF Next

LEMMA FoundNext ==
  ASSUME OneProcess, BaseInv, FoundInv, [Next]_vars
  PROVE  FoundInv'
<1> SUFFICES ASSUME NEW t \in Threads, Updating(t)', Alone(t)'
             PROVE  rec'[t].id \in IdsOf(file)'
  BY DEF FoundInv
<1>1. mode'[t] = "write"
  BY DEF Updating, Alone
<1>2. rec'[t].id \in IdsOf(file)
  BY <1>1, FoundBefore DEF FoundInv, Alone, IdsOf
<1>3. CASE file' = file
  BY <1>2, <1>3 DEF IdsOf
<1>4. ASSUME NEW u \in Threads, Save(u) PROVE FALSE
  <2>1. u = t
    <3>1. u # t => mode[t] = "write"
      BY <1>1, <1>4, SaveEffect DEF BaseInv, Only
    <3> QED
      BY <1>4, <3>1, OneSaves DEF BaseInv, Alone
  <2> QED
    BY <1>1, <1>4, <2>1, SaveEffect DEF BaseInv, Idle
<1> QED
  BY <1>3, <1>4, FileEffect DEF BaseInv

-----------------------------------------------------------------------------
(* The stored state is the state of the instance, or a Start or a Stop has *)
(* called the runtime and is going to store what it did.                   *)

Mid(t) == Set(t) \/ pc[t] = "rtinfo"

AgreeInv ==
    /\ \A r \in file : Settled(r) \/ \E t \in Threads : Mid(t) /\ rec[t].id = r.id
    /\ \A t \in Threads : Created(t) => Settled(rec[t])

\* Without faults who has called the runtime comes to its save.
LEMMA MidGoesOn ==
  ASSUME Faults \subseteq {"leftover"}, BaseInv, [Next]_vars, NEW t \in Threads, Mid(t), ~Save(t)
  PROVE  Mid(t)' /\ rec'[t].id = rec[t].id
<1>0. TypeOK /\ RecordInv
  BY DEF BaseInv, Inv, TypeInv
<1>1. CASE Set(t)
  BY <1>1, GoesOn DEF Set, Updating, Mid
<1>2. CASE pc[t] = "rtinfo"
  <2>1. CASE StopInfo(t)
    BY <2>1, StopInfoEffect DEF Mid, Set, Updating, Going, Same
  <2>2. ASSUME NEW u \in Threads, u # t, Begin(u) \/ Proceed(u) \/ TerminalEnd(u)
        PROVE  pc'[t] = pc[t] /\ rec'[t] = rec[t]
    BY <1>0, <2>2, BeginOnly, ProceedOnly, ReturnIsIdle DEF TerminalEnd, Only
  <2>3. ~Begin(t) /\ ~TerminalEnd(t)
    BY <1>2 DEF Begin, NewManager, AddBegin, StartBegin, StopBegin, DeleteBegin,
           ReconcileBegin, TerminalBegin, Call, Mates, TerminalEnd
  <2>4. Proceed(t) => StopInfo(t)
    BY <1>2
    DEF Proceed, AddCreate, StartRuntime, StopRuntime, DeleteRuntime, DeleteLock,
        TerminalAutoStart, TerminalAttach, RuntimeFails, LeavesBehind, Acquire, Reload
  <2>5. ~External /\ \A p \in Procs : ~Crash(p)
    BY DEF External, Crash
  <2>6. Finished \/ UNCHANGED vars => pc'[t] = pc[t] /\ rec'[t] = rec[t]
    BY DEF Finished, vars
  <2> QED
    BY <1>2, <2>1, <2>2, <2>3, <2>4, <2>5, <2>6 DEF Next, Mid
<1> QED
  BY <1>1, <1>2 DEF Mid

LEMMA MidIsAlone ==
  ASSUME BaseInv, NEW t \in Threads, Mid(t) PROVE Alone(t) /\ Updating(t)
  BY DEF Mid, Set, Going, Updating, BaseInv, LockedInv, ModeInv, Inv, TypeInv, RecordInv

\* Two records of one instance are those of one workspace.
LEMMA InstanceIdentifies ==
  ASSUME OneProcess, BaseInv, NameInv, PairInv, FoundInv,
         NEW r \in file, NEW t \in Threads, Updating(t), Alone(t),
         r.rt = rec[t].rt, r.rid = rec[t].rid
  PROVE  r.id = rec[t].id
<1>1. Paired(r) /\ Paired(rec[t])
  BY DEF PairInv, Working, Updating
<1>2. PICK s \in file : s.id = rec[t].id
  BY DEF FoundInv, IdsOf
<1>3. s.name = rec[t].name
  BY <1>2 DEF BaseInv, Inv, IdInv, MatchesFile, SameIdentity
<1>4. r.name = s.name => r = s
  BY <1>2 DEF NameInv, NamesUnique
<1> QED
  BY <1>1, <1>2, <1>3, <1>4 DEF Paired, RidFor

\* A step that saves nothing.
LEMMA AgreeUnsaved ==
  ASSUME OneProcess, Faults \subseteq {"leftover"},
         BaseInv, NameInv, PairInv, FoundInv, AddedInv, AgreeInv, [Next]_vars,
         file' = file, \A t \in Threads : ~Save(t),
         NEW r \in file
  PROVE  Settled(r)' \/ \E t \in Threads : Mid(t)' /\ rec'[t].id = r.id
<1>1. ASSUME NEW t \in Threads, Mid(t), rec[t].id = r.id
      PROVE  Mid(t)' /\ rec'[t].id = r.id
  BY <1>1, MidGoesOn
<1>2. ASSUME Settled(r), pods' \subseteq pods PROVE Settled(r)'
  BY <1>2 DEF Settled, PodsOf
<1>3. ASSUME Settled(r), NEW t \in Threads, AddCreate(t) \/ LeavesBehind(t)
      PROVE  Settled(r)'
  <2>1. Adding(t) /\ pc[t] = "create"
    BY <1>3 DEF AddCreate, LeavesBehind, BaseInv, Inv, TypeInv, RecordInv, Adding
  <2>2. /\ Paired(r) /\ Paired(rec[t])
        /\ rec[t].id \notin IdsOf(file) /\ r.name # rec[t].name
    BY <2>1 DEF PairInv, Working, Adding, NameInv, BaseInv, Inv, IdInv
  <2>3. ~(r.rt = rec[t].rt /\ r.rid = rec[t].rid)
    BY <2>2 DEF Paired, RidFor, IdsOf
  <2>4. \A q \in pods' : q \in pods \/ SamePod(PodOf(rec[t]), q)
    BY <1>3 DEF AddCreate, LeavesBehind, PodOf, SamePod
  <2> QED
    BY <1>3, <2>3, <2>4 DEF Settled, PodsOf, PodOf, SamePod
<1>4. ASSUME Settled(r), NEW t \in Threads, NEW s, SetPodState(rec[t], s),
             Updating(t), Alone(t), Mid(t)', rec'[t].id = rec[t].id
      PROVE  Settled(r)' \/ rec'[t].id = r.id
  <2>1. ASSUME rec[t].id # r.id, NEW q \in pods', q.rt = r.rt, q.rid = r.rid
        PROVE  q.state = r.state
    <3>1. PICK p \in pods :
             SamePod(p, q) /\ q.state = IF p \in PodsOf(rec[t]) THEN s ELSE p.state
      BY <1>4, PodStateEffect DEF BaseInv, Inv, TypeInv, TypeOK
    <3>2. p \notin PodsOf(rec[t])
      BY <1>4, <2>1, <3>1, InstanceIdentifies DEF PodsOf, SamePod
    <3> QED
      BY <1>4, <2>1, <3>1, <3>2 DEF Settled, PodsOf, SamePod
  <2> QED
    BY <1>4, <2>1 DEF Settled, PodsOf
<1>5. ASSUME Settled(r), NEW t \in Threads, StartRuntime(t) \/ StopRuntime(t)
      PROVE  Settled(r)' \/ \E u \in Threads : Mid(u)' /\ rec'[u].id = r.id
  <2>1. CASE StartRuntime(t)
    BY <1>4, <1>5, <2>1, StartRuntimeEffect DEF Mid, Set, Updating, Going, Same
  <2>2. CASE StopRuntime(t)
    BY <1>4, <1>5, <2>2, StopRuntimeEffect DEF Mid, Updating
  <2> QED
    BY <1>5, <2>1, <2>2
<1>6. \A t \in Threads : RuntimeFails(t) => UNCHANGED pods \/ LeavesBehind(t)
  BY DEF RuntimeFails
<1> QED
  BY <1>1, <1>2, <1>3, <1>5, <1>6, PodsByAlone DEF AgreeInv

\* A save.
LEMMA AgreeSaved ==
  ASSUME OneProcess, Faults \subseteq {"leftover"}, BaseInv, SetInv, AgreeInv,
         NEW t \in Threads, Save(t), NEW r \in file'
  PROVE  Settled(r)'
<1>1. UNCHANGED pods /\ Alone(t)
  BY SaveEffect DEF BaseInv
<1>2. \A s \in file : \/ Settled(s)
                      \/ Updating(t) /\ s.id = rec[t].id
  BY <1>1, MidIsAlone, AloneIsOne DEF BaseInv, AgreeInv
<1>3. ASSUME NEW s, Settled(s), s.rt = r.rt, s.rid = r.rid, s.state = r.state
      PROVE  Settled(r)'
  BY <1>1, <1>3 DEF Settled, PodsOf
<1>4. CASE kind[t] = "add" /\ file' = file \cup {rec[t]}
  <2>1. Created(t)
    BY <1>4, SaveEffect DEF BaseInv, Created, Going
  <2> QED
    BY <1>2, <1>3, <1>4, <2>1 DEF AgreeInv, Updating
<1>5. CASE Updating(t) /\ file' = Replaced(file, rec[t])
  <2>1. Settled(rec[t])
    BY <1>5, SaveEffect DEF BaseInv, SetInv, Set, Going
  <2>2. r = rec[t] \/ (r \in file /\ r.id # rec[t].id)
    BY <1>5 DEF Replaced
  <2> QED
    BY <1>2, <1>3, <2>1, <2>2
<1>6. CASE ~Updating(t) /\ file' = {[s EXCEPT !.created = TRUE] : s \in file}
  <2>1. PICK s \in file : r = [s EXCEPT !.created = TRUE]
    BY <1>6
  <2>2. s.rt = r.rt /\ s.rid = r.rid /\ s.state = r.state
    BY <2>1 DEF BaseInv, Inv, TypeInv, TypeOK, Instance
  <2> QED
    BY <1>2, <1>3, <1>6, <2>1, <2>2
<1>7. CASE ~Updating(t) /\ file' \subseteq file
  BY <1>2, <1>3, <1>7
<1> QED
  BY <1>4, <1>5, <1>6, <1>7, SaveEffect DEF BaseInv, Updating

LEMMA AgreeNext ==
  ASSUME OneProcess, Faults \subseteq {"leftover"},
         BaseInv, NameInv, PairInv, FoundInv, AddedInv, SetInv, AgreeInv, [Next]_vars
  PROVE  AgreeInv'
<1>1. ASSUME NEW r \in file'
      PROVE  Settled(r)' \/ \E t \in Threads : Mid(t)' /\ rec'[t].id = r.id
  BY <1>1, AgreeSaved, AgreeUnsaved, FileEffect DEF BaseInv
<1>2. ASSUME NEW t \in Threads, Created(t)' PROVE Settled(rec[t])'
  <2>1. CASE AddCreate(t)
    <3>1. /\ pods' = pods \cup {PodOf(rec[t])} /\ rec' = rec
          /\ rec[t].state = "stopped" /\ Paired(rec[t])
          /\ \A q \in pods : ~(q.rt = rec[t].rt /\ q.name = rec[t].name)
          /\ \A q \in pods : q.rt \notin NameKeyed => q.rid # rec[t].id
      BY <2>1, AddCreateEffect DEF AddedInv, PairInv, Working, Adding
    <3>2. \A q \in pods : ~(q.rt = rec[t].rt /\ q.rid = rec[t].rid)
      BY <3>1 DEF PairInv, Paired, RidFor
    <3> QED
      BY <3>1, <3>2 DEF Settled, PodsOf, PodOf
  <2>2. CASE Created(t) /\ rec'[t] = rec[t]
    <3>1. Alone(t) /\ pc[t] \notin {"create", "rtstart", "rtstop"}
      BY <2>2 DEF Created, Going, BaseInv, LockedInv, ModeInv, Inv, TypeInv, RecordInv, Alone
    <3>2. pods' \subseteq pods
      BY <3>1, OthersRemove
    <3> QED
      BY <2>2, <3>2 DEF AgreeInv, Settled, PodsOf
  <2> QED
    BY <1>2, <2>1, <2>2, CreatedBefore
<1> QED
  BY <1>1, <1>2 DEF AgreeInv

\* In a single process, where no failure has an effect but that of a Create,
\* which leaves an instance nobody knows, the stored state of a workspace that
\* no method is working on is the state the runtime would report
\* (instance.go:53).
THEOREM StatesAgree ==
  ASSUME OneProcess, UniqueLegacy, PairedLegacy, AgreedLegacy,
         Faults \subseteq {"leftover"}
  PROVE  Spec => []StateAgrees
<1> DEFINE IInv == PairInv /\ FoundInv /\ AddedInv /\ SetInv /\ AgreeInv
<1>0. FreshIds
  BY DEF FreshIds
<1>1. Init => IInv
  <2>1. Init => FoundInv /\ AddedInv /\ SetInv
    BY DEF Init, FoundInv, AddedInv, Adding, SetInv, Set, Updating, StartTimeAgrees,
           AgreedLegacy
  <2>2. Init => AgreeInv
    <3> SUFFICES ASSUME Init, NEW r \in file, NEW q \in PodsOf(r) PROVE q.state = r.state
      BY DEF Init, AgreeInv, Settled, Created
    <3>1. PICK s \in Legacy : q = PodOf(s)
      BY DEF Init, PodsOf
    <3>2. s.rt = r.rt /\ s.rid = r.rid /\ r \in Legacy
      BY <3>1 DEF Init, PodsOf, PodOf
    <3>3. Paired(s) /\ Paired(r)
      BY <3>1, <3>2 DEF PairedLegacy
    <3>4. s.id = r.id \/ s.name = r.name
      BY <3>2, <3>3 DEF Paired, RidFor
    <3>5. s = r
      BY <3>1, <3>2, <3>4, LegacyAssumption DEF UniqueLegacy
    <3> QED
      BY <3>1, <3>5 DEF PodOf
  <2> QED
    BY <2>1, <2>2, PairInit
<1>2. BaseInv /\ NameInv /\ IInv /\ [Next]_vars => IInv'
  BY <1>0, PairNext, FoundNext, AddedNext, SetNext, AgreeNext
<1>3. BaseInv /\ IInv => StateAgrees
  <2> SUFFICES ASSUME BaseInv, AgreeInv, NEW r \in file, NEW q \in PodsOf(r),
                      NEW t \in Threads, Mid(t), rec[t].id = r.id
               PROVE  Busy(r.id)
    BY DEF StateAgrees, AgreeInv, Settled
  <2>1. rec[t] \in Instance
    BY MidIsAlone DEF Updating, BaseInv, Inv, TypeInv, RecordInv
  <2> QED
    BY <2>1, NoRecAssumption DEF Busy
<1>4. Spec => []NameInv
  BY <1>0, NamesKept
<1> QED
  BY <1>0, <1>1, <1>2, <1>3, <1>4, BaseCorrect, PTL DEF Spec
=============================================================================
