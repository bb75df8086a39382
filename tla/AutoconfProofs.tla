--------------------------- MODULE AutoconfProofs ---------------------------
(***************************************************************************)
(* Proofs about Autoconf: it uses the secret store as SecretStore allows,  *)
(* so that the theorems about the store hold beside it; and whatever       *)
(* earlier runs did, nothing recorded is forgotten or mounted twice, and a *)
(* run that succeeds has configured everything.  For every number of       *)
(* processes, secrets, dot files, features and ports.                      *)
(***************************************************************************)
EXTENDS Autoconf, SecretStoreProofs, SequenceTheorems, FiniteSetTheorems

-----------------------------------------------------------------------------
(* Queues.                                                                 *)

LEMMA QueueTail ==
  ASSUME NEW S, NEW q \in Seq(S), q # <<>>
  PROVE  /\ Head(q) \in Range(q) /\ Head(q) \in S
         /\ Tail(q) \in Seq(S)
         /\ Range(q) = {Head(q)} \cup Range(Tail(q))
<1>1. /\ Tail(q) \in Seq(S)
      /\ Len(q) \in Nat \ {0} /\ Len(Tail(q)) = Len(q) - 1
      /\ DOMAIN q = 1..Len(q) /\ DOMAIN Tail(q) = 1..Len(Tail(q))
      /\ \A i \in 1..Len(Tail(q)) : Tail(q)[i] = q[i + 1]
      /\ Head(q) = q[1]
  BY HeadTailProperties, EmptySeq, LenProperties
<1>2. Range(q) \subseteq {Head(q)} \cup Range(Tail(q))
  <2> SUFFICES ASSUME NEW i \in 1..Len(q) PROVE q[i] \in {Head(q)} \cup Range(Tail(q))
    BY <1>1 DEF Range
  <2>1. CASE i = 1
    BY <1>1, <2>1
  <2>2. CASE i # 1
    <3>1. i - 1 \in DOMAIN Tail(q) /\ Tail(q)[i - 1] = q[i]
      BY <1>1, <2>2
    <3> QED
      BY <3>1 DEF Range
  <2> QED
    BY <2>1, <2>2
<1>3. {Head(q)} \cup Range(Tail(q)) \subseteq Range(q)
  <2>1. Head(q) \in Range(q)
    BY <1>1 DEF Range
  <2>2. \A i \in DOMAIN Tail(q) : i + 1 \in DOMAIN q /\ Tail(q)[i] = q[i + 1]
    BY <1>1
  <2> QED
    BY <2>1, <2>2 DEF Range
<1> QED
  BY <1>1, <1>2, <1>3, HeadTailProperties

LEMMA QueueAppend ==
  ASSUME NEW S, NEW q \in Seq(S), NEW e \in S
  PROVE  /\ Append(q, e) \in Seq(S)
         /\ Range(Append(q, e)) = Range(q) \cup {e}
<1>1. /\ Append(q, e) = q \o <<e>>
      /\ <<e>> \in Seq(S)
  BY AppendIsConcat
<1>2. Range(<<e>>) = {e}
  BY DEF Range
<1>3. Range(q \o <<e>>) = Range(q) \cup Range(<<e>>)
  BY <1>1, RangeConcatenation
<1> QED
  BY <1>1, <1>2, <1>3, AppendProperties

LEMMA EmptyRange == Range(<<>>) = {}
  BY DEF Range

\* SetToSeq has every element of the set.
LEMMA SequenceOfSet ==
  ASSUME NEW S, IsFiniteSet(S)
  PROVE  SetToSeq(S) \in Seq(S) /\ Range(SetToSeq(S)) = S
<1> DEFINE n == Cardinality(S)
           f == SetToSeq(S)
<1>1. n \in Nat /\ IsFiniteSet(1..n) /\ Cardinality(1..n) = n
  BY FS_CardinalityType, FS_Interval
<1>2. ExistsBijection(1..n, S)
  BY FS_CardinalityType
<1>3. \E g \in [1..n -> S] : IsInjective(g)
  BY <1>2 DEF ExistsBijection, Bijection, Injection
<1>4. f \in [1..n -> S] /\ IsInjective(f)
  BY <1>3 DEF SetToSeq
<1>5. f \in Surjection(1..n, S)
  BY <1>1, <1>4, FS_Injection DEF Injection
<1>6. f \in Seq(S)
  BY <1>1, <1>4, IsASeq
<1>7. Range(f) = S
  BY <1>4, <1>5 DEF Range, Surjection
<1> QED
  BY <1>6, <1>7

LEMMA ItemSequences ==
  /\ Secrets \in Seq(Range(Secrets)) /\ Range(Secrets) \subseteq Names
  /\ Vertex \in Seq(Range(Vertex))
<1> QED
  BY AutoconfAssumption, SeqOfRange, RangeOfSeq

LEMMA NewPortsQueue ==
  ASSUME NEW S, NewPorts = SetToSeq(Ports \ S)
  PROVE  NewPorts \in Seq(Ports) /\ Range(NewPorts) = Ports \ S
<1>1. IsFiniteSet(Ports \ S)
  BY AutoconfAssumption, FS_Subset
<1> QED
  BY <1>1, SequenceOfSet, SeqMonotonic

-----------------------------------------------------------------------------
(* The invariant.                                                          *)

Adding == step \in {"read", "truncate", "write"}

\* The stage tells which steps there are, and what is in the queue.
StageInv ==
    /\ step = "get" => stage \in {"filter", "secrets"}
    /\ step = "create" => stage = "secrets"
    /\ step = "next" => stage \notin {"vertex", "ports"}
    /\ step = "target" => stage \in {"secrets", "homes"}
    /\ Adding => stage \notin {"off", "filter"}
    /\ step \notin {"next", "read"} => queue # <<>>
    /\ stage \in {"filter", "secrets"} => queue \in Seq(Range(Secrets))
    /\ stage \in {"secrets", "homes"} /\ Adding => target # "agent"
    /\ stage \in {"features", "ports"} => target = "local"

\* While a run lasts that no other process disturbs, the runner is alone in the
\* store, only to get or to create the secret at the head of the queue.  When
\* the file is torn, the runner is writing it, or failed to, or has not read it.
InStore(n) == n \in NamesIn(secrets) /\ keychain[n] # NoValue

Failed == pc[Runner] = "idle" /\ result[Runner] = "error"

TornCause ==
    \/ Secrets = <<>>
    \/ stage = "filter" /\ queue # <<>> /\ (step = "next" \/ pc[Runner] = "load" \/ Failed)
    \/ step = "create" /\ (pc[Runner] = "write" \/ Failed)

StoreInv ==
    stage # "off" /\ ~disturbed =>
        /\ torn => TornCause
        /\ overlap = {}
        /\ \A p \in Procs \ {Runner} : pc[p] = "idle"
        /\ Alone
        /\ pc[Runner] # "idle" =>
              /\ step \in {"get", "create"}
              /\ op[Runner] = step
              /\ arg[Runner].name = Head(queue)
        /\ pc[Runner] = "fetch" => Head(queue) \in NamesIn(secrets)
        /\ step \in {"get", "create"} /\ pc[Runner] = "idle" /\ result[Runner] = "ok"
              => InStore(Head(queue))

\* While a run lasts, a file is whole unless it is being written, and what will
\* be written is what the file recorded.
FilesInv ==
    stage # "off" =>
        /\ \A f \in {"projects", "workspace"} :
              size[f] = "whole" \/ (step = "write" /\ f = FileOf(target))
        /\ step \in {"truncate", "write"} =>
              \A t \in Targets : FileOf(t) = FileOf(target) => loaded[t] = conf[t]

BaseInv == AutoconfTypeOK /\ StageInv /\ OverlapInv /\ StoreInv /\ FilesInv

\* What the stages of a run with --yes leave behind.
Configured(n) == InStore(n) /\ Referenced(n)

Recorded(x) == \E t \in Targets : x \in conf[t]

SecretsInv ==
    ~disturbed =>
        /\ stage = "filter" =>
              \A n \in Range(Secrets) : n \in Range(queue) \cup Range(needs) \/ Configured(n)
        /\ stage = "secrets" /\ yes =>
              \A n \in Range(Secrets) : n \in Range(queue) \/ Configured(n)
        /\ stage = "secrets" /\ (step = "target" \/ Adding) => InStore(Head(queue))
        /\ stage \in {"vertex", "homes", "features", "ports"} /\ yes =>
              \A n \in Range(Secrets) : Configured(n)

ItemsInv ==
    /\ stage = "homes" /\ yes =>
          \A x \in Range(HomeFiles) : x \in Range(queue) \/ Recorded(x)
    /\ stage \in {"features", "ports"} /\ yes =>
          \A x \in Range(HomeFiles) : Recorded(x)
    /\ stage = "features" /\ yes =>
          \A x \in Range(Features) : x \in Range(queue) \/ x \in conf["local"]
    /\ stage = "ports" /\ yes =>
          /\ Range(Features) \subseteq conf["local"]
          /\ \A x \in Ports : x \in Range(queue) \/ x \in conf["local"]

ProgressInv == SecretsInv /\ ItemsInv

\* Dot files are in the queue of their own stage, and the one that is being
\* recorded is recorded nowhere yet.
MountInv ==
    /\ MountedOnce
    /\ conf["agent"] \cap Range(HomeFiles) = {}
    /\ stage = "homes" => Range(queue) \subseteq Range(HomeFiles)
    /\ stage # "homes" => Range(queue) \cap Range(HomeFiles) = {}
    /\ stage = "homes" /\ (step = "target" \/ Adding) =>
          \A t \in Targets : Head(queue) \notin conf[t]

-----------------------------------------------------------------------------
(* The store.  Every step of autoconf is a step of SecretStore or leaves    *)
(* the store alone.                                                        *)

LEMMA RunnerRecord ==
  ASSUME AutoconfTypeOK, StageInv, stage \in {"filter", "secrets"}, queue # <<>>
  PROVE  /\ [name |-> Head(queue), for |-> AnyValue] \in Record
         /\ [name |-> Head(queue), for |-> Env[Head(queue)]] \in Record
<1>1. Head(queue) \in Range(Secrets) /\ Head(queue) \in Names
  BY QueueTail, ItemSequences DEF StageInv
<1>2. AnyValue \in Values
  BY StoreAssumption DEF AnyValue
<1> QED
  BY <1>1, <1>2, AutoconfAssumption DEF Record

LEMMA AskIsCall ==
  ASSUME AutoconfTypeOK, StageInv, FilterGet \/ SecretGet
  PROVE  \E r \in Record : Call(Runner, "get", r) /\ r.name = Head(queue)
<1>1. stage \in {"filter", "secrets"} /\ queue # <<>> /\ \E label : Ask(label)
  BY DEF FilterGet, SecretGet
<1> QED
  BY <1>1, RunnerRecord DEF Ask

LEMMA CreateIsCall ==
  ASSUME AutoconfTypeOK, StageInv, SecretCreate
  PROVE  \E r \in Record : Call(Runner, "create", r) /\ r.name = Head(queue)
<1>1. stage = "secrets" /\ queue # <<>>
  BY DEF SecretCreate, StageInv
<1> QED
  BY <1>1, RunnerRecord DEF SecretCreate

LEMMA UsesStore ==
  ASSUME AutoconfTypeOK, StageInv, [AutoconfNext]_allVars
  PROVE  [Next]_vars
<1>1. CASE FilterGet \/ SecretGet
  BY <1>1, AskIsCall, AutoconfAssumption DEF Next, Ops
<1>2. CASE SecretCreate
  BY <1>2, CreateIsCall, AutoconfAssumption DEF Next, Ops
<1>3. CASE Die
  BY <1>3, AutoconfAssumption DEF Die, Next
<1>4. CASE Others
  <2>1. AnyValue \in Values
    BY StoreAssumption DEF AnyValue
  <2>2. \A n \in Names : [name |-> n, for |-> AnyValue] \in Record
    BY <2>1 DEF Record
  <2> QED
    BY <1>4, <2>2, AutoconfAssumption DEF Others, Next, Ops
<1>5. CASE StoreStep
  BY <1>5 DEF StoreStep, Next
<1>6. CASE UNCHANGED vars
  BY <1>6
<1> QED
  BY <1>1, <1>2, <1>3, <1>4, <1>5, <1>6
  DEF AutoconfNext, RunStep, RunBegin, FilterDone, SecretFound, SecretCreated, Skip, Confirm,
      SelectTarget, AddRead, AddTruncate, AddWrite, Advance, Complete, AddFails, Idle, allVars

-----------------------------------------------------------------------------
(* Types and stages.                                                       *)

LEMMA EndTypes ==
  ASSUME AutoconfTypeOK, RunEnds, TypeOK', size' \in [Files -> {"whole", "part", "empty"}]
  PROVE  AutoconfTypeOK' /\ StageInv'
<1>1. Nothing \in [Targets -> SUBSET Items]
  BY DEF Nothing
<1>2. <<>> \in Seq(Items) /\ <<>> \in Seq(Range(Secrets))
  OBVIOUS
<1> QED
  BY <1>1, <1>2 DEF RunEnds, AutoconfTypeOK, StageInv, Stages, Steps, Targets, Adding

LEMMA NextItemTypes ==
  ASSUME AutoconfTypeOK, StageInv, NextItem, queue # <<>>
  PROVE  /\ queue' \in Seq(Items) /\ step' \in {"next", "read"}
         /\ stage \in {"filter", "secrets"} => queue' \in Seq(Range(Secrets))
         /\ step' = "next" => stage \notin {"vertex", "ports"}
         /\ step' = "read" => stage \in {"vertex", "ports"}
<1>1. queue' = Tail(queue) /\ Tail(queue) \in Seq(Items)
  BY QueueTail DEF NextItem, AutoconfTypeOK
<1>2. stage \in {"filter", "secrets"} => queue' \in Seq(Range(Secrets))
  BY <1>1, QueueTail DEF StageInv
<1> QED
  BY <1>1, <1>2 DEF NextItem

LEMMA TornType ==
  ASSUME AutoconfTypeOK, Torn
  PROVE  size' \in [Files -> {"whole", "part", "empty"}]
  BY DEF AutoconfTypeOK, Torn

\* What a stage can have in its queue.
LEMMA StageQueues ==
  /\ \A q \in Seq(Range(Secrets)) : q \in Seq(Items)
  /\ Vertex \in Seq(Items) /\ HomeFiles \in Seq(Items) /\ Features \in Seq(Items)
  /\ NewPorts \in Seq(Items) /\ <<>> \in Seq(Items)
<1>1. \A q \in Seq(Range(Secrets)) : q \in Seq(Items)
  BY SeqMonotonic, Range(Secrets) \subseteq Items DEF Items
<1>2. Vertex \in Seq(Items)
  BY ItemSequences, SeqMonotonic, Range(Vertex) \subseteq Items DEF Items
<1>3. HomeFiles \in Seq(Items)
  BY AutoconfAssumption, SeqMonotonic, Range(HomeFiles) \subseteq Items DEF Items
<1>4. Features \in Seq(Items)
  BY AutoconfAssumption, SeqMonotonic, Range(Features) \subseteq Items DEF Items
<1>5. NewPorts \in Seq(Items)
  <2>1. NewPorts \in Seq(Ports)
    BY NewPortsQueue DEF NewPorts
  <2> QED
    BY <2>1, SeqMonotonic, Ports \subseteq Items DEF Items
<1> QED
  BY <1>1, <1>2, <1>3, <1>4, <1>5

LEMMA AdvanceTypes ==
  ASSUME AutoconfTypeOK, StageInv, Advance
  PROVE  AutoconfTypeOK' /\ StageInv'
<1> USE DEF Advance, AutoconfTypeOK, StageInv, Stages, Steps, Targets, Adding
<1>1. TypeOK'
  BY DEF vars, TypeOK
<1>2. CASE ToSecrets /\ UNCHANGED target
  <2>1. queue' \in Seq(Range(Secrets)) /\ queue' \in Seq(Items) /\ needs' \in Seq(Range(Secrets))
    BY <1>2, StageQueues DEF ToSecrets
  <2>2. AutoconfTypeOK'
    BY <1>1, <1>2, <2>1 DEF ToSecrets
  <2>3. StageInv'
    BY <1>2, <2>1 DEF ToSecrets
  <2> QED
    BY <2>2, <2>3
<1>3. CASE UNCHANGED needs /\ ToVertex
  <2>1. queue' \in Seq(Items)
    BY <1>3, StageQueues DEF ToVertex
  <2> QED
    BY <1>1, <1>3, <2>1 DEF ToVertex
<1>4. CASE UNCHANGED needs /\ (ToHomes \/ ToFeatures)
  <2>1. queue' \in Seq(Items)
    BY <1>4, StageQueues DEF ToHomes, ToFeatures
  <2>2. AutoconfTypeOK'
    BY <1>1, <1>4, <2>1 DEF ToHomes, ToFeatures
  <2>3. StageInv'
    BY <1>4, <2>1 DEF ToHomes, ToFeatures
  <2> QED
    BY <2>2, <2>3
<1>5. CASE UNCHANGED needs /\ ToPorts
  <2>1. queue' \in Seq(Items)
    BY <1>5, StageQueues DEF ToPorts
  <2> QED
    BY <1>1, <1>5, <2>1 DEF ToPorts
<1> QED
  BY <1>2, <1>3, <1>4, <1>5

LEMMA TypesNext ==
  ASSUME AutoconfTypeOK, StageInv, [AutoconfNext]_allVars
  PROVE  AutoconfTypeOK' /\ StageInv'
<1> USE DEF Stages, Steps, Targets, Files, Adding
<1>0. TypeOK'
  BY UsesStore, TypeNext DEF AutoconfTypeOK
<1>1. CASE RunBegin
  <2>1. Secrets \in Seq(Range(Secrets)) /\ Secrets \in Seq(Items) /\ <<>> \in Seq(Range(Secrets))
    BY ItemSequences, StageQueues
  <2>2. runs' \in Nat
    BY <1>1 DEF RunBegin, AutoconfTypeOK
  <2> QED
    BY <1>0, <1>1, <2>1, <2>2 DEF RunBegin, AutoconfTypeOK, StageInv
<1>2. CASE FilterGet \/ SecretGet
  BY <1>0, <1>2 DEF FilterGet, SecretGet, Ask, AutoconfTypeOK, StageInv
<1>3. CASE FilterDone
  <2>1. queue # <<>> /\ Head(queue) \in Range(Secrets)
    BY <1>3, QueueTail DEF FilterDone, StageInv
  <2>2. CASE result[Runner] = "error"
    BY <1>0, <1>3, <2>2, EndTypes DEF FilterDone, AutoconfTypeOK
  <2>3. CASE result[Runner] # "error"
    <3> needs \in Seq(Range(Secrets))
      BY DEF AutoconfTypeOK
    <3>0. Append(needs, Head(queue)) \in Seq(Range(Secrets))
      BY <2>1, QueueAppend
    <3>1. needs' \in Seq(Range(Secrets))
      BY <1>3, <2>3, <3>0 DEF FilterDone
    <3> QED
      BY <1>0, <1>3, <2>1, <2>3, <3>1, NextItemTypes DEF FilterDone, AutoconfTypeOK, StageInv
  <2> QED
    BY <2>2, <2>3
<1>4. CASE SecretFound \/ SecretCreated
  <2>1. CASE result[Runner] = "ok"
    BY <1>0, <1>4, <2>1 DEF SecretFound, SecretCreated, AutoconfTypeOK, StageInv
  <2>2. CASE result[Runner] # "ok"
    BY <1>0, <1>4, <2>2, EndTypes DEF SecretFound, SecretCreated, AutoconfTypeOK
  <2> QED
    BY <2>1, <2>2
<1>5. CASE SecretCreate
  BY <1>0, <1>5 DEF SecretCreate, AutoconfTypeOK, StageInv
<1>6. CASE Skip
  BY <1>0, <1>6, NextItemTypes DEF Skip, AutoconfTypeOK, StageInv
<1>7. CASE Confirm \/ SelectTarget
  BY <1>0, <1>7 DEF Confirm, SelectTarget, AutoconfTypeOK, StageInv
<1>8. CASE AddRead
  <2>1. CASE Whole(target) /\ Added(Head(queue))
    BY <1>0, <1>8, <2>1, NextItemTypes DEF AddRead, AutoconfTypeOK, StageInv
  <2>2. CASE ~(Whole(target) /\ Added(Head(queue)))
    <3>1. loaded' \in [Targets -> SUBSET Items]
      BY <1>8, <2>2 DEF AddRead, Seen, AutoconfTypeOK
    <3> QED
      BY <1>0, <1>8, <2>2, <3>1 DEF AddRead, AutoconfTypeOK, StageInv
  <2> QED
    BY <2>1, <2>2
<1>9. CASE AddTruncate
  BY <1>0, <1>9 DEF AddTruncate, FileOf, AutoconfTypeOK, StageInv
<1>10. CASE AddWrite
  <2>1. queue # <<>> /\ Head(queue) \in Items
    BY <1>10, QueueTail DEF AddWrite, AutoconfTypeOK, StageInv
  <2>2. /\ conf' \in [Targets -> SUBSET Items]
        /\ loaded' \in [Targets -> SUBSET Items]
        /\ size' \in [Files -> {"whole", "part", "empty"}]
    BY <1>10, <2>1 DEF AddWrite, Nothing, AutoconfTypeOK
  <2> QED
    BY <1>0, <1>10, <2>1, <2>2, NextItemTypes DEF AddWrite, AutoconfTypeOK, StageInv
<1>11. CASE Complete
  BY <1>0, <1>11, EndTypes DEF Complete, AutoconfTypeOK
<1>12. CASE AddFails \/ Die
  BY <1>0, <1>12, EndTypes, TornType DEF AddFails, Die
<1>13. CASE StoreStep \/ Idle \/ UNCHANGED allVars
  BY <1>0, <1>13 DEF StoreStep, Idle, allVars, autoVars, AutoconfTypeOK, StageInv
<1>14. CASE Others
  <2>1. /\ UNCHANGED <<conf, size, stage, step, queue, needs, yes, target, loaded, runs>>
        /\ disturbed' \in BOOLEAN
    BY <1>14 DEF Others
  <2> QED
    BY <1>0, <2>1 DEF AutoconfTypeOK, StageInv
<1> QED
  BY <1>1, <1>2, <1>3, <1>4, <1>5, <1>6, <1>7, <1>8, <1>9, <1>10, <1>11, <1>12, <1>13, <1>14,
     AdvanceTypes
  DEF AutoconfNext, RunStep

-----------------------------------------------------------------------------
(* The runner in the store.                                                *)

LEMMA AloneStutter == ASSUME Alone, UNCHANGED vars PROVE Alone'
  BY DEF vars, Alone, Creating, Created, Removed

LEMMA AllIdleAlone == ASSUME \A p \in Procs : pc[p] = "idle" PROVE Alone
  BY DEF Alone

\* A step outside the store, which begins and ends with nobody in it.
LEMMA IdleStoreInv ==
  ASSUME TypeOK, OverlapInv, \A p \in Procs : pc[p] = "idle", UNCHANGED vars,
         step' \notin {"get", "create"},
         torn => Secrets = <<>> \/ (stage' = "filter" /\ queue' # <<>> /\ step' = "next")
  PROVE  StoreInv'
<1>1. (\A p \in Procs : pc'[p] = "idle") /\ torn' = torn /\ overlap' = overlap
  BY DEF vars
<1>2. Alone'
  BY <1>1, AllIdleAlone, AloneStutter
<1>3. overlap = {}
  BY DEF OverlapInv, TypeOK
<1> QED
  BY <1>1, <1>2, <1>3, AutoconfAssumption DEF StoreInv, TornCause

\* Only RunBegin begins an undisturbed run, and only Others ends one.
LEMMA Undisturbed ==
  ASSUME [AutoconfNext]_allVars, ~disturbed', ~RunBegin
  PROVE  ~disturbed /\ ~Others
  BY DEF AutoconfNext, RunStep, FilterGet, FilterDone, SecretGet, SecretFound, SecretCreate,
         SecretCreated, Ask, Skip, Confirm, SelectTarget, AddRead, AddTruncate, AddWrite, Advance,
         Complete, AddFails, Die, RunEnds, Others, StoreStep, Idle, allVars, autoVars

LEMMA NobodyInStore ==
  ASSUME StoreInv, stage # "off", ~disturbed, step \notin {"get", "create"} \/ pc[Runner] = "idle"
  PROVE  \A p \in Procs : pc[p] = "idle"
  BY DEF StoreInv

\* The runner's call begins.
LEMMA RunnerCall ==
  ASSUME AutoconfTypeOK, StoreInv, stage # "off", ~disturbed,
         NEW o \in {"get", "create"}, NEW r \in Record,
         Call(Runner, o, r), r.name = Head(queue), step' = o, UNCHANGED <<stage, queue>>,
         torn => Secrets = <<>> \/ (stage = "filter" /\ queue # <<>>)
  PROVE  StoreInv'
<1>1. \A p \in Procs : pc[p] = "idle"
  BY NobodyInStore DEF Call
<1>2. /\ pc' = [pc EXCEPT ![Runner] = "load"]
      /\ op' = [op EXCEPT ![Runner] = o] /\ arg' = [arg EXCEPT ![Runner] = r]
      /\ torn' = torn /\ overlap' = overlap
  BY DEF Call, Goto
<1>3. Alone'
  BY <1>1, <1>2, AutoconfAssumption DEF Alone, AutoconfTypeOK, TypeOK
<1>4. pc'[Runner] = "load"
  BY <1>2, AutoconfAssumption DEF AutoconfTypeOK, TypeOK
<1>5. torn' => TornCause'
  BY <1>2, <1>4 DEF TornCause
<1> QED
  BY <1>1, <1>2, <1>3, <1>4, <1>5, AutoconfAssumption DEF StoreInv, AutoconfTypeOK, TypeOK

\* A step of the runner's call: it keeps what is stored.
LEMMA RunnerStep ==
  ASSUME AutoconfTypeOK, StoreInv, stage # "off", ~disturbed, Step(Runner),
         UNCHANGED <<stage, step, queue>>
  PROVE  StoreInv' /\ \A n \in Names : InStore(n) => InStore(n)'
<1> DEFINE Goal ==
      /\ pc'[Runner] # "idle" =>
            /\ op'[Runner] = op[Runner] /\ arg'[Runner] = arg[Runner]
      /\ pc'[Runner] = "fetch" => arg[Runner].name \in NamesIn(secrets')
      /\ pc'[Runner] = "idle" /\ result'[Runner] = "ok" =>
            arg[Runner].name \in NamesIn(secrets') /\ keychain'[arg[Runner].name] # NoValue
      /\ \A n \in Names : InStore(n) => InStore(n)'
      /\ torn' => TornCause'
      /\ overlap' = {}
<1>0. /\ Runner \in Procs /\ TypeOK /\ Alone
      /\ pc[Runner] # "idle"
      /\ op[Runner] = step /\ step \in {"get", "create"} /\ arg[Runner].name = Head(queue)
      /\ pc[Runner] = "fetch" => arg[Runner].name \in NamesIn(secrets)
      /\ \A p \in Procs \ {Runner} : pc[p] = "idle"
      /\ torn => TornCause
      /\ overlap = {}
  BY AutoconfAssumption
  DEF AutoconfTypeOK, StoreInv, Step, LoadFails, CreateCheck, Lookup, SetValue, DeleteValue,
      Fetch, KeychainFails, Truncate, Write, SaveFails
<1>1. ASSUME LoadFails(Runner) \/ KeychainFails(Runner) \/ SaveFails(Runner) PROVE Goal
  BY <1>0, <1>1 DEF LoadFails, KeychainFails, SaveFails, Return, Leave, Goto, TypeOK, InStore, TornCause, Failed
<1>2. ASSUME CreateCheck(Runner) PROVE Goal
  BY <1>0, <1>2 DEF CreateCheck, Return, Leave, Goto, TypeOK, InStore, TornCause, Failed
<1>3. ASSUME Lookup(Runner) PROVE Goal
  BY <1>0, <1>3 DEF Lookup, Return, Leave, Goto, TypeOK, InStore, TornCause, Failed
<1>4. ASSUME SetValue(Runner) PROVE Goal
  BY <1>0, <1>4, StoreAssumption DEF SetValue, Goto, TypeOK, InStore, Record, TornCause, Failed
<1>5. ASSUME DeleteValue(Runner) PROVE FALSE
  BY <1>0, <1>5 DEF DeleteValue, Alone
<1>6. ASSUME Fetch(Runner) PROVE Goal
  BY <1>0, <1>6 DEF Fetch, Return, Leave, Goto, TypeOK, InStore, TornCause, Failed
<1>7. ASSUME Truncate(Runner) PROVE Goal
  BY <1>0, <1>7
  DEF Truncate, Goto, TypeOK, InStore, TornCause, Failed, Alone, Created, Creating, Removed
<1>8. ASSUME Write(Runner) PROVE Goal
  <2>1. Created(Runner)
    BY <1>0, <1>8 DEF Write, Alone, Removed
  <2>2. /\ secrets' = secrets \cup {arg[Runner]} /\ keychain' = keychain
        /\ keychain[arg[Runner].name] = arg[Runner].for /\ arg[Runner].for \in Values
    BY <1>0, <1>8, <2>1 DEF Write, Created, TypeOK, Record
  <2>3. \A n \in Names : InStore(n) => InStore(n)'
    BY <2>2 DEF InStore, NamesIn
  <2>4. arg[Runner].name \in NamesIn(secrets') /\ keychain'[arg[Runner].name] # NoValue
    BY <2>2, StoreAssumption DEF NamesIn
  <2> QED
    BY <1>0, <1>8, <2>3, <2>4 DEF Write, Leave, Goto, TypeOK
<1>9. Goal
  BY <1>1, <1>2, <1>3, <1>4, <1>5, <1>6, <1>7, <1>8 DEF Step
<1>10. Alone'
  BY <1>0, StepAlone
<1>11. \A p \in Procs \ {Runner} : pc'[p] = "idle"
  BY <1>0
  DEF TypeOK, Step, LoadFails, CreateCheck, Lookup, SetValue, DeleteValue,
      Fetch, KeychainFails, Truncate, Write, SaveFails, Return, Leave, Goto
<1>12. StoreInv'
  BY <1>0, <1>9, <1>10, <1>11 DEF StoreInv, InStore
<1> QED
  BY <1>9, <1>12

LEMMA StoreInvNext ==
  ASSUME AutoconfTypeOK, StageInv, OverlapInv, StoreInv, [AutoconfNext]_allVars
  PROVE  StoreInv'
<1>0. SUFFICES ASSUME stage' # "off", ~disturbed' PROVE StoreInv'
  BY DEF StoreInv
<1>t. TypeOK
  BY DEF AutoconfTypeOK
<1>1. CASE RunBegin
  BY <1>0, <1>1, <1>t, IdleStoreInv DEF RunBegin
<1>u. ASSUME ~RunBegin PROVE ~disturbed /\ ~Others
  BY <1>0, <1>u, Undisturbed
<1>q. stage \in {"filter", "secrets"} /\ queue # <<>> => Secrets # <<>>
  BY EmptyRange, QueueTail DEF StageInv
<1>2. CASE FilterGet \/ SecretGet
  <2>1. stage # "off" /\ step' = "get" /\ UNCHANGED <<stage, queue>> /\ step = "next" /\ queue # <<>>
    BY <1>2 DEF FilterGet, SecretGet, Ask
  <2>2. ~RunBegin
    BY <2>1 DEF RunBegin
  <2>3. torn => Secrets = <<>> \/ (stage = "filter" /\ queue # <<>>)
    BY <1>u, <2>1, <2>2 DEF StoreInv, TornCause
  <2> QED
    BY <1>2, <1>u, <2>1, <2>2, <2>3, AskIsCall, RunnerCall
<1>3. CASE SecretCreate
  <2>1. /\ stage = "secrets" /\ step' = "create" /\ UNCHANGED <<stage, queue>>
        /\ step = "get"
    BY <1>3 DEF SecretCreate
  <2>2. ~RunBegin
    BY <2>1 DEF RunBegin
  <2>3. torn => Secrets = <<>>
    BY <1>u, <2>1, <2>2 DEF StoreInv, TornCause
  <2> QED
    BY <1>3, <1>u, <2>1, <2>2, <2>3, CreateIsCall, RunnerCall
<1>4. CASE FilterDone \/ SecretFound \/ SecretCreated
  <2>1. stage # "off" /\ pc[Runner] = "idle" /\ UNCHANGED vars /\ step' \notin {"get", "create"}
    BY <1>4 DEF FilterDone, SecretFound, SecretCreated, Answered, NextItem, RunEnds, StageInv
  <2>2. ~RunBegin
    BY <2>1 DEF RunBegin
  <2>3. result[Runner] # "error" /\ step \in {"get", "create"}
    BY <1>0, <1>4 DEF FilterDone, SecretFound, SecretCreated, RunEnds
  <2>4. torn => Secrets = <<>>
    BY <1>u, <2>1, <2>2, <2>3 DEF StoreInv, TornCause, Failed
  <2> QED
    BY <1>t, <1>u, <2>1, <2>2, <2>4, NobodyInStore, IdleStoreInv
<1>5. CASE \/ Skip \/ Confirm \/ SelectTarget \/ AddRead \/ AddTruncate \/ AddWrite
           \/ Advance
  <2>1. /\ stage # "off" /\ step \notin {"get", "create"} /\ UNCHANGED vars
        /\ step' \notin {"get", "create"}
    BY <1>0, <1>5
    DEF Skip, Confirm, SelectTarget, AddRead, AddTruncate, AddWrite, Advance, NextItem, StageInv,
        ToSecrets, ToVertex, ToHomes, ToFeatures, ToPorts, Adding
  <2>2. ~RunBegin
    BY <2>1 DEF RunBegin
  <2>3. ~(stage = "filter" /\ queue # <<>>)
    BY <1>5 DEF Skip, Confirm, SelectTarget, AddRead, AddTruncate, AddWrite, Advance, StageInv, Adding
  <2>4. torn => Secrets = <<>>
    BY <1>u, <2>1, <2>2, <2>3 DEF StoreInv, TornCause
  <2> QED
    BY <1>t, <1>u, <2>1, <2>2, <2>4, NobodyInStore, IdleStoreInv
<1>6. CASE Complete \/ AddFails \/ Die
  BY <1>0, <1>6 DEF Complete, AddFails, Die, RunEnds
<1>7. CASE StoreStep
  <2>1. stage # "off" /\ ~disturbed /\ UNCHANGED <<stage, step, queue>>
    BY <1>0, <1>7 DEF StoreStep, autoVars
  <2>2. \A p \in Procs \ {Runner} : ~Step(p) /\ ~Crash(p)
    BY <2>1
    DEF StoreInv, Step, LoadFails, CreateCheck, Lookup, SetValue, DeleteValue,
        Fetch, KeychainFails, Truncate, Write, SaveFails, Crash
  <2> QED
    BY <1>7, <2>1, <2>2, RunnerStep DEF StoreStep
<1>8. CASE Others
  BY <1>0, <1>8 DEF Others
<1>9. CASE Idle \/ UNCHANGED allVars
  <2>1. UNCHANGED vars /\ UNCHANGED <<stage, step, queue, disturbed>>
    BY <1>9 DEF Idle, allVars, autoVars
  <2> QED
    BY <1>0, <2>1, AloneStutter DEF StoreInv, InStore, TornCause, Failed, vars
<1> QED
  BY <1>1, <1>2, <1>3, <1>4, <1>5, <1>6, <1>7, <1>8, <1>9 DEF AutoconfNext, RunStep

-----------------------------------------------------------------------------
(* The files.                                                              *)

LEMMA FilesInvNext ==
  ASSUME AutoconfTypeOK, StageInv, FilesInv, [AutoconfNext]_allVars
  PROVE  FilesInv'
<1>0. SUFFICES ASSUME stage' # "off" PROVE FilesInv'
  BY DEF FilesInv
<1>1. CASE RunBegin
  BY <1>1 DEF RunBegin, Readable, Whole, FileOf, FilesInv
<1>2. CASE AddRead
  <2>1. stage # "off" /\ step = "read" /\ CanRead
    BY <1>2 DEF AddRead, StageInv, Adding
  <2>2. size["projects"] = "whole" /\ size["workspace"] = "whole"
    BY <2>1 DEF FilesInv
  <2>3. \A t \in Targets : FileOf(t) = FileOf(target) => Seen(t) = conf[t]
    BY <2>1, <2>2
    DEF CanRead, ReadsProjects, ReadsAgents, ReadsWorkspace, Seen, Whole, FileOf, Targets
  <2> QED
    BY <1>2, <2>2, <2>3 DEF AddRead, FilesInv, NextItem
<1>3. CASE AddTruncate
  BY <1>3 DEF AddTruncate, FilesInv, StageInv, Adding, AutoconfTypeOK, Files, FileOf, Targets
<1>4. CASE AddWrite
  <2>1. /\ stage # "off" /\ step' \notin {"truncate", "write"}
        /\ size' = [size EXCEPT ![FileOf(target)] = "whole"]
    BY <1>4 DEF AddWrite, NextItem, StageInv, Adding
  <2> QED
    BY <1>4, <2>1 DEF FilesInv, AutoconfTypeOK, Files
<1>5. CASE \/ FilterGet \/ FilterDone \/ SecretGet \/ SecretFound \/ SecretCreate \/ SecretCreated
           \/ Skip \/ Confirm \/ SelectTarget \/ Advance
  <2>1. /\ stage # "off" /\ step \notin {"truncate", "write"} /\ UNCHANGED size
        /\ step' \notin {"truncate", "write"}
    BY <1>0, <1>5
    DEF FilterGet, FilterDone, SecretGet, SecretFound, SecretCreate, SecretCreated, Ask,
        Skip, Confirm, SelectTarget, Advance, NextItem, RunEnds, StageInv, Adding,
        ToSecrets, ToVertex, ToHomes, ToFeatures, ToPorts
  <2> QED
    BY <2>1 DEF FilesInv
<1>6. CASE Complete \/ AddFails \/ Die
  BY <1>0, <1>6 DEF Complete, AddFails, Die, RunEnds
<1>7. CASE Others \/ StoreStep \/ Idle \/ UNCHANGED allVars
  BY <1>0, <1>7 DEF Others, StoreStep, Idle, allVars, autoVars, FilesInv
<1> QED
  BY <1>1, <1>2, <1>3, <1>4, <1>5, <1>6, <1>7 DEF AutoconfNext, RunStep

\* What a file recorded stays recorded.
LEMMA ConfGrows ==
  ASSUME AutoconfTypeOK, StageInv, FilesInv, [AutoconfNext]_allVars, NEW t \in Targets
  PROVE  conf[t] \subseteq conf'[t]
<1>1. CASE AddWrite
  <2>1. FileOf(t) = FileOf(target) => loaded[t] = conf[t]
    BY <1>1 DEF AddWrite, FilesInv, StageInv, Adding
  <2> QED
    BY <1>1, <2>1 DEF AddWrite, AutoconfTypeOK
<1>2. CASE UNCHANGED conf
  BY <1>2
<1> QED
  BY <1>1, <1>2
  DEF AutoconfNext, RunStep, RunBegin, FilterGet, FilterDone, SecretGet, SecretFound, SecretCreate,
      SecretCreated, Ask, Skip, Confirm, SelectTarget, AddRead, AddTruncate, Advance, Complete,
      AddFails, Die, RunEnds, Others, StoreStep, Idle, allVars, autoVars

LEMMA WriteAdds ==
  ASSUME AutoconfTypeOK, StageInv, FilesInv, AddWrite
  PROVE  /\ queue # <<>> /\ NextItem
         /\ conf' = [conf EXCEPT ![target] = @ \cup {Head(queue)}]
<1>1. stage # "off" /\ queue # <<>> /\ step = "write"
  BY DEF AddWrite, StageInv, Adding
<1>2. \A t \in Targets : FileOf(t) = FileOf(target) => loaded[t] = conf[t]
  BY <1>1 DEF FilesInv
<1>3. conf' = [t \in Targets |->
                  IF t = target THEN conf[t] \cup {Head(queue)} ELSE conf[t]]
  BY <1>2 DEF AddWrite, AutoconfTypeOK
<1> QED
  BY <1>1, <1>3 DEF AddWrite, AutoconfTypeOK

-----------------------------------------------------------------------------
(* What a run configures.                                                  *)

\* During a run a secret that is stored stays stored, and what is referenced
\* stays referenced.
LEMMA StoredGrows ==
  ASSUME AutoconfTypeOK, StageInv, StoreInv, [AutoconfNext]_allVars,
         stage # "off", stage' # "off", ~disturbed, ~disturbed', NEW n \in Names, InStore(n)
  PROVE  InStore(n)'
<1>1. CASE StoreStep
  <2>1. UNCHANGED <<stage, step, queue>>
    BY <1>1 DEF StoreStep, autoVars
  <2>2. \A p \in Procs \ {Runner} : ~Step(p) /\ ~Crash(p)
    BY DEF StoreInv, Step, LoadFails, CreateCheck, Lookup, SetValue, DeleteValue,
           Fetch, KeychainFails, Truncate, Write, SaveFails, Crash
  <2> QED
    BY <1>1, <2>1, <2>2, RunnerStep DEF StoreStep
<1>2. CASE UNCHANGED <<secrets, keychain>>
  BY <1>2 DEF InStore
<1> QED
  BY <1>1, <1>2
  DEF AutoconfNext, RunStep, RunBegin, FilterGet, FilterDone, SecretGet, SecretFound, SecretCreate,
      SecretCreated, Ask, Call, Skip, Confirm, SelectTarget, AddRead, AddTruncate, AddWrite, Advance,
      Complete, AddFails, Die, RunEnds, Others, Idle, allVars, vars

LEMMA ConfiguredGrows ==
  ASSUME BaseInv, [AutoconfNext]_allVars,
         stage # "off", stage' # "off", ~disturbed, ~disturbed',
         NEW n \in Range(Secrets), Configured(n)
  PROVE  Configured(n)'
<1>1. InStore(n)'
  BY StoredGrows, ItemSequences DEF BaseInv, Configured
<1>2. \A t \in Targets : conf[t] \subseteq conf'[t]
  BY ConfGrows DEF BaseInv
<1> QED
  BY <1>1, <1>2 DEF Configured, Referenced, Targets

\* A step that stays at the item h.
LEMMA SecretsSame ==
  ASSUME BaseInv, SecretsInv, [AutoconfNext]_allVars, NEW h, h = Head(queue),
         stage # "off", UNCHANGED <<stage, queue, needs, yes>>,
         stage = "secrets" /\ (step' = "target" \/ Adding') => InStore(h)'
  PROVE  SecretsInv'
<1>u. SUFFICES ASSUME ~disturbed' PROVE SecretsInv'
  BY DEF SecretsInv
<1>v. ~disturbed
  BY <1>u, Undisturbed DEF RunBegin
<1>1. \A n \in Range(Secrets) : Configured(n) => Configured(n)'
  BY <1>u, <1>v, ConfiguredGrows
<1>2. Head(queue') = h
  OBVIOUS
<1> QED
  BY <1>v, <1>1, <1>2 DEF SecretsInv, InStore

\* A step that is done with the item h.
LEMMA SecretsItemDone ==
  ASSUME BaseInv, SecretsInv, [AutoconfNext]_allVars, NEW h, h = Head(queue),
         NextItem, queue # <<>>, UNCHANGED <<stage, yes>>, stage \notin {"off", "filter"},
         stage = "secrets" /\ yes => Configured(h)'
  PROVE  SecretsInv'
<1>u. SUFFICES ASSUME ~disturbed' PROVE SecretsInv'
  BY DEF SecretsInv
<1>v. ~disturbed
  BY <1>u, Undisturbed DEF RunBegin
<1>1. \A n \in Range(Secrets) : Configured(n) => Configured(n)'
  BY <1>u, <1>v, ConfiguredGrows
<1>2. Range(queue) = {h} \cup Range(queue')
  BY QueueTail DEF NextItem, BaseInv, AutoconfTypeOK
<1>3. stage = "secrets" => step' = "next"
  BY DEF NextItem
<1> QED
  BY <1>v, <1>1, <1>2, <1>3 DEF SecretsInv, Adding

LEMMA SecretsNext ==
  ASSUME BaseInv, SecretsInv, [AutoconfNext]_allVars
  PROVE  SecretsInv'
<1>0. SUFFICES ASSUME stage' # "off", ~disturbed' PROVE SecretsInv'
  BY DEF SecretsInv
<1>h. PICK x : x = Head(queue)
  OBVIOUS
<1>u. stage # "off" => ~disturbed
  BY <1>0, Undisturbed DEF RunBegin
<1>g. ASSUME stage # "off" PROVE \A n \in Range(Secrets) :
         /\ Configured(n) => Configured(n)'
         /\ InStore(n) => InStore(n)'
  BY <1>0, <1>g, <1>u, ConfiguredGrows, StoredGrows, ItemSequences DEF BaseInv
<1>1. CASE RunBegin
  BY <1>1 DEF RunBegin, SecretsInv
<1>2. CASE FilterDone
  <2>1. /\ stage = "filter" /\ stage' = "filter" /\ queue # <<>> /\ queue' = Tail(queue)
        /\ \/ needs' = Append(needs, x)
           \/ needs' = needs /\ Configured(x)
    BY <1>0, <1>2, <1>h, <1>u
    DEF FilterDone, NextItem, RunEnds, BaseInv, StageInv, StoreInv, Answered, Configured
  <2>2. /\ Range(queue) = {x} \cup Range(queue')
        /\ x \in Range(Secrets)
    BY <1>h, <2>1, QueueTail DEF BaseInv, StageInv
  <2>3. Range(Append(needs, x)) = Range(needs) \cup {x}
    BY <2>2, QueueAppend DEF BaseInv, AutoconfTypeOK
  <2>4. \A n \in Range(Secrets) : Configured(n) => Configured(n)'
    BY <1>g, <2>1
  <2> QED
    BY <1>u, <2>1, <2>2, <2>3, <2>4 DEF SecretsInv
<1>3. CASE FilterGet \/ SecretGet \/ SecretCreate
  <2>1. /\ stage # "off" /\ UNCHANGED <<stage, queue, needs, yes>>
        /\ step' \in {"get", "create"}
    BY <1>3 DEF FilterGet, SecretGet, SecretCreate, Ask
  <2> QED
    BY <1>h, <2>1, SecretsSame DEF Adding
<1>4. CASE SecretFound \/ SecretCreated
  <2>1. /\ stage = "secrets" /\ UNCHANGED <<stage, queue, needs, yes, vars>>
        /\ pc[Runner] = "idle" /\ result[Runner] = "ok" /\ step \in {"get", "create"}
    BY <1>0, <1>4 DEF SecretFound, SecretCreated, RunEnds, Answered, BaseInv, StageInv
  <2>2. InStore(x)'
    BY <1>h, <1>u, <2>1 DEF BaseInv, StoreInv, InStore, vars
  <2> QED
    BY <1>h, <2>1, <2>2, SecretsSame
<1>5. CASE Skip
  <2>1. NextItem /\ queue # <<>> /\ UNCHANGED <<stage, yes>> /\ stage \notin {"off", "filter"}
        /\ (stage = "secrets" => ~yes)
    BY <1>5 DEF Skip, BaseInv, StageInv
  <2> QED
    BY <1>h, <2>1, SecretsItemDone
<1>6. CASE Confirm \/ SelectTarget \/ AddTruncate
  <2>1. /\ stage # "off" /\ UNCHANGED <<stage, queue, needs, yes, secrets, keychain>>
        /\ stage = "secrets" => step = "target" \/ Adding
    BY <1>6 DEF Confirm, SelectTarget, AddTruncate, BaseInv, StageInv, Adding, vars
  <2>2. stage = "secrets" => InStore(x)'
    BY <1>h, <1>u, <2>1 DEF SecretsInv, InStore
  <2> QED
    BY <1>h, <2>1, <2>2, SecretsSame
<1>7. CASE AddRead
  <2>1. /\ stage \notin {"off", "filter"} /\ queue # <<>> /\ Adding
        /\ UNCHANGED <<stage, yes, needs, conf, secrets, keychain>>
    BY <1>7 DEF AddRead, BaseInv, StageInv, Adding, vars
  <2>2. stage = "secrets" => InStore(x) /\ InStore(x)'
    BY <1>h, <1>u, <2>1 DEF SecretsInv, InStore
  <2>3. CASE Whole(target) /\ Added(Head(queue))
    <3>1. stage = "secrets" => Referenced(x)
      BY <1>h, <2>1, <2>3 DEF Added, BaseInv, StageInv, AutoconfTypeOK, Referenced, Targets
    <3>2. stage = "secrets" => Configured(x)'
      BY <2>1, <2>2, <3>1 DEF Configured, Referenced
    <3>3. NextItem
      BY <1>7, <2>3 DEF AddRead
    <3> QED
      BY <1>h, <2>1, <3>2, <3>3, SecretsItemDone
  <2>4. CASE ~(Whole(target) /\ Added(Head(queue)))
    BY <1>h, <1>7, <2>1, <2>2, <2>4, SecretsSame DEF AddRead
  <2> QED
    BY <2>3, <2>4
<1>8. CASE AddWrite
  <2>1. /\ stage \notin {"off", "filter"} /\ Adding
        /\ UNCHANGED <<stage, yes, secrets, keychain>>
    BY <1>8 DEF AddWrite, BaseInv, StageInv, Adding, vars
  <2>2. /\ queue # <<>> /\ NextItem
        /\ conf' = [conf EXCEPT ![target] = @ \cup {x}]
    BY <1>h, <1>8, WriteAdds DEF BaseInv
  <2>3. stage = "secrets" => InStore(x)'
    BY <1>h, <1>u, <2>1 DEF SecretsInv, InStore
  <2>4. stage = "secrets" => x \in conf'[target] /\ target \in {"global", "project", "local"}
    BY <2>1, <2>2 DEF BaseInv, StageInv, AutoconfTypeOK, Targets
  <2>5. stage = "secrets" => Configured(x)'
    BY <2>3, <2>4 DEF Configured, Referenced
  <2> QED
    BY <1>h, <2>1, <2>2, <2>5, SecretsItemDone
<1>9. CASE Advance
  <2>1. stage # "off" /\ queue = <<>> /\ UNCHANGED yes
    BY <1>9 DEF Advance, ToSecrets, ToVertex, ToHomes, ToFeatures, ToPorts
  <2>2. \A n \in Range(Secrets) : Configured(n) => Configured(n)'
    BY <1>g, <2>1
  <2>3. CASE ToSecrets
    BY <1>u, <2>1, <2>2, <2>3, EmptyRange DEF SecretsInv, ToSecrets, Adding
  <2>4. CASE ToVertex \/ ToHomes \/ ToFeatures \/ ToPorts
    BY <1>u, <2>1, <2>2, <2>4, EmptyRange DEF SecretsInv, ToVertex, ToHomes, ToFeatures, ToPorts
  <2> QED
    BY <1>9, <2>3, <2>4 DEF Advance
<1>10. CASE Complete \/ AddFails \/ Die
  BY <1>0, <1>10 DEF Complete, AddFails, Die, RunEnds
<1>11. CASE Others \/ Idle
  BY <1>0, <1>11 DEF Others, Idle, allVars, autoVars
<1>12. CASE StoreStep
  <2>1. stage # "off" /\ UNCHANGED <<stage, queue, needs, yes, step, conf>>
    BY <1>0, <1>12 DEF StoreStep, autoVars
  <2>2. step \in {"get", "create"}
    BY <1>u, <1>12, <2>1
    DEF BaseInv, StoreInv, StoreStep, Step, LoadFails, CreateCheck, Lookup, SetValue, DeleteValue,
        Fetch, KeychainFails, Truncate, Write, SaveFails, Crash
  <2> QED
    BY <1>h, <2>1, <2>2, SecretsSame DEF Adding
<1>13. CASE UNCHANGED allVars
  BY <1>13 DEF allVars, autoVars, vars, SecretsInv, Configured, InStore, Referenced, Adding
<1> QED
  BY <1>1, <1>2, <1>3, <1>4, <1>5, <1>6, <1>7, <1>8, <1>9, <1>10, <1>11, <1>12, <1>13
  DEF AutoconfNext, RunStep

\* A step that stays at an item, or leaves the command alone.
LEMMA ItemsSame ==
  ASSUME BaseInv, ItemsInv, [AutoconfNext]_allVars, UNCHANGED <<stage, queue, yes>>
  PROVE  ItemsInv'
<1>1. \A t \in Targets : conf[t] \subseteq conf'[t]
  BY ConfGrows DEF BaseInv
<1> QED
  BY <1>1 DEF ItemsInv, Recorded, Targets

\* A step that is done with the item h.
LEMMA ItemsItemDone ==
  ASSUME BaseInv, ItemsInv, [AutoconfNext]_allVars, NEW h, h = Head(queue),
         NextItem, queue # <<>>, UNCHANGED <<stage, yes>>,
         stage = "homes" /\ yes => \E t \in Targets : h \in conf'[t],
         stage \in {"features", "ports"} /\ yes => h \in conf'["local"]
  PROVE  ItemsInv'
<1>1. \A t \in Targets : conf[t] \subseteq conf'[t]
  BY ConfGrows DEF BaseInv
<1>2. Range(queue) = {h} \cup Range(queue')
  BY QueueTail DEF NextItem, BaseInv, AutoconfTypeOK
<1> QED
  BY <1>1, <1>2 DEF ItemsInv, Recorded, Targets

LEMMA ItemsNext ==
  ASSUME BaseInv, ItemsInv, [AutoconfNext]_allVars
  PROVE  ItemsInv'
<1>0. SUFFICES ASSUME stage' \notin {"off", "filter", "secrets", "vertex"} PROVE ItemsInv'
  BY DEF ItemsInv
<1>h. PICK x : x = Head(queue)
  OBVIOUS
<1>t. BaseInv => target \in Targets
  BY DEF BaseInv, AutoconfTypeOK
<1>1. CASE RunBegin \/ FilterDone
  BY <1>0, <1>1 DEF RunBegin, FilterDone, RunEnds
<1>2. CASE UNCHANGED <<stage, queue, yes>>
  BY <1>2, ItemsSame
<1>3. CASE Skip
  <2>1. NextItem /\ queue # <<>> /\ UNCHANGED <<stage, yes, conf>>
    BY <1>3 DEF Skip
  <2>2. yes => stage \in {"homes", "features"} /\ Known(x)
    BY <1>h, <1>3 DEF Skip
  <2>3. /\ stage = "homes" /\ yes => \E t \in Targets : x \in conf'[t]
        /\ stage \in {"features", "ports"} /\ yes => x \in conf'["local"]
    BY <2>1, <2>2 DEF Known, Seen, Targets
  <2> QED
    BY <1>h, <2>1, <2>3, ItemsItemDone
<1>4. CASE AddRead /\ Whole(target) /\ Added(Head(queue))
  <2>1. NextItem /\ queue # <<>> /\ UNCHANGED <<stage, yes, conf>> /\ x \in conf[target] /\ Adding
    BY <1>h, <1>4 DEF AddRead, Added, Adding
  <2>2. stage \in {"features", "ports"} => target = "local"
    BY <2>1 DEF BaseInv, StageInv
  <2> QED
    BY <1>h, <1>t, <2>1, <2>2, ItemsItemDone
<1>5. CASE AddWrite
  <2>1. /\ NextItem /\ queue # <<>> /\ UNCHANGED <<stage, yes>> /\ Adding
        /\ conf' = [conf EXCEPT ![target] = @ \cup {x}]
    BY <1>h, <1>5, WriteAdds DEF BaseInv, AddWrite, Adding
  <2>2. stage \in {"features", "ports"} => target = "local"
    BY <2>1 DEF BaseInv, StageInv
  <2>3. x \in conf'[target]
    BY <1>t, <2>1 DEF BaseInv, AutoconfTypeOK
  <2> QED
    BY <1>h, <1>t, <2>1, <2>2, <2>3, ItemsItemDone
<1>6. CASE Advance
  <2>1. queue = <<>> /\ UNCHANGED <<yes, conf>>
    BY <1>6 DEF Advance
  <2>2. CASE ToSecrets \/ ToVertex
    BY <1>0, <2>2 DEF ToSecrets, ToVertex
  <2>3. CASE ToHomes
    BY <2>3 DEF ToHomes, ItemsInv
  <2>4. CASE ToFeatures
    BY <2>1, <2>4, EmptyRange DEF ToFeatures, ItemsInv, Recorded
  <2>5. CASE ToPorts
    <3>1. Range(NewPorts) = Ports \ Seen("local")
      BY NewPortsQueue DEF NewPorts
    <3>2. Seen("local") \subseteq conf["local"]
      BY DEF Seen
    <3> QED
      BY <2>1, <2>5, <3>1, <3>2, EmptyRange DEF ToPorts, ItemsInv, Recorded
  <2> QED
    BY <1>6, <2>2, <2>3, <2>4, <2>5 DEF Advance
<1>7. CASE Complete \/ AddFails \/ Die
  BY <1>0, <1>7 DEF Complete, AddFails, Die, RunEnds
<1> QED
  BY <1>0, <1>1, <1>2, <1>3, <1>4, <1>5, <1>6, <1>7
  DEF AutoconfNext, RunStep, FilterGet, SecretGet, SecretFound, SecretCreate, SecretCreated, Ask,
      RunEnds, Confirm, SelectTarget, AddRead, AddTruncate, Others, StoreStep, Idle, allVars, autoVars

-----------------------------------------------------------------------------
(* Where dot files are mounted.                                            *)

LEMMA MountNext ==
  ASSUME BaseInv, MountInv, [AutoconfNext]_allVars
  PROVE  MountInv'
<1> USE DEF BaseInv
<1>h. PICK x : x = Head(queue)
  OBVIOUS
<1>e. Range(<<>>) = {}
  BY EmptyRange
<1>1. CASE /\ UNCHANGED conf
           /\ stage' = "homes" => Range(queue') \subseteq Range(HomeFiles)
           /\ stage' # "homes" => Range(queue') \cap Range(HomeFiles) = {}
           /\ stage' = "homes" => step' = "next"
  BY <1>1 DEF MountInv, MountedOnce, Adding
<1>2. CASE RunEnds
  BY <1>2, <1>1, <1>e DEF RunEnds
<1>3. CASE RunBegin
  BY <1>3, <1>1, ItemsAssumption DEF RunBegin
<1>4. ASSUME NextItem, queue # <<>>
      PROVE  Range(queue) = {x} \cup Range(queue') /\ (stage = "homes" => step' = "next")
  BY <1>h, <1>4, QueueTail DEF NextItem, AutoconfTypeOK
<1>5. CASE NextItem /\ queue # <<>> /\ UNCHANGED <<conf, stage>>
  <2>1. Range(queue') \subseteq Range(queue) /\ (stage = "homes" => step' = "next")
    BY <1>4, <1>5
  <2> QED
    BY <1>1, <1>5, <2>1 DEF MountInv
<1>6. CASE AddWrite
  <2>1. /\ NextItem /\ queue # <<>> /\ UNCHANGED stage /\ Adding
        /\ conf' = [conf EXCEPT ![target] = @ \cup {x}]
    BY <1>h, <1>6, WriteAdds DEF AddWrite, Adding
  <2>2. Range(queue) = {x} \cup Range(queue') /\ (stage = "homes" => step' = "next")
    BY <1>4, <2>1
  <2>3. CASE stage = "homes"
    <3>1. (\A t \in Targets : x \notin conf[t]) /\ target # "agent"
      BY <1>h, <2>1, <2>3 DEF MountInv, StageInv
    <3>2. MountedOnce'
      BY <2>1, <3>1 DEF MountInv, MountedOnce, AutoconfTypeOK
    <3>3. conf'["agent"] = conf["agent"]
      BY <2>1, <3>1 DEF AutoconfTypeOK
    <3> QED
      BY <2>1, <2>2, <2>3, <3>2, <3>3 DEF MountInv, Adding
  <2>4. CASE stage # "homes"
    <3>1. x \notin Range(HomeFiles)
      BY <2>2, <2>4 DEF MountInv
    <3>2. \A t \in Targets, y \in Range(HomeFiles) : y \in conf'[t] => y \in conf[t]
      BY <2>1, <3>1 DEF AutoconfTypeOK
    <3> QED
      BY <2>1, <2>2, <2>4, <3>2 DEF MountInv, MountedOnce, Targets
  <2> QED
    BY <2>3, <2>4
<1>7. CASE Advance
  <2>0. Range(queue) = {} /\ UNCHANGED conf
    BY <1>7, <1>e DEF Advance
  <2>1. CASE ToSecrets
    <3>1. Range(needs) \subseteq Range(Secrets)
      BY RangeOfSeq DEF AutoconfTypeOK
    <3> QED
      BY <1>1, <2>0, <2>1, <3>1, ItemsAssumption DEF ToSecrets
  <2>2. CASE ToVertex
    BY <1>1, <1>e, <2>0, <2>2, ItemsAssumption DEF ToVertex
  <2>3. CASE ToHomes
    BY <1>1, <2>0, <2>3 DEF ToHomes
  <2>4. CASE ToFeatures
    BY <1>1, <2>0, <2>4, ItemsAssumption DEF ToFeatures
  <2>5. CASE ToPorts
    <3>1. Range(NewPorts) \subseteq Ports
      BY NewPortsQueue DEF NewPorts
    <3> QED
      BY <1>1, <1>e, <2>0, <2>5, <3>1, ItemsAssumption DEF ToPorts
  <2> QED
    BY <1>7, <2>1, <2>2, <2>3, <2>4, <2>5 DEF Advance
<1>8. CASE Confirm
  <2>1. stage \in {"homes", "features"} /\ UNCHANGED <<conf, stage, queue>> /\ queue # <<>>
    BY <1>8 DEF Confirm
  <2>2. CASE stage = "homes"
    <3>1. ~Known(x) /\ step = "next"
      BY <1>h, <1>8 DEF Confirm
    <3>2. Whole("global") /\ Whole("project") /\ Whole("local")
      BY <2>2, <3>1 DEF FilesInv, Whole, FileOf
    <3>3. x \notin conf["agent"]
      BY <1>h, <2>1, <2>2, QueueTail DEF MountInv, AutoconfTypeOK
    <3>4. \A t \in Targets : x \notin conf[t]
      BY <2>2, <3>1, <3>2, <3>3 DEF Known, Seen, Targets
    <3> QED
      BY <1>h, <2>1, <2>2, <3>4 DEF MountInv, MountedOnce
  <2>3. CASE stage # "homes"
    BY <2>1, <2>3 DEF MountInv, MountedOnce
  <2> QED
    BY <2>2, <2>3
<1>9. CASE UNCHANGED <<conf, stage, queue>> /\ (stage = "homes" => step = "target" \/ Adding)
  BY <1>9 DEF MountInv, MountedOnce
<1>10. CASE UNCHANGED <<conf, stage, queue>> /\ (step' = step \/ stage # "homes")
  BY <1>10 DEF MountInv, MountedOnce, Adding
<1>11. CASE FilterGet \/ SecretGet \/ SecretFound \/ SecretCreate \/ SecretCreated \/ FilterDone
  BY <1>11, <1>2, <1>5, <1>10
  DEF FilterGet, SecretGet, SecretFound, SecretCreate, SecretCreated, Ask, FilterDone, StageInv
<1>12. CASE Skip
  BY <1>12, <1>5 DEF Skip
<1>13. CASE SelectTarget \/ AddTruncate \/ AddRead
  BY <1>13, <1>5, <1>9 DEF SelectTarget, AddTruncate, AddRead, Adding
<1>14. CASE Complete \/ AddFails \/ Die
  BY <1>14, <1>2 DEF Complete, AddFails, Die
<1>15. CASE Others \/ StoreStep \/ Idle \/ UNCHANGED allVars
  BY <1>15, <1>10 DEF Others, StoreStep, Idle, allVars, autoVars
<1> QED
  BY <1>3, <1>6, <1>7, <1>8, <1>11, <1>12, <1>13, <1>14, <1>15 DEF AutoconfNext, RunStep

-----------------------------------------------------------------------------
(* The inductive invariant, and the theorems.                              *)

AutoconfInv == BaseInv /\ ProgressInv /\ MountInv

LEMMA AutoconfInitInv == ASSUME AutoconfInit PROVE AutoconfInv
<1> USE DEF AutoconfInit
<1>1. TypeOK
  BY InvInit DEF Inv
<1>2. AutoconfTypeOK
  <2>1. <<>> \in Seq(Items) /\ <<>> \in Seq(Range(Secrets))
    OBVIOUS
  <2> QED
    BY <1>1, <2>1, AutoconfAssumption
    DEF AutoconfTypeOK, Nothing, Targets, Files, Stages, Steps
<1>3. StageInv /\ OverlapInv /\ StoreInv /\ FilesInv /\ ProgressInv
  BY InvInit DEF Inv, StageInv, StoreInv, FilesInv, ProgressInv, SecretsInv, ItemsInv, Adding
<1>4. MountInv
  BY EmptyRange DEF MountInv, MountedOnce, Nothing, Targets
<1> QED
  BY <1>2, <1>3, <1>4 DEF AutoconfInv, BaseInv

LEMMA AutoconfInvNext == ASSUME AutoconfInv, [AutoconfNext]_allVars PROVE AutoconfInv'
<1>1. BaseInv'
  BY TypesNext, StoreInvNext, FilesInvNext, UsesStore, OverlapNext
  DEF AutoconfInv, BaseInv, AutoconfTypeOK
<1> QED
  BY <1>1, SecretsNext, ItemsNext, MountNext DEF AutoconfInv, ProgressInv

LEMMA AutoconfInvariance == AutoconfSpec => []AutoconfInv
<1>1. AutoconfInit => AutoconfInv
  BY AutoconfInitInv
<1>2. AutoconfInv /\ [AutoconfNext]_allVars => AutoconfInv'
  BY AutoconfInvNext
<1> QED
  BY <1>1, <1>2, PTL DEF AutoconfSpec

\* Every variable of the command and of the store keeps its type.
THEOREM AutoconfTypeCorrect == AutoconfSpec => []AutoconfTypeOK
<1>1. AutoconfInv => AutoconfTypeOK
  BY DEF AutoconfInv, BaseInv
<1> QED
  BY <1>1, AutoconfInvariance, PTL

\* kdn autoconf uses the store as any secret command does, one call at a time
\* with a name and a value the store accepts: it implements SecretStore.
THEOREM AutoconfUsesSecretStore == AutoconfSpec => Spec
<1>1. AutoconfInit => Init
  BY DEF AutoconfInit
<1>2. AutoconfInv /\ [AutoconfNext]_allVars => [Next]_vars
  BY UsesStore DEF AutoconfInv, BaseInv
<1> QED
  BY <1>1, <1>2, AutoconfInvariance, PTL DEF AutoconfSpec, Spec

\* So what is proved of the store holds beside autoconf (store.go:104-201): the
\* names are unique also when commands of other processes overlap the run; the
\* rest holds until commands overlap, in the run or outside it.
THEOREM StoreBesideAutoconf ==
  AutoconfSpec =>
     /\ []UniqueNames
     /\ []ValueMatches
     /\ NoOverwrite
     /\ RemovedAreGone
     /\ []ReadableIsComplete
BY AutoconfUsesSecretStore, NamesAreUnique, ValuesMatch, NothingOverwritten, RemovedHaveGone,
   ReadableComplete, PTL

\* However runs end, what a configuration file recorded is recorded when it is
\* whole again: every updater reads the file before it writes it
\* (projectsupdater.go:66-124, workspaceupdater.go).
THEOREM ConfigurationIsKept == AutoconfSpec => NothingForgotten
<1>1. AutoconfInv /\ [AutoconfNext]_allVars =>
        [\A t \in Targets : conf[t] \subseteq conf'[t]]_allVars
  BY ConfGrows DEF AutoconfInv, BaseInv
<1> QED
  BY <1>1, AutoconfInvariance, PTL DEF AutoconfSpec, NothingForgotten

\* No answers in any number of runs mount a dot file from two configurations.
THEOREM DotFilesMountedOnce == AutoconfSpec => []MountedOnce
<1>1. AutoconfInv => MountedOnce
  BY DEF AutoconfInv, MountInv
<1> QED
  BY <1>1, AutoconfInvariance, PTL

\* A run with --yes that returns without an error leaves every dot file, feature
\* and port recorded, and every secret stored and referenced when no other process
\* used the store meanwhile, whatever earlier runs did and wherever they failed
\* (README.md:702).
THEOREM RunsConfigure == AutoconfSpec => []RunConfigures
<1>1. ASSUME AutoconfInv, Successful
      PROVE  /\ ~disturbed => \A n \in Range(Secrets) : Configured(n)
             /\ \A x \in Range(HomeFiles) : Recorded(x)
             /\ Range(Features) \cup Ports \subseteq conf["local"]
  BY <1>1, EmptyRange DEF AutoconfInv, ProgressInv, SecretsInv, ItemsInv, Successful
<1>2. ASSUME AutoconfInv, Successful, ~disturbed, torn PROVE Secrets = <<>>
  BY <1>2 DEF AutoconfInv, BaseInv, StageInv, StoreInv, TornCause, Successful
<1>3. Secrets = <<>> => Range(Secrets) = {}
  BY EmptyRange
<1>4. AutoconfInv => RunConfigures
  BY <1>1, <1>2, <1>3 DEF RunConfigures, Configured, InStore, Stored, Recorded
<1> QED
  BY <1>4, AutoconfInvariance, PTL
=============================================================================
