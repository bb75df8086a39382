------------------------ MODULE PodmanWorkspaceProofs ------------------------
(***************************************************************************)
(* Proofs about PodmanWorkspace, for every number of processes, workspaces,*)
(* containers and hosts, with errors, deaths and restarts: a workspace     *)
(* runs under the policy its Start read, no pod is left that the manager   *)
(* has no record of, and Remove takes down only what is stopped, but all   *)
(* of it.                                                                  *)
(***************************************************************************)
EXTENDS PodmanWorkspace, SequenceTheorems, TLAPS

\* Who has made the pod of its name, and has not recorded or undone it.
Making == {"detect", "services", "provision", "halt", "certs", "container",
           "files", "save", "undo"}

\* Who works on a workspace the manager has on record.
Using == StartLabels \cup StopLabels \cup RemoveLabels

\* Who has read its policy, and who applies a policy in deny mode.
Planned == {"guard", "clear", "rule", "conf", "nft", "handler", "open", "pod", "verify"}
Denying == {"rule", "conf", "nft", "handler"}

\* Who has found the pod gone, or has removed it.
Cleaning == {"rmfiles", "rmdirs", "gonedirs", "gonefiles", "drop"}

On(p, n) == call[p].name = n
Within(p, labels) == call[p].at \in labels

-----------------------------------------------------------------------------
(* The inductive invariant.                                                *)

\* The locals of a call fit the step it is at.
Fits(c) ==
    /\ c.at = "idle" <=> c.name = NoName
    /\ c.at = "idle" => c.id = NoId
    /\ c.at \in Using \cup {"files", "save"} => c.id \in Ids
    /\ c.at \in CreateLabels \ {"files", "save", "undo"} => c.id = NoId
    /\ c.at \in Planned => c.plan \in Plans
    /\ c.at \in Denying => c.plan.mode = "deny"
    /\ c.at = "open" => c.plan.mode # "deny"
    /\ c.at = "stop" => c.todo # << >>

TypeInv == TypeOK /\ \A p \in Procs : Fits(call[p])

\* An id belongs to one workspace, wherever it is noted.
Claims(n, id) ==
    \/ known[n] = id
    \/ HasContainer(n, id)
    \/ files[id] = n
    \/ \E p \in Procs : call[p].id = id /\ On(p, n)

OwnInv == \A id \in Ids : \A m, n \in Names : Claims(m, id) /\ Claims(n, id) => m = n

\* Calls that overlap on a workspace are all in Create or all elsewhere; what
\* the manager has on record is what the call was made with.
KnownInv ==
    \A n \in Names :
        /\ n \notin raced => \A p, q \in Procs : On(p, n) /\ On(q, n) => p = q
        /\ \A p, q \in Procs :
              On(p, n) /\ On(q, n) => ~(Within(p, CreateLabels) /\ Within(q, Using))
        /\ \A p \in Procs : On(p, n) =>
              /\ Within(p, CreateLabels) /\ n \notin raced => known[n] = NoId
              /\ Within(p, Using) => known[n] \in {call[p].id, NoId}
              /\ Within(p, Using) /\ n \notin raced => known[n] = call[p].id

\* The pod of n is the one the manager has on record.
Kept(n) == known[n] # NoId /\ pod[n].ctr = known[n] /\ files[known[n]] = n

PodInv ==
    \A n \in Names \ broken :
        /\ \A p \in Procs : On(p, n) /\ Within(p, Making) =>
              /\ Exists(n) /\ pod[n].ctr = call[p].id /\ known[n] = NoId
              /\ \A q \in Procs \ {p} : On(q, n) => ~Within(q, Making)
              /\ Within(p, {"save"}) => files[call[p].id] = n
        /\ \A p \in Procs : On(p, n) /\ Within(p, CreateLabels) /\ ~Exists(n) =>
              known[n] = NoId
        /\ \A p \in Procs : On(p, n) /\ Within(p, Cleaning) => ~Exists(n)
        /\ Exists(n) => Kept(n) \/ \E p \in Procs : On(p, n) /\ Within(p, Making)

\* What a Start that is alone on its workspace has brought about.
Applied(x, list, c) ==
    /\ c.at \in {"conf", "nft", "handler"} => x.rule
    /\ c.at \in {"nft", "handler"} => list = c.plan.hosts
    /\ c.at = "handler" => x.nft
    /\ c.at = "open" => ~x.rule
    /\ c.at \in {"pod", "verify"} => Enforces(x, c.plan)
    /\ c.at \in Planned => c.plan.fresh = c.fresh
    /\ c.at \in StartLabels \ {"name", "pod", "verify"} /\ c.fresh => "handler" \notin x.up

PolicyInv ==
    \A n \in Names \ raced :
        /\ applied[n] # NoPlan =>
              /\ ~Busy(n)
              /\ Exists(n) /\ "workspace" \in pod[n].up /\ Enforces(pod[n], applied[n])
        /\ \A p \in Procs : On(p, n) =>
              /\ Within(p, Planned \cup {"read"}) => Exists(n)
              /\ Exists(n) => Applied(pod[n], conf[n], call[p])

\* A call that is alone removes a pod only when its agent does not run.
StoppedInv ==
    \A n \in Names \ raced : \A p \in Procs :
        On(p, n) /\ Within(p, Making \cup {"rm"}) => ~Up(n, "workspace")

\* No directory of n is left, as far as Remove could remove them.
Tidy(n) == n \notin littered => \A d \in dirs : d[2] # n

\* How far a Remove that is alone has cleaned up.
CleanInv ==
    \A n \in Names \ (raced \cup broken) :
        /\ \/ known[n] = NoId \/ files[known[n]] = n \/ Tidy(n)
           \/ \E p \in Procs : On(p, n) /\ Within(p, {"rmdirs"})
        /\ \A p \in Procs : On(p, n) =>
              /\ Within(p, {"rmdirs", "drop"}) /\ n \notin littered =>
                    files[call[p].id] = NoName
              /\ Within(p, {"gonefiles", "drop"}) => Tidy(n)

-----------------------------------------------------------------------------
(* Types.                                                                  *)

Calls == [at : Labels, name : Names \cup {NoName}, id : Ids \cup {NoId},
          cred : BOOLEAN, plan : Plans \cup {NoPlan}, fresh : BOOLEAN,
          todo : Seq(Containers)]

CallInv == call \in [Procs -> Calls] /\ \A p \in Procs : Fits(call[p])

LEMMA CallTyped ==
  ASSUME TypeInv, NEW p \in Procs, NEW c \in Calls, Fits(c),
         call' = [call EXCEPT ![p] = c]
  PROVE  CallInv'
  BY DEF TypeInv, TypeOK, CallInv, Calls

LEMMA NoCallFits == NoCall \in Calls /\ Fits(NoCall)
  BY NamesAssumption
     DEF NoCall, Calls, Fits, Labels, Using, CreateLabels, StartLabels, StopLabels,
         RemoveLabels, Planned, Denying

LEMMA ReturnTyped ==
  ASSUME TypeInv, NEW p \in Procs, Return(p)
  PROVE  CallInv' /\ call'[p] = NoCall
  BY CallTyped, NoCallFits DEF Return, TypeInv, TypeOK

\* What a call that goes on keeps.
LEMMA GotoTyped ==
  ASSUME TypeInv, NEW p \in Procs, NEW label \in Labels, Goto(p, label),
         Fits([call[p] EXCEPT !.at = label])
  PROVE  CallInv'
<1>1. [call[p] EXCEPT !.at = label] \in Calls
  BY DEF TypeInv, TypeOK, Calls
<1>2. call' = [call EXCEPT ![p] = [call[p] EXCEPT !.at = label]]
  BY DEF TypeInv, TypeOK, Goto
<1> QED
  BY <1>1, <1>2, CallTyped

LEMMA FieldTypes ==
  ASSUME TypeInv, NEW p \in Procs
  PROVE  /\ call[p] \in Calls /\ Fits(call[p]) /\ call[p].at \in Labels
         /\ ~At(p, "idle") => call[p].name \in Names
  BY DEF TypeInv, TypeOK, Calls, Fits, At

\* A step of a method from one label to the next.
LEMMA GoesOn ==
  ASSUME TypeInv, NEW p \in Procs, NEW label \in Labels \ {"idle", "stop"}, Goto(p, label),
         \/ /\ call[p].at \in CreateLabels
            /\ \/ label \in CreateLabels \ {"files", "save", "undo"} /\ call[p].id = NoId
               \/ label = "save" /\ call[p].id \in Ids
               \/ label = "undo"
         \/ /\ call[p].at \in Using
            /\ label \in Using
            /\ label \in Planned => call[p].plan \in Plans
            /\ label \in Denying => call[p].plan.mode = "deny"
            /\ label = "open" => call[p].plan.mode # "deny"
  PROVE  CallInv'
<1>1. Fits([call[p] EXCEPT !.at = label])
  BY FieldTypes
     DEF Calls, Fits, Labels, Using, CreateLabels, StartLabels, StopLabels,
         RemoveLabels, Planned, Denying
<1> QED
  BY <1>1, GotoTyped

LEMMA StartedTyped ==
  ASSUME NEW x \in Pods, NEW cs \in SUBSET Containers, NEW list \in HostLists
  PROVE  Started(x, cs, list) \in Pods
  BY DEF Pods, Started

LEMMA HaltedTyped ==
  ASSUME NEW x \in Pods, NEW cs
  PROVE  Halted(x, cs) \in Pods
  BY DEF Pods, Halted, HostLists

LEMMA PodTyped ==
  ASSUME TypeInv, NEW n \in Names, NEW x \in Pods \cup {NoPod},
         pod' = [pod EXCEPT ![n] = x]
  PROVE  (pod \in [Names -> Pods \cup {NoPod}])'
  BY DEF TypeInv, TypeOK

LEMMA StartContainersTyped ==
  ASSUME TypeInv, NEW n \in Names, Exists(n), NEW cs \in SUBSET Containers,
         StartContainers(n, cs)
  PROVE  (pod \in [Names -> Pods \cup {NoPod}])'
<1>1. Started(pod[n], cs, conf[n]) \in Pods
  BY StartedTyped DEF TypeInv, TypeOK, Exists
<1> QED
  BY <1>1, PodTyped DEF StartContainers


\* The locals with which a call begins.
LEMMA CreateBegun ==
  ASSUME NEW n \in Names, NEW cred \in BOOLEAN, NEW label, label = "prepare",
         NEW c, c = [NoCall EXCEPT !.at = label, !.name = n, !.cred = cred]
  PROVE  c \in Calls /\ Fits(c)
<1>1. c \in Calls
  BY NoCallFits
     DEF Calls, Labels, CreateLabels, StartLabels, StopLabels, RemoveLabels
<1>2. /\ c.at = label /\ c.name = n /\ c.id = NoId
      /\ n # NoName /\ label # "idle"
  BY NamesAssumption DEF NoCall, CreateLabels
<1>3. Fits(c)
  BY <1>2 DEF Fits, Using, CreateLabels, StartLabels, StopLabels, RemoveLabels,
              Planned, Denying
<1> QED
  BY <1>1, <1>3

LEMMA UseBegun ==
  ASSUME NEW n \in Names, NEW id \in Ids, NEW label \in {"name", "inspect", "check"},
         NEW c, c = [NoCall EXCEPT !.at = label, !.name = n, !.id = id]
  PROVE  c \in Calls /\ Fits(c)
<1>1. c \in Calls
  BY NoCallFits
     DEF Calls, Labels, CreateLabels, StartLabels, StopLabels, RemoveLabels
<1>2. /\ c.at = label /\ c.name = n /\ c.id = id
      /\ n # NoName /\ label # "idle"
  BY NamesAssumption DEF NoCall, CreateLabels
<1>3. Fits(c)
  BY <1>2 DEF Fits, Using, CreateLabels, StartLabels, StopLabels, RemoveLabels,
              Planned, Denying
<1> QED
  BY <1>1, <1>3

\* The manager begins a call whose locals are typed.
LEMMA BeginTyped ==
  ASSUME TypeInv, NEW p \in Procs, NEW n \in Names, NEW c \in Calls, Fits(c), Begin(p, n, c)
  PROVE  TypeInv'
<1>1. CallInv'
  BY CallTyped DEF Begin
<1> QED
  BY <1>1 DEF Begin, TypeInv, TypeOK, CallInv, Calls

LEMMA CreateTyped ==
  ASSUME TypeInv, NEW p \in Procs, Create(p)
  PROVE  TypeInv'
<1> USE DEF At, Name
<1>0. /\ call[p] \in Calls /\ Fits(call[p])
      /\ ~At(p, "idle") => Name(p) \in Names
  BY FieldTypes
<1>1. CASE \E n \in Names : CreateBegin(p, n)
  <2>1. PICK n \in Names, cred \in BOOLEAN :
           Begin(p, n, [NoCall EXCEPT !.at = "prepare", !.name = n, !.cred = cred])
    BY <1>1 DEF CreateBegin
  <2>2. PICK c : c = [NoCall EXCEPT !.at = "prepare", !.name = n, !.cred = cred]
    OBVIOUS
  <2> QED
    BY <2>1, <2>2, CreateBegun, BeginTyped
<1>2. CASE Prepare(p)
  <2>1. CallInv'
    BY <1>0, <1>2, GoesOn DEF Prepare, Labels, CreateLabels, Fits
  <2> QED
    BY <1>0, <1>2, <2>1 DEF Prepare, TypeInv, TypeOK, TempDirs, history, CallInv, Calls
<1>3. CASE Play(p)
  <2>1. CallInv'
    BY <1>0, <1>3, GoesOn DEF Play, Labels, CreateLabels, Fits
  <2>2. NewPod \in Pods
    BY DEF NewPod, Pods, HostLists
  <2> QED
    BY <1>0, <1>3, <2>1, <2>2, PodTyped DEF Play, TypeInv, TypeOK, history, CallInv, Calls
<1>4. CASE Detect(p)
  <2>1. PICK active \in BOOLEAN :
           call' = [call EXCEPT ![p].cred = active, ![p].at = "services"]
    BY <1>4 DEF Detect
  <2> DEFINE c == [call[p] EXCEPT !.cred = active, !.at = "services"]
  <2>2. c \in Calls /\ Fits(c)
    BY <1>0, <1>4 DEF Detect, Calls, Fits, Labels, Using, CreateLabels, StartLabels,
                StopLabels, RemoveLabels, Planned, Denying
  <2>3. call' = [call EXCEPT ![p] = c]
    BY <2>1 DEF TypeInv, TypeOK
  <2>4. CallInv'
    BY <2>2, <2>3, CallTyped
  <2> QED
    BY <1>0, <1>4, <2>4 DEF Detect, TypeInv, TypeOK, TempDirs, history, CallInv, Calls
<1>5. CASE Services(p)
  <2>1. CallInv'
    BY <1>0, <1>5, GoesOn DEF Services, Labels, CreateLabels, Fits
  <2> QED
    BY <1>0, <1>5, <2>1, StartContainersTyped
       DEF Services, TypeInv, TypeOK, Containers, history, CallInv, Calls
<1>6. CASE Provision(p)
  <2>1. CallInv'
    BY <1>0, <1>6, GoesOn DEF Provision, Labels, CreateLabels, Fits
  <2>2. (pod \in [Names -> Pods \cup {NoPod}])'
    <3>1. pod[Name(p)] \in Pods /\ call[p].cred \in BOOLEAN
      BY <1>0, <1>6 DEF Provision, Up, Exists, TypeInv, TypeOK, Calls
    <3>2. [pod[Name(p)] EXCEPT !.configured = call[p].cred] \in Pods
      BY <3>1 DEF Pods
    <3> QED
      BY <1>0, <1>6, <3>2, PodTyped DEF Provision, TypeInv, TypeOK
  <2> QED
    BY <1>0, <1>6, <2>1, <2>2 DEF Provision, TypeInv, TypeOK, history, CallInv, Calls
<1>7. CASE Halt(p)
  <2>1. CallInv'
    BY <1>0, <1>7, GoesOn DEF Halt, Labels, CreateLabels, Fits
  <2>2. Halted(pod[Name(p)], Containers) \in Pods
    BY <1>0, <1>7, HaltedTyped DEF Halt, Exists, TypeInv, TypeOK
  <2>3. (pod \in [Names -> Pods \cup {NoPod}])'
    BY <1>0, <1>7, <2>2, PodTyped DEF Halt, TypeInv, TypeOK
  <2> QED
    BY <1>0, <1>7, <2>1, <2>3 DEF Halt, TypeInv, TypeOK, history, CallInv, Calls
<1>8. CASE Certs(p)
  <2>1. CallInv'
    BY <1>0, <1>8, GoesOn DEF Certs, Labels, CreateLabels, Fits
  <2> QED
    BY <1>0, <1>8, <2>1 DEF Certs, TypeInv, TypeOK, TempDirs, history, CallInv, Calls
<1>9. CASE CreateContainer(p)
  <2>1. PICK id \in Ids : /\ pod' = [pod EXCEPT ![Name(p)].ctr = id]
                          /\ call' = [call EXCEPT ![p].id = id, ![p].at = "files"]
    BY <1>0, <1>9 DEF CreateContainer
  <2> DEFINE c == [call[p] EXCEPT !.id = id, !.at = "files"]
  <2>2. c \in Calls /\ Fits(c)
    BY <1>0, <1>9 DEF CreateContainer, Calls, Fits, Labels, Using, CreateLabels,
       StartLabels,
                StopLabels, RemoveLabels, Planned, Denying
  <2>3. call' = [call EXCEPT ![p] = c]
    BY <2>1 DEF TypeInv, TypeOK
  <2>4. CallInv'
    BY <2>2, <2>3, CallTyped
  <2>5. (pod \in [Names -> Pods \cup {NoPod}])'
    BY <1>0, <1>9, <2>1 DEF CreateContainer, HasContainer, Exists, TypeInv, TypeOK, Pods
  <2> QED
    BY <1>0, <1>9, <2>4, <2>5 DEF CreateContainer, TypeInv, TypeOK, history, CallInv,
       Calls
<1>10. CASE CreateEnd(p)
  <2>1. call[p].id \in Ids /\ Name(p) \in Names
    BY <1>0, <1>10 DEF CreateEnd, Fits
  <2> QED
    BY <1>0, <1>10, <2>1, ReturnTyped DEF CreateEnd, TypeInv, TypeOK, history, CallInv,
       Calls
<1>11. CASE CreateFails(p)
  <2>1. Name(p) \in Names
    BY <1>0, <1>11 DEF CreateFails, Undone, CreateLabels
  <2>2. CallInv'
    BY <1>11, GoesOn DEF CreateFails, Undone, Labels, CreateLabels
  <2>3. (files \in [Ids -> Names \cup {NoName}])'
    BY <1>0, <1>11, <2>1 DEF CreateFails, TypeInv, TypeOK
  <2> QED
    BY <1>0, <1>11, <2>2, <2>3 DEF CreateFails, TypeInv, TypeOK, history, CallInv, Calls
<1>12. CASE Undo(p)
  <2>1. Name(p) \in Names
    BY <1>0, <1>12 DEF Undo
  <2>2. (pod \in [Names -> Pods \cup {NoPod}])'
    BY <1>0, <1>12, <2>1, PodTyped DEF Undo, TypeInv, TypeOK
  <2> QED
    BY <1>0, <1>12, <2>1, <2>2, ReturnTyped DEF Undo, TypeInv, TypeOK, CallInv, Calls
<1>13. CASE WritePodFiles(p)
  <2>1. call[p].id \in Ids /\ Name(p) \in Names
    BY <1>0, <1>13 DEF WritePodFiles, Fits
  <2>2. CallInv'
    BY <1>13, <2>1, GoesOn DEF WritePodFiles, Labels, CreateLabels
  <2> QED
    BY <1>13, <2>1, <2>2 DEF WritePodFiles, TypeInv, TypeOK, history, CallInv, Calls
<1>14. CASE CreateFailsEarly(p)
  <2>1. Name(p) \in Names
    BY <1>0, <1>14 DEF CreateFailsEarly
  <2>2. NewPod \in Pods
    BY DEF NewPod, Pods, HostLists
  <2>3. (pod \in [Names -> Pods \cup {NoPod}])'
    BY <1>14, <2>1, <2>2, PodTyped DEF CreateFailsEarly, TypeInv, TypeOK
  <2> QED
    BY <1>14, <2>1, <2>3, ReturnTyped
       DEF CreateFailsEarly, TypeInv, TypeOK, CallInv, Calls
<1>15. CASE CreateUnsaved(p)
  <2>1. Name(p) \in Names
    BY <1>0, <1>15 DEF CreateUnsaved
  <2> QED
    BY <1>15, <2>1, ReturnTyped DEF CreateUnsaved, TypeInv, TypeOK, CallInv, Calls
<1> QED
  BY <1>1, <1>2, <1>3, <1>4, <1>5, <1>6, <1>7, <1>8, <1>9, <1>10, <1>11, <1>12, <1>13,
     <1>14, <1>15 DEF Create

LEMMA StartTyped ==
  ASSUME TypeInv, NEW p \in Procs, Start(p)
  PROVE  TypeInv'
<1> USE DEF At, Name
<1>0. /\ call[p] \in Calls /\ Fits(call[p])
      /\ ~At(p, "idle") => Name(p) \in Names
  BY FieldTypes
<1>1. CASE \E n \in Names : StartBegin(p, n)
  <2>1. PICK n \in Names :
           /\ known[n] # NoId
           /\ Begin(p, n, [NoCall EXCEPT !.at = "name", !.name = n, !.id = known[n]])
    BY <1>1 DEF StartBegin
  <2>2. PICK c : c = [NoCall EXCEPT !.at = "name", !.name = n, !.id = known[n]]
    OBVIOUS
  <2>3. known[n] \in Ids
    BY <2>1 DEF TypeInv, TypeOK
  <2> QED
    BY <2>1, <2>2, <2>3, UseBegun, BeginTyped
<1>2. CASE ReadPodName(p)
  <2>1. PICK c : c = [call[p] EXCEPT !.at = "postgres",
                         !.fresh = ~Up(Name(p), "handler") /\ ~Up(Name(p), "workspace")]
    OBVIOUS
  <2>2. c \in Calls /\ Fits(c)
    BY <1>0, <1>2, <2>1 DEF ReadPodName, Calls, Fits, CreateLabels, Labels, Using,
       StartLabels, StopLabels, RemoveLabels, Planned, Denying
  <2>3. call' = [call EXCEPT ![p] = c]
    BY <1>2, <2>1 DEF ReadPodName, TypeInv, TypeOK
  <2>4. CallInv'
    BY <2>2, <2>3, CallTyped
  <2> QED
    BY <1>2, <2>4 DEF ReadPodName, history, TypeInv, TypeOK, CallInv, Calls
<1>3. CASE StartPostgres(p)
  <2>1. CallInv'
    BY <1>0, <1>3, GoesOn
       DEF StartPostgres, Fits, Labels, Using, StartLabels, StopLabels, RemoveLabels,
          Planned, Denying
  <2> QED
    BY <1>0, <1>3, <2>1, StartContainersTyped
       DEF StartPostgres, Up, Containers, history, TypeInv, TypeOK, CallInv, Calls
<1>4. CASE StartOnecli(p)
  <2>1. CallInv'
    BY <1>0, <1>4, GoesOn
       DEF StartOnecli, Fits, Labels, Using, StartLabels, StopLabels, RemoveLabels,
          Planned, Denying
  <2> QED
    BY <1>0, <1>4, <2>1, StartContainersTyped
       DEF StartOnecli, Up, Containers, history, TypeInv, TypeOK, CallInv, Calls
<1>5. CASE ReadPolicy(p)
  <2>1. PICK cred \in SUBSET {Cred}, policy \in Policies :
           call' = [call EXCEPT ![p].at = "guard",
                       ![p].plan = [mode  |-> policy.mode,
                                    hosts |-> policy.hosts \cup cred,
                                    fresh |-> call[p].fresh]]
    BY <1>5 DEF ReadPolicy
  <2>2. PICK plan : plan = [mode  |-> policy.mode, hosts |-> policy.hosts \cup cred,
                            fresh |-> call[p].fresh]
    OBVIOUS
  <2>3. plan \in Plans
    BY <1>0, <2>1, <2>2 DEF Policies, Plans, Modes, AllHosts, Calls
  <2>4. PICK c : c = [call[p] EXCEPT !.at = "guard", !.plan = plan]
    OBVIOUS
  <2>5. c \in Calls /\ Fits(c)
    BY <1>0, <1>5, <2>3, <2>4 DEF ReadPolicy, Calls, Fits, CreateLabels, Labels, Using,
       StartLabels, StopLabels, RemoveLabels, Planned, Denying
  <2>6. call' = [call EXCEPT ![p] = c]
    BY <2>1, <2>2, <2>4 DEF TypeInv, TypeOK
  <2>7. CallInv'
    BY <2>5, <2>6, CallTyped
  <2> QED
    BY <1>5, <2>7 DEF ReadPolicy, history, TypeInv, TypeOK, CallInv, Calls
<1>6. CASE StartGuard(p)
  <2>1. CallInv'
    BY <1>0, <1>6, GoesOn
       DEF StartGuard, Fits, Labels, Using, StartLabels, StopLabels, RemoveLabels,
          Planned, Denying
  <2> QED
    BY <1>0, <1>6, <2>1, StartContainersTyped
       DEF StartGuard, Up, Containers, history, TypeInv, TypeOK, CallInv, Calls
<1>7. CASE ClearRules(p)
  <2>1. CallInv'
    <3>1. CASE call[p].plan.mode = "deny"
      BY <1>0, <1>7, <3>1, GoesOn
         DEF ClearRules, Fits, Labels, Using, StartLabels, StopLabels, RemoveLabels,
             Planned, Denying
    <3>2. CASE call[p].plan.mode # "deny"
      BY <1>0, <1>7, <3>2, GoesOn
         DEF ClearRules, Fits, Labels, Using, StartLabels, StopLabels, RemoveLabels,
             Planned, Denying
    <3> QED
      BY <3>1, <3>2
  <2>2. [pod[Name(p)] EXCEPT !.rule = FALSE] \in Pods
    BY <1>0, <1>7 DEF ClearRules, Up, Exists, TypeInv, TypeOK, Pods
  <2>3. (pod \in [Names -> Pods \cup {NoPod}])'
    BY <1>0, <1>7, <2>2, PodTyped DEF ClearRules, TypeInv, TypeOK
  <2> QED
    BY <1>0, <1>7, <2>1, <2>3 DEF ClearRules, history, TypeInv, TypeOK, CallInv, Calls
<1>8. CASE CreateRule(p)
  <2>1. CallInv'
    BY <1>0, <1>8, GoesOn
       DEF CreateRule, Fits, Labels, Using, StartLabels, StopLabels, RemoveLabels,
          Planned, Denying, Plans, Modes
  <2>2. [pod[Name(p)] EXCEPT !.rule = TRUE] \in Pods
    BY <1>0, <1>8 DEF CreateRule, Up, Exists, TypeInv, TypeOK, Pods
  <2>3. (pod \in [Names -> Pods \cup {NoPod}])'
    BY <1>0, <1>8, <2>2, PodTyped DEF CreateRule, TypeInv, TypeOK
  <2> QED
    BY <1>0, <1>8, <2>1, <2>3 DEF CreateRule, history, TypeInv, TypeOK, CallInv, Calls
<1>9. CASE WriteConfig(p)
  <2>1. CallInv'
    BY <1>0, <1>9, GoesOn DEF WriteConfig, Fits, Labels, Using, StartLabels,
       StopLabels, RemoveLabels, Planned, Denying
  <2>2. call[p].plan.hosts \in HostLists
    BY <1>0, <1>9 DEF WriteConfig, Fits, Planned, Plans, HostLists
  <2> QED
    BY <1>0, <1>9, <2>1, <2>2 DEF WriteConfig, history, TypeInv, TypeOK, CallInv, Calls
<1>10. CASE SetFirewall(p)
  <2>1. CallInv'
    BY <1>0, <1>10, GoesOn
       DEF SetFirewall, Fits, Labels, Using, StartLabels, StopLabels, RemoveLabels,
          Planned, Denying, Plans, Modes
  <2>2. [pod[Name(p)] EXCEPT !.nft = TRUE] \in Pods
    BY <1>0, <1>10 DEF SetFirewall, Up, Exists, TypeInv, TypeOK, Pods
  <2>3. (pod \in [Names -> Pods \cup {NoPod}])'
    BY <1>0, <1>10, <2>2, PodTyped DEF SetFirewall, TypeInv, TypeOK
  <2> QED
    BY <1>0, <1>10, <2>1, <2>3 DEF SetFirewall, history, TypeInv, TypeOK, CallInv, Calls
<1>11. CASE StartHandler(p)
  <2>1. CallInv'
    BY <1>0, <1>11, GoesOn
       DEF StartHandler, Fits, Labels, Using, StartLabels, StopLabels, RemoveLabels,
          Planned, Denying
  <2> QED
    BY <1>0, <1>11, <2>1, StartContainersTyped
       DEF StartHandler, Up, Containers, history, TypeInv, TypeOK, CallInv, Calls
<1>12. CASE ClearFirewall(p)
  <2>1. CallInv'
    BY <1>0, <1>12, GoesOn
       DEF ClearFirewall, Fits, Labels, Using, StartLabels, StopLabels, RemoveLabels,
          Planned, Denying, Plans, Modes
  <2>2. [pod[Name(p)] EXCEPT !.nft = FALSE] \in Pods
    BY <1>0, <1>12 DEF ClearFirewall, Up, Exists, TypeInv, TypeOK, Pods
  <2>3. (pod \in [Names -> Pods \cup {NoPod}])'
    BY <1>0, <1>12, <2>2, PodTyped DEF ClearFirewall, TypeInv, TypeOK
  <2> QED
    BY <1>0, <1>12, <2>1, <2>3 DEF ClearFirewall, history, TypeInv, TypeOK, CallInv, Calls
<1>13. CASE StartPod(p)
  <2>1. CallInv'
    BY <1>0, <1>13, GoesOn
       DEF StartPod, Fits, Labels, Using, StartLabels, StopLabels, RemoveLabels,
          Planned, Denying
  <2> QED
    BY <1>0, <1>13, <2>1, StartContainersTyped
       DEF StartPod, Up, Containers, history, TypeInv, TypeOK, CallInv, Calls
<1>14. CASE StartEnd(p)
  <2>1. call[p].plan \in Plans
    BY <1>0, <1>14 DEF StartEnd, Fits, Planned
  <2> QED
    BY <1>0, <1>14, <2>1, ReturnTyped DEF StartEnd, TypeInv, TypeOK, CallInv, Calls
<1>15. CASE StartFails(p)
  <2>1. Name(p) \in Names
    BY <1>0, <1>15 DEF StartFails, StartLabels
  <2>2. (pod \in [Names -> Pods \cup {NoPod}])'
    <3>1. CASE pod' = pod
      BY <3>1 DEF TypeInv, TypeOK
    <3>2. CASE /\ Up(Name(p), "guard")
               /\ pod' = [pod EXCEPT ![Name(p)].nft = FALSE]
      <4>1. [pod[Name(p)] EXCEPT !.nft = FALSE] \in Pods
        BY <2>1, <3>2 DEF Up, Exists, TypeInv, TypeOK, Pods
      <4> QED
        BY <2>1, <3>2, <4>1, PodTyped DEF TypeInv, TypeOK
    <3>3. CASE Exists(Name(p)) /\ StartContainers(Name(p), {"workspace"})
      BY <2>1, <3>3, StartContainersTyped DEF Containers
    <3> QED
      BY <1>15, <3>1, <3>2, <3>3 DEF StartFails
  <2> QED
    BY <1>15, <2>2, ReturnTyped DEF StartFails, history, TypeInv, TypeOK, CallInv, Calls
<1> QED
  BY <1>1, <1>2, <1>3, <1>4, <1>5, <1>6, <1>7, <1>8, <1>9, <1>10, <1>11, <1>12, <1>13,
     <1>14, <1>15 DEF Start

LEMMA TailKept ==
  ASSUME NEW S, NEW s \in Seq(S), s # << >>, Len(s) # 1
  PROVE  Tail(s) \in Seq(S) /\ Tail(s) # << >>
<1>1. Tail(s) \in Seq(S) /\ Len(Tail(s)) = Len(s) - 1
  BY HeadTailProperties
<1>2. Len(s) \in Nat /\ Len(<< >>) = 0
  BY EmptySeq
<1>3. Len(Tail(s)) # 0
  BY <1>1, <1>2
<1>4. Tail(s) # << >>
  BY <1>2, <1>3
<1> QED
  BY <1>1, <1>4

LEMMA StopTyped ==
  ASSUME TypeInv, NEW p \in Procs, Stop(p)
  PROVE  TypeInv'
<1> USE DEF At, Name
<1>0. /\ call[p] \in Calls /\ Fits(call[p])
      /\ ~At(p, "idle") => Name(p) \in Names
  BY FieldTypes
<1>1. CASE \E n \in Names : StopBegin(p, n)
  <2>1. PICK n \in Names :
           /\ known[n] # NoId
           /\ Begin(p, n, [NoCall EXCEPT !.at = "inspect", !.name = n, !.id = known[n]])
    BY <1>1 DEF StopBegin
  <2>2. PICK c : c = [NoCall EXCEPT !.at = "inspect", !.name = n, !.id = known[n]]
    OBVIOUS
  <2>3. known[n] \in Ids
    BY <2>1 DEF TypeInv, TypeOK
  <2> QED
    BY <2>1, <2>2, <2>3, UseBegun, BeginTyped
<1>2. CASE Inspect(p)
  <2>1. CASE Return(p)
    BY <1>2, <2>1, ReturnTyped DEF Inspect, history, TypeInv, TypeOK, CallInv, Calls
  <2>2. CASE ~Return(p)
    <3>1. PICK order \in Orders :
             call' = [call EXCEPT ![p].at = "stop", ![p].todo = order]
      BY <1>2, <2>2 DEF Inspect
    <3>2. PICK c : c = [call[p] EXCEPT !.at = "stop", !.todo = order]
      OBVIOUS
    <3>3. order \in Seq(Containers) /\ order # << >>
      BY OrdersAssumption DEF Containers
    <3>4. c \in Calls
      BY <1>0, <3>2, <3>3 DEF Calls, Labels, StopLabels
    <3>5. Fits(c)
      BY <1>0, <1>2, <3>2, <3>3 DEF Inspect, Calls, Fits, CreateLabels, Labels, Using,
         StartLabels, StopLabels, RemoveLabels, Planned, Denying
    <3>6. call' = [call EXCEPT ![p] = c]
      BY <3>1, <3>2 DEF TypeInv, TypeOK
    <3>7. CallInv'
      BY <3>4, <3>5, <3>6, CallTyped
    <3> QED
      BY <1>2, <3>7 DEF Inspect, history, TypeInv, TypeOK, CallInv, Calls
  <2> QED
    BY <2>1, <2>2
<1>3. CASE StopContainer(p)
  <2> DEFINE todo == call[p].todo
  <2>1. todo \in Seq(Containers) /\ todo # << >>
    BY <1>0, <1>3 DEF StopContainer, Calls, Fits
  <2>2. Halted(pod[Name(p)], {Head(todo)}) \in Pods
    BY <1>0, <1>3, HaltedTyped DEF StopContainer, Exists, TypeInv, TypeOK
  <2>3. (pod \in [Names -> Pods \cup {NoPod}])'
    BY <1>0, <1>3, <2>2, PodTyped DEF StopContainer
  <2>4. CallInv'
    <3>1. CASE Return(p)
      BY <3>1, ReturnTyped
    <3>2. CASE ~Return(p)
      <4>1. Len(todo) # 1 /\ call' = [call EXCEPT ![p].todo = Tail(todo)]
        BY <1>3, <3>2 DEF StopContainer
      <4>2. Tail(todo) \in Seq(Containers) /\ Tail(todo) # << >>
        BY <2>1, <4>1, TailKept
      <4>3. PICK c : c = [call[p] EXCEPT !.todo = Tail(todo)]
        OBVIOUS
      <4>4. c \in Calls
        BY <1>0, <4>2, <4>3 DEF Calls
      <4>5. Fits(c)
        BY <1>0, <1>3, <4>2, <4>3 DEF StopContainer, Calls, Fits
      <4>6. call' = [call EXCEPT ![p] = c]
        BY <4>1, <4>3 DEF TypeInv, TypeOK
      <4> QED
        BY <4>4, <4>5, <4>6, CallTyped
    <3> QED
      BY <3>1, <3>2
  <2> QED
    BY <1>3, <2>3, <2>4 DEF StopContainer, history, TypeInv, TypeOK, CallInv, Calls
<1>4. CASE StopFails(p)
  BY <1>4, ReturnTyped DEF StopFails, history, TypeInv, TypeOK, CallInv, Calls
<1> QED
  BY <1>1, <1>2, <1>3, <1>4 DEF Stop

LEMMA RemoveTyped ==
  ASSUME TypeInv, NEW p \in Procs, Remove(p)
  PROVE  TypeInv'
<1> USE DEF At, Name
<1>0. /\ call[p] \in Calls /\ Fits(call[p])
      /\ ~At(p, "idle") => Name(p) \in Names
  BY FieldTypes
<1>1. CASE \E n \in Names : RemoveBegin(p, n)
  <2>1. PICK n \in Names :
           /\ known[n] # NoId
           /\ Begin(p, n, [NoCall EXCEPT !.at = "check", !.name = n, !.id = known[n]])
    BY <1>1 DEF RemoveBegin
  <2>2. PICK c : c = [NoCall EXCEPT !.at = "check", !.name = n, !.id = known[n]]
    OBVIOUS
  <2>3. known[n] \in Ids
    BY <2>1 DEF TypeInv, TypeOK
  <2> QED
    BY <2>1, <2>2, <2>3, UseBegun, BeginTyped
<1>2. CASE Check(p)
  <2>1. \/ Return(p)
        \/ \E label \in {"gonedirs", "gonefiles", "rm"} : Goto(p, label)
    BY <1>2 DEF Check
  <2>2. CallInv'
    BY <1>0, <1>2, <2>1, ReturnTyped, GoesOn DEF Check, Fits, Labels, Using,
       StartLabels, StopLabels, RemoveLabels, Planned, Denying
  <2> QED
    BY <1>2, <2>2 DEF Check, history, TypeInv, TypeOK, CallInv, Calls
<1>3. CASE RemovePod(p)
  <2>1. CallInv'
    BY <1>0, <1>3, GoesOn DEF RemovePod, Fits, Labels, Using, StartLabels, StopLabels,
       RemoveLabels, Planned, Denying
  <2>2. (pod \in [Names -> Pods \cup {NoPod}])'
    BY <1>0, <1>3, PodTyped DEF RemovePod
  <2> QED
    BY <1>3, <2>1, <2>2 DEF RemovePod, history, TypeInv, TypeOK, CallInv, Calls
<1>4. CASE CleanupPodFiles(p)
  <2>1. CallInv'
    BY <1>0, <1>4, GoesOn DEF CleanupPodFiles, Fits, Labels, Using, StartLabels,
       StopLabels, RemoveLabels, Planned, Denying
  <2>2. call[p].id \in Ids /\ Name(p) \in Names
    BY <1>0, <1>4 DEF CleanupPodFiles, Fits, Using, RemoveLabels
  <2> QED
    BY <1>0, <1>4, <2>1, <2>2 DEF CleanupPodFiles, TypeInv, TypeOK, CallInv, Calls
<1>5. CASE CleanupTempDirs(p)
  <2>1. CallInv'
    BY <1>0, <1>5, GoesOn DEF CleanupTempDirs, Fits, Labels, Using, StartLabels,
       StopLabels, RemoveLabels, Planned, Denying
  <2>2. Name(p) \in Names
    BY <1>0, <1>5 DEF CleanupTempDirs
  <2> QED
    BY <1>5, <2>1, <2>2
       DEF CleanupTempDirs, HostLists, TypeInv, TypeOK, CallInv, Calls
<1>6. CASE RemoveEnd(p)
  BY <1>6, ReturnTyped DEF RemoveEnd, history, TypeInv, TypeOK, CallInv, Calls
<1>7. CASE RemoveFails(p)
  <2>1. Name(p) \in Names
    BY <1>0, <1>7 DEF RemoveFails
  <2>2. (pod \in [Names -> Pods \cup {NoPod}])'
    BY <1>7, <2>1, PodTyped DEF RemoveFails, TypeInv, TypeOK
  <2> QED
    BY <1>7, <2>2, ReturnTyped DEF RemoveFails, history, TypeInv, TypeOK, CallInv, Calls
<1> QED
  BY <1>1, <1>2, <1>3, <1>4, <1>5, <1>6, <1>7 DEF Remove

LEMMA DieTyped ==
  ASSUME TypeInv, NEW p \in Procs, Die(p)
  PROVE  TypeInv'
<1>1. Name(p) \in Names
  BY FieldTypes DEF Die, Name
<1> QED
  BY <1>1, ReturnTyped DEF Die, TypeInv, TypeOK, CallInv, Calls

LEMMA RebootTyped ==
  ASSUME TypeInv, Reboot
  PROVE  TypeInv'
<1>1. ASSUME NEW n \in Names, Exists(n)
      PROVE  Halted(pod[n], Containers) \in Pods
  BY <1>1, HaltedTyped DEF TypeInv, TypeOK, Exists
<1> QED
  BY <1>1 DEF Reboot, TypeInv, TypeOK

LEMMA TypeNext ==
  ASSUME TypeInv, [Next]_vars
  PROVE  TypeInv'
<1>1. CASE UNCHANGED vars
  BY <1>1 DEF vars, TypeInv, TypeOK
<1> QED
  BY <1>1, CreateTyped, StartTyped, StopTyped, RemoveTyped, DieTyped, RebootTyped DEF Next

LEMMA TypeInit == Init => TypeInv
  BY NoCallFits DEF Init, TypeInv, TypeOK, HostLists, Calls

\* Every variable holds a value of its kind, whatever steps fail, die or overlap.
THEOREM TypeCorrect == Spec => []TypeOK
<1>1. TypeInv => TypeOK
  BY DEF TypeInv
<1> QED
  BY <1>1, TypeInit, TypeNext, PTL DEF Spec

-----------------------------------------------------------------------------
(* What a step leaves alone.                                               *)

\* Process p works on workspace n, and on nothing else.
Only(p, n) ==
    /\ n \in Names
    /\ call[p].name \in {n, NoName} /\ call'[p].name \in {n, NoName}
    /\ \A q \in Procs \ {p} : call'[q] = call[q]
    /\ raced \subseteq raced' /\ broken \subseteq broken' /\ littered \subseteq littered'
    /\ \A m \in Names \ {n} :
          /\ pod'[m] = pod[m] /\ conf'[m] = conf[m] /\ known'[m] = known[m]
          /\ applied'[m] = applied[m]
          /\ m \in raced' <=> m \in raced
          /\ m \in broken' <=> m \in broken
          /\ m \in littered' <=> m \in littered
          /\ \A d : d[2] = m => (d \in dirs' <=> d \in dirs)

Quiet(p, n) ==
    /\ UNCHANGED <<files, known, raced>>
    /\ Within(p, StartLabels) \/ applied' = applied
    /\ Exists(n)' <=> Exists(n)
    /\ Exists(n) => pod'[n].ctr = pod[n].ctr
    /\ \A d \in dirs' : d[2] = n => d \in dirs \/ Within(p, CreateLabels)
    /\ \/ /\ call'[p] = NoCall
          /\ Within(p, Making \cup Cleaning) => n \in broken'
       \/ /\ call'[p].name = n /\ call'[p].id = call[p].id
          /\ \/ Within(p, {"prepare"}) /\ Within(p, {"play"})'
             \/ Within(p, Making) /\ Within(p, Making \ {"save"})'
             \/ Within(p, StartLabels) /\ Within(p, StartLabels)'
             \/ Within(p, StopLabels) /\ Within(p, StopLabels)'

LEMMA SameName ==
  ASSUME TypeInv, NEW p \in Procs, NEW n \in Names, On(p, n)
  PROVE  Name(p) = n /\ ~At(p, "idle") /\ call[p] \in Calls
  BY FieldTypes, NamesAssumption DEF On, Name, At, Fits


\* The pod of n stays, with its container; other pods stay as they are.
PodStays(n) ==
    /\ \A m \in Names \ {n} : pod'[m] = pod[m]
    /\ Exists(n)' <=> Exists(n)
    /\ Exists(n) => pod'[n].ctr = pod[n].ctr

ConfOnly(n) == \A m \in Names \ {n} : conf'[m] = conf[m]

DirsOnly(p, n) ==
    /\ \A d : d[2] # n => (d \in dirs' <=> d \in dirs)
    /\ dirs' = dirs \/ Within(p, CreateLabels)

\* Call p may go on at label and leave what it has made or removed as it is.
Flows(p, label) ==
    \/ Within(p, {"prepare"}) /\ label = "play"
    \/ Within(p, Making) /\ label \in Making \ {"save"}
    \/ Within(p, StartLabels) /\ label \in StartLabels
    \/ Within(p, StopLabels) /\ label \in StopLabels

LEMMA Shapes ==
  ASSUME TypeInv
  PROVE  /\ pod \in [Names -> Pods \cup {NoPod}]
         /\ conf \in [Names -> HostLists] /\ applied \in [Names -> Plans \cup {NoPlan}]
         /\ files \in [Ids -> Names \cup {NoName}] /\ known \in [Names -> Ids \cup {NoId}]
         /\ call \in [Procs -> Calls]
  BY DEF TypeInv, TypeOK, Calls

LEMMA PodUnchanged == ASSUME NEW n, pod' = pod PROVE PodStays(n)
  BY DEF PodStays, Exists

LEMMA PodReplaced ==
  ASSUME TypeInv, NEW n \in Names, Exists(n), NEW x \in Pods, x.ctr = pod[n].ctr,
         pod' = [pod EXCEPT ![n] = x]
  PROVE  PodStays(n)
  BY Shapes, NamesAssumption DEF PodStays, Exists

LEMMA PodStarted ==
  ASSUME TypeInv, NEW n \in Names, Exists(n), NEW cs \in SUBSET Containers,
         StartContainers(n, cs)
  PROVE  PodStays(n)
<1>1. pod[n] \in Pods /\ conf[n] \in HostLists
  BY Shapes DEF Exists
<1>2. Started(pod[n], cs, conf[n]) \in Pods
  BY <1>1, StartedTyped
<1>3. Started(pod[n], cs, conf[n]).ctr = pod[n].ctr
  BY <1>1 DEF Started, Pods
<1> QED
  BY <1>2, <1>3, PodReplaced DEF StartContainers

LEMMA PodHalted ==
  ASSUME TypeInv, NEW n \in Names, Exists(n), NEW cs, pod' = [pod EXCEPT ![n] = Halted(@, cs)]
  PROVE  PodStays(n)
<1>1. pod[n] \in Pods
  BY Shapes DEF Exists
<1>2. Halted(pod[n], cs) \in Pods
  BY <1>1, HaltedTyped
<1>3. Halted(pod[n], cs).ctr = pod[n].ctr
  BY <1>1 DEF Halted, Pods
<1> QED
  BY <1>2, <1>3, PodReplaced

LEMMA PodChanged ==
  ASSUME TypeInv, NEW n \in Names, Exists(n), NEW b \in BOOLEAN,
         \/ pod' = [pod EXCEPT ![n].nft = b]
         \/ pod' = [pod EXCEPT ![n].rule = b]
         \/ pod' = [pod EXCEPT ![n].configured = b]
  PROVE  PodStays(n)
<1>1. pod[n] \in Pods
  BY Shapes DEF Exists
<1>2. PICK x \in {[pod[n] EXCEPT !.nft = b], [pod[n] EXCEPT !.rule = b],
                  [pod[n] EXCEPT !.configured = b]} : pod' = [pod EXCEPT ![n] = x]
  OBVIOUS
<1>3. x \in Pods /\ x.ctr = pod[n].ctr
  BY <1>1, <1>2 DEF Pods
<1> QED
  BY <1>2, <1>3, PodReplaced

\* A call that goes on with the locals c.
LEMMA Along ==
  ASSUME TypeInv, NEW p \in Procs, NEW n \in Names, On(p, n), NEW c,
         call' = [call EXCEPT ![p] = c], c.name = n, c.id = call[p].id, Flows(p, c.at),
         PodStays(n), ConfOnly(n), DirsOnly(p, n),
         UNCHANGED <<files, known, applied, raced, broken, littered>>
  PROVE  Only(p, n) /\ Quiet(p, n)
<1>1. call'[p] = c /\ \A q \in Procs \ {p} : call'[q] = call[q]
  BY Shapes
<1>2. Only(p, n)
  BY <1>1 DEF Only, On, PodStays, ConfOnly, DirsOnly
<1>3. Quiet(p, n)
  BY <1>1 DEF Quiet, On, PodStays, DirsOnly, Flows, Within
<1> QED
  BY <1>2, <1>3

\* A call that goes on with nothing but its label changed.
LEMMA Goes ==
  ASSUME TypeInv, NEW p \in Procs, NEW n \in Names, On(p, n), NEW label, Goto(p, label),
         Flows(p, label), PodStays(n), ConfOnly(n), DirsOnly(p, n),
         UNCHANGED <<files, known, applied, raced, broken, littered>>
  PROVE  Only(p, n) /\ Quiet(p, n)
<1>1. PICK c : c = [call[p] EXCEPT !.at = label]
  OBVIOUS
<1>2. call[p] \in Calls
  BY Shapes
<1>3. c.name = n /\ c.id = call[p].id /\ c.at = label
  BY <1>1, <1>2 DEF On, Calls
<1>4. call' = [call EXCEPT ![p] = c]
  BY <1>1 DEF Goto
<1> QED
  BY <1>3, <1>4, Along

\* A call that ends, dies or fails.
LEMMA Ends ==
  ASSUME TypeInv, NEW p \in Procs, NEW n \in Names, On(p, n), Return(p),
         PodStays(n), UNCHANGED <<files, known, raced, conf, dirs, littered>>,
         \A m \in Names \ {n} : applied'[m] = applied[m],
         Within(p, StartLabels) \/ applied' = applied,
         broken' = broken \/ broken' = broken \cup {n},
         Within(p, Making \cup Cleaning) => n \in broken'
  PROVE  Only(p, n) /\ Quiet(p, n)
<1>1. call'[p] = NoCall /\ NoCall.name = NoName
      /\ \A q \in Procs \ {p} : call'[q] = call[q]
  BY Shapes DEF Return, NoCall
<1>2. Only(p, n)
  BY <1>1 DEF Only, On, PodStays
<1>3. Quiet(p, n)
  BY <1>1 DEF Quiet, PodStays
<1> QED
  BY <1>2, <1>3

LEMMA SameConf == ASSUME conf' = conf PROVE \A n : ConfOnly(n)
  BY DEF ConfOnly

LEMMA SameDirs == ASSUME dirs' = dirs PROVE \A p, n : DirsOnly(p, n)
  BY DEF DirsOnly

LEMMA MoreDirs ==
  ASSUME NEW p, NEW n, NEW k, dirs' = dirs \cup {<<k, n>>}, Within(p, CreateLabels)
  PROVE  DirsOnly(p, n)
  BY DEF DirsOnly


\* Most steps of Create only move the call along.
LEMMA QuietCreate ==
  ASSUME TypeInv, NEW p \in Procs, NEW n \in Names, On(p, n),
      \/ Prepare(p) \/ Detect(p) \/ Services(p) \/ Provision(p) \/ Halt(p) \/
         Certs(p)
  PROVE  Only(p, n) /\ Quiet(p, n)
<1>0. Name(p) = n /\ call[p] \in Calls /\ call[p].name = n /\ ~At(p, "idle")
  BY SameName DEF On
<1>1. CASE Prepare(p)
  <2>1. PodStays(n)
    BY <1>0, <1>1, PodUnchanged DEF Prepare
  <2>2. DirsOnly(p, n)
    BY <1>0, <1>1, MoreDirs DEF Prepare, At, Within, CreateLabels
  <2>3. PICK label : Goto(p, label) /\ Flows(p, label)
    BY <1>0, <1>1 DEF Prepare, At, Flows, Within, Making, CreateLabels, StartLabels,
       StopLabels
  <2> QED
    BY <1>1, <2>1, <2>2, <2>3, SameConf, Goes DEF Prepare, history
<1>2. CASE Detect(p)
  <2>1. PodStays(n)
    BY <1>0, <1>2, PodUnchanged DEF Detect
  <2>2. DirsOnly(p, n)
    BY <1>0, <1>2, SameDirs, MoreDirs DEF Detect, At, Within, CreateLabels
  <2>3. PICK active \in BOOLEAN :
           call' = [call EXCEPT ![p].cred = active, ![p].at = "services"]
    BY <1>2 DEF Detect
  <2>4. PICK c : /\ c = [call[p] EXCEPT !.cred = active, !.at = "services"]
                 /\ call' = [call EXCEPT ![p] = c]
    BY <2>3, Shapes
  <2>5. c.name = n /\ c.id = call[p].id
    BY <1>0, <2>4 DEF Calls
  <2>6. Flows(p, c.at)
    BY <1>0, <1>2, <2>4 DEF Detect, At, Calls, Flows, Within, Making, CreateLabels,
       StartLabels, StopLabels
  <2> QED
    BY <1>2, <2>1, <2>2, <2>4, <2>5, <2>6, SameConf, Along DEF Detect, history
<1>3. CASE Services(p)
  <2>1. PodStays(n)
    BY <1>0, <1>3, PodStarted DEF Services, Containers
  <2>2. DirsOnly(p, n)
    BY <1>0, <1>3, SameDirs DEF Services, At, Within, CreateLabels
  <2>3. PICK label : Goto(p, label) /\ Flows(p, label)
    BY <1>0, <1>3 DEF Services, At, Flows, Within, Making, CreateLabels, StartLabels,
       StopLabels
  <2> QED
    BY <1>3, <2>1, <2>2, <2>3, SameConf, Goes DEF Services, history
<1>4. CASE Provision(p)
  <2>1. PodStays(n)
    BY <1>0, <1>4, PodChanged DEF Provision, Up, Calls
  <2>2. DirsOnly(p, n)
    BY <1>0, <1>4, SameDirs DEF Provision, At, Within, CreateLabels
  <2>3. PICK label : Goto(p, label) /\ Flows(p, label)
    BY <1>0, <1>4 DEF Provision, At, Flows, Within, Making, CreateLabels, StartLabels,
       StopLabels
  <2> QED
    BY <1>4, <2>1, <2>2, <2>3, SameConf, Goes DEF Provision, history
<1>5. CASE Halt(p)
  <2>1. PodStays(n)
    BY <1>0, <1>5, PodHalted, PodUnchanged DEF Halt
  <2>2. DirsOnly(p, n)
    BY <1>0, <1>5, SameDirs DEF Halt, At, Within, CreateLabels
  <2>3. PICK label : Goto(p, label) /\ Flows(p, label)
    BY <1>0, <1>5 DEF Halt, At, Flows, Within, Making, CreateLabels, StartLabels,
       StopLabels
  <2> QED
    BY <1>5, <2>1, <2>2, <2>3, SameConf, Goes DEF Halt, history
<1>6. CASE Certs(p)
  <2>1. PodStays(n)
    BY <1>0, <1>6, PodUnchanged DEF Certs
  <2>2. DirsOnly(p, n)
    BY <1>0, <1>6, MoreDirs DEF Certs, At, Within, CreateLabels
  <2>3. PICK label : Goto(p, label) /\ Flows(p, label)
    BY <1>0, <1>6 DEF Certs, At, Flows, Within, Making, CreateLabels, StartLabels,
       StopLabels
  <2> QED
    BY <1>6, <2>1, <2>2, <2>3, SameConf, Goes DEF Certs, history
<1> QED
  BY <1>1, <1>2, <1>3, <1>4, <1>5, <1>6

\* No step of Start makes or removes a pod.
LEMMA QuietStart ==
  ASSUME TypeInv, NEW p \in Procs, NEW n \in Names, On(p, n),
      \/ ReadPodName(p) \/ StartPostgres(p) \/ StartOnecli(p) \/
         ReadPolicy(p) \/ StartGuard(p) \/ ClearRules(p) \/ CreateRule(p) \/
         WriteConfig(p) \/ SetFirewall(p) \/ StartHandler(p) \/
         ClearFirewall(p) \/ StartPod(p) \/ StartEnd(p) \/ StartFails(p)
  PROVE  Only(p, n) /\ Quiet(p, n)
<1>0. Name(p) = n /\ call[p] \in Calls /\ call[p].name = n /\ ~At(p, "idle")
  BY SameName DEF On
<1>1. CASE ReadPodName(p)
  <2>1. PodStays(n)
    BY <1>0, <1>1, PodUnchanged DEF ReadPodName
  <2>2. DirsOnly(p, n)
    BY <1>0, <1>1, SameDirs DEF ReadPodName, At, Within, CreateLabels
  <2>4. PICK c : /\ c = [call[p] EXCEPT !.at = "postgres",
                             !.fresh = ~Up(Name(p), "handler") /\ ~Up(Name(p), "workspace")]
                 /\ call' = [call EXCEPT ![p] = c]
    BY <1>1, Shapes DEF ReadPodName
  <2>5. c.name = n /\ c.id = call[p].id
    BY <1>0, <2>4 DEF Calls
  <2>6. Flows(p, c.at)
    BY <1>0, <1>1, <2>4 DEF ReadPodName, At, Calls, Flows, Within, Making,
       CreateLabels, StartLabels, StopLabels
  <2> QED
    BY <1>1, <2>1, <2>2, <2>4, <2>5, <2>6, SameConf, Along DEF ReadPodName, history
<1>2. CASE StartPostgres(p)
  <2>1. PodStays(n)
    BY <1>0, <1>2, PodStarted DEF StartPostgres, Containers
  <2>2. DirsOnly(p, n)
    BY <1>0, <1>2, SameDirs DEF StartPostgres, At, Within, CreateLabels
  <2>3. PICK label : Goto(p, label) /\ Flows(p, label)
    BY <1>0, <1>2 DEF StartPostgres, At, Flows, Within, Making, CreateLabels,
       StartLabels, StopLabels
  <2> QED
    BY <1>2, <2>1, <2>2, <2>3, SameConf, Goes DEF StartPostgres, history
<1>3. CASE StartOnecli(p)
  <2>1. PodStays(n)
    BY <1>0, <1>3, PodStarted DEF StartOnecli, Up, Containers
  <2>2. DirsOnly(p, n)
    BY <1>0, <1>3, SameDirs DEF StartOnecli, At, Within, CreateLabels
  <2>3. PICK label : Goto(p, label) /\ Flows(p, label)
    BY <1>0, <1>3 DEF StartOnecli, At, Flows, Within, Making, CreateLabels,
       StartLabels, StopLabels
  <2> QED
    BY <1>3, <2>1, <2>2, <2>3, SameConf, Goes DEF StartOnecli, history
<1>4. CASE ReadPolicy(p)
  <2>1. PodStays(n)
    BY <1>0, <1>4, PodUnchanged DEF ReadPolicy
  <2>2. DirsOnly(p, n)
    BY <1>0, <1>4, SameDirs DEF ReadPolicy, At, Within, CreateLabels
  <2>3. PICK plan : call' = [call EXCEPT ![p].at = "guard", ![p].plan = plan]
    BY <1>4 DEF ReadPolicy
  <2>4. PICK c : /\ c = [call[p] EXCEPT !.at = "guard", !.plan = plan]
                 /\ call' = [call EXCEPT ![p] = c]
    BY <2>3, Shapes
  <2>5. c.name = n /\ c.id = call[p].id
    BY <1>0, <2>4 DEF Calls
  <2>6. Flows(p, c.at)
    BY <1>0, <1>4, <2>4 DEF ReadPolicy, At, Calls, Flows, Within, Making, CreateLabels,
       StartLabels, StopLabels
  <2> QED
    BY <1>4, <2>1, <2>2, <2>4, <2>5, <2>6, SameConf, Along DEF ReadPolicy, history
<1>5. CASE StartGuard(p)
  <2>1. PodStays(n)
    BY <1>0, <1>5, PodStarted DEF StartGuard, Up, Containers
  <2>2. DirsOnly(p, n)
    BY <1>0, <1>5, SameDirs DEF StartGuard, At, Within, CreateLabels
  <2>3. PICK label : Goto(p, label) /\ Flows(p, label)
    BY <1>0, <1>5 DEF StartGuard, At, Flows, Within, Making, CreateLabels, StartLabels,
       StopLabels
  <2> QED
    BY <1>5, <2>1, <2>2, <2>3, SameConf, Goes DEF StartGuard, history
<1>6. CASE ClearRules(p)
  <2>1. PodStays(n)
    BY <1>0, <1>6, PodChanged DEF ClearRules, Up
  <2>2. DirsOnly(p, n)
    BY <1>0, <1>6, SameDirs DEF ClearRules, At, Within, CreateLabels
  <2>3. PICK label : Goto(p, label) /\ Flows(p, label)
    BY <1>0, <1>6 DEF ClearRules, At, Flows, Within, Making, CreateLabels, StartLabels,
       StopLabels
  <2> QED
    BY <1>6, <2>1, <2>2, <2>3, SameConf, Goes DEF ClearRules, history
<1>7. CASE CreateRule(p)
  <2>1. PodStays(n)
    BY <1>0, <1>7, PodChanged DEF CreateRule, Up
  <2>2. DirsOnly(p, n)
    BY <1>0, <1>7, SameDirs DEF CreateRule, At, Within, CreateLabels
  <2>3. PICK label : Goto(p, label) /\ Flows(p, label)
    BY <1>0, <1>7 DEF CreateRule, At, Flows, Within, Making, CreateLabels, StartLabels,
       StopLabels
  <2> QED
    BY <1>7, <2>1, <2>2, <2>3, SameConf, Goes DEF CreateRule, history
<1>8. CASE WriteConfig(p)
  <2>1. PodStays(n) /\ DirsOnly(p, n)
    BY <1>8, PodUnchanged, SameDirs DEF WriteConfig
  <2>2. ConfOnly(n)
    BY <1>0, <1>8, Shapes DEF WriteConfig, ConfOnly
  <2>3. Goto(p, "nft") /\ Flows(p, "nft")
    BY <1>0, <1>8 DEF WriteConfig, At, Flows, Within, Making, CreateLabels,
       StartLabels, StopLabels
  <2> QED
    BY <1>8, <2>1, <2>2, <2>3, Goes DEF WriteConfig, history
<1>9. CASE SetFirewall(p)
  <2>1. PodStays(n)
    BY <1>0, <1>9, PodChanged DEF SetFirewall, Up
  <2>2. DirsOnly(p, n)
    BY <1>0, <1>9, SameDirs DEF SetFirewall, At, Within, CreateLabels
  <2>3. PICK label : Goto(p, label) /\ Flows(p, label)
    BY <1>0, <1>9 DEF SetFirewall, At, Flows, Within, Making, CreateLabels,
       StartLabels, StopLabels
  <2> QED
    BY <1>9, <2>1, <2>2, <2>3, SameConf, Goes DEF SetFirewall, history
<1>10. CASE StartHandler(p)
  <2>1. PodStays(n)
    BY <1>0, <1>10, PodStarted DEF StartHandler, Containers
  <2>2. DirsOnly(p, n)
    BY <1>0, <1>10, SameDirs DEF StartHandler, At, Within, CreateLabels
  <2>3. PICK label : Goto(p, label) /\ Flows(p, label)
    BY <1>0, <1>10 DEF StartHandler, At, Flows, Within, Making, CreateLabels,
       StartLabels, StopLabels
  <2> QED
    BY <1>10, <2>1, <2>2, <2>3, SameConf, Goes DEF StartHandler, history
<1>11. CASE ClearFirewall(p)
  <2>1. PodStays(n)
    BY <1>0, <1>11, PodChanged DEF ClearFirewall, Up
  <2>2. DirsOnly(p, n)
    BY <1>0, <1>11, SameDirs DEF ClearFirewall, At, Within, CreateLabels
  <2>3. PICK label : Goto(p, label) /\ Flows(p, label)
    BY <1>0, <1>11 DEF ClearFirewall, At, Flows, Within, Making, CreateLabels,
       StartLabels, StopLabels
  <2> QED
    BY <1>11, <2>1, <2>2, <2>3, SameConf, Goes DEF ClearFirewall, history
<1>12. CASE StartPod(p)
  <2>1. PodStays(n)
    BY <1>0, <1>12, PodStarted DEF StartPod, Containers
  <2>2. DirsOnly(p, n)
    BY <1>0, <1>12, SameDirs DEF StartPod, At, Within, CreateLabels
  <2>3. PICK label : Goto(p, label) /\ Flows(p, label)
    BY <1>0, <1>12 DEF StartPod, At, Flows, Within, Making, CreateLabels, StartLabels,
       StopLabels
  <2> QED
    BY <1>12, <2>1, <2>2, <2>3, SameConf, Goes DEF StartPod, history
<1>13. CASE StartEnd(p)
  <2>1. PodStays(n)
    BY <1>0, <1>13, PodUnchanged DEF StartEnd
  <2> QED
    BY <1>0, <1>13, <2>1, Shapes, Ends
       DEF StartEnd, At, Within, Making, Cleaning, StartLabels, StopLabels, history
<1>14. CASE StartFails(p)
  <2>1. PodStays(n)
    <3>1. CASE pod' = pod
      BY <3>1, PodUnchanged
    <3>2. CASE Up(n, "guard") /\ pod' = [pod EXCEPT ![n].nft = FALSE]
      BY <3>2, PodChanged DEF Up
    <3>3. CASE Exists(n) /\ StartContainers(n, {"workspace"})
      BY <3>3, PodStarted DEF Containers
    <3> QED
      BY <1>0, <1>14, <3>1, <3>2, <3>3 DEF StartFails
  <2> QED
    BY <1>0, <1>14, <2>1, Ends
       DEF StartFails, At, Within, Making, Cleaning, StartLabels, history
<1> QED
  BY <1>1, <1>2, <1>3, <1>4, <1>5, <1>6, <1>7, <1>8, <1>9, <1>10, <1>11, <1>12, <1>13,
     <1>14

\* Nor does a step of Stop; and who dies, or cannot save, does nothing.
LEMMA QuietOther ==
  ASSUME TypeInv, NEW p \in Procs, NEW n \in Names, On(p, n),
      \/ Inspect(p) \/ StopContainer(p) \/ StopFails(p) \/ CreateUnsaved(p) \/ Die(p)
  PROVE  Only(p, n) /\ Quiet(p, n)
<1>0. Name(p) = n /\ call[p] \in Calls /\ call[p].name = n /\ ~At(p, "idle")
  BY SameName DEF On
<1>1. CASE Inspect(p)
  <2>1. PodStays(n) /\ DirsOnly(p, n)
    BY <1>1, PodUnchanged, SameDirs DEF Inspect
  <2>2. CASE Return(p)
    BY <1>1, <2>1, <2>2, Ends
       DEF Inspect, At, Within, Making, Cleaning, history
  <2>3. CASE ~Return(p)
    <3>1. PICK order : call' = [call EXCEPT ![p].at = "stop", ![p].todo = order]
      BY <1>1, <2>3 DEF Inspect
    <3>2. PICK c : /\ c = [call[p] EXCEPT !.at = "stop", !.todo = order]
                   /\ call' = [call EXCEPT ![p] = c]
      BY <3>1, Shapes
    <3>3. c.name = n /\ c.id = call[p].id /\ Flows(p, c.at)
      BY <1>0, <1>1, <3>2 DEF Inspect, At, Calls, Flows, Within, StopLabels
    <3> QED
      BY <1>1, <2>1, <3>2, <3>3, SameConf, Along DEF Inspect, history
  <2> QED
    BY <2>2, <2>3
<1>2. CASE StopContainer(p)
  <2>1. PodStays(n) /\ DirsOnly(p, n)
    BY <1>0, <1>2, PodHalted, SameDirs DEF StopContainer
  <2>2. CASE Return(p)
    BY <1>2, <2>1, <2>2, Ends
       DEF StopContainer, At, Within, Making, Cleaning, history
  <2>3. CASE ~Return(p)
    <3>1. PICK todo : call' = [call EXCEPT ![p].todo = todo]
      BY <1>2, <2>3 DEF StopContainer
    <3>2. PICK c : /\ c = [call[p] EXCEPT !.todo = todo]
                   /\ call' = [call EXCEPT ![p] = c]
      BY <3>1, Shapes
    <3>3. c.name = n /\ c.id = call[p].id /\ Flows(p, c.at)
      BY <1>0, <1>2, <3>2 DEF StopContainer, At, Calls, Flows, Within, StopLabels
    <3> QED
      BY <1>2, <2>1, <3>2, <3>3, SameConf, Along DEF StopContainer, history
  <2> QED
    BY <2>2, <2>3
<1>3. CASE StopFails(p)
  <2>1. PodStays(n)
    BY <1>0, <1>3, PodUnchanged DEF StopFails
  <2> QED
    BY <1>0, <1>3, <2>1, Shapes, Ends
       DEF StopFails, At, Within, Making, Cleaning, StartLabels, StopLabels, history
<1>4. CASE CreateUnsaved(p)
  <2>1. PodStays(n)
    BY <1>0, <1>4, PodUnchanged DEF CreateUnsaved
  <2> QED
    BY <1>0, <1>4, <2>1, Shapes, Ends
       DEF CreateUnsaved, At, Within, Making, Cleaning, StartLabels, StopLabels
<1>5. CASE Die(p)
  <2>1. PodStays(n)
    BY <1>0, <1>5, PodUnchanged DEF Die
  <2> QED
    BY <1>0, <1>5, <2>1, Shapes, Ends
       DEF Die, At, Within, Making, Cleaning, StartLabels, StopLabels, history
<1> QED
  BY <1>1, <1>2, <1>3, <1>4, <1>5

\* Where the locals and the pod of one workspace change, nothing else does.
LEMMA OnlyOne ==
  ASSUME TypeInv, NEW p \in Procs, NEW n \in Names, On(p, n),
         NEW c, call' = [call EXCEPT ![p] = c], c.name \in {n, NoName},
         \A m \in Names \ {n} :
            pod'[m] = pod[m] /\ conf'[m] = conf[m] /\ known'[m] = known[m],
         \A d : d[2] # n => (d \in dirs' <=> d \in dirs),
         applied' = applied, raced' = raced, broken' = broken \/ broken' = broken \cup {n},
         littered' = littered \/ littered' = littered \cup {n}
  PROVE  Only(p, n) /\ call'[p] = c
<1>1. call'[p] = c /\ \A q \in Procs \ {p} : call'[q] = call[q]
  BY Shapes
<1> QED
  BY <1>1 DEF Only, On

LEMMA GotoCall ==
  ASSUME TypeInv, NEW p \in Procs, NEW n \in Names, On(p, n), NEW label, Goto(p, label)
  PROVE  \E c : /\ call' = [call EXCEPT ![p] = c]
                /\ c.name = n /\ c.at = label /\ c.id = call[p].id
<1>1. PICK c : c = [call[p] EXCEPT !.at = label]
  OBVIOUS
<1>2. c.name = n /\ c.at = label /\ c.id = call[p].id
  BY <1>1, SameName DEF On, Calls
<1> QED
  BY <1>1, <1>2 DEF Goto

LEMMA ReturnCall ==
  ASSUME NEW p, Return(p)
  PROVE  /\ call' = [call EXCEPT ![p] = NoCall]
         /\ NoCall.name = NoName /\ NoCall.at = "idle" /\ NoCall.id = NoId
  BY DEF Return, NoCall

\* The steps that make a pod or its container, record it or give it up.
LEMMA PlayMoves ==
  ASSUME TypeInv, NEW p \in Procs, NEW n \in Names, On(p, n), Play(p)
  PROVE  /\ Only(p, n) /\ UNCHANGED <<dirs, conf, files, known, raced, broken>>
         /\ call[p].at = "play" /\ ~Exists(n)
         /\ call'[p].name = n /\ call'[p].at = "detect" /\ call'[p].id = call[p].id
         /\ Exists(n)' /\ pod'[n] = NewPod
<1>0. Name(p) = n
  BY SameName
<1>1. PICK c : /\ call' = [call EXCEPT ![p] = c]
               /\ c.name = n /\ c.at = "detect" /\ c.id = call[p].id
  BY GotoCall DEF Play
<1>2. /\ \A m \in Names \ {n} : pod'[m] = pod[m]
      /\ pod'[n] = NewPod
  BY <1>0, Shapes DEF Play
<1>3. Only(p, n) /\ call'[p] = c
  <2>1. UNCHANGED <<dirs, conf, files, known, applied, raced, broken, littered>>
    BY DEF Play, history
  <2>2. \A m \in Names \ {n} :
           pod'[m] = pod[m] /\ conf'[m] = conf[m] /\ known'[m] = known[m]
    BY <1>2, <2>1
  <2>3. \A d : d[2] # n => (d \in dirs' <=> d \in dirs)
    BY <2>1
  <2>4. call'[p] = c /\ \A q \in Procs \ {p} : call'[q] = call[q]
    BY <1>1, Shapes
  <2> QED
    BY <1>1, <2>1, <2>2, <2>3, <2>4 DEF Only, On
<1>4. NewPod # NoPod
  <2>1. NewPod \in Pods
    BY DEF NewPod, Pods, HostLists
  <2> QED
    BY <2>1, NamesAssumption
<1> QED
  BY <1>0, <1>1, <1>2, <1>3, <1>4 DEF Play, At, Exists, history

LEMMA ContainerMoves ==
  ASSUME TypeInv, NEW p \in Procs, NEW n \in Names, On(p, n), CreateContainer(p)
  PROVE  /\ Only(p, n) /\ UNCHANGED <<dirs, conf, files, known, raced, broken>>
         /\ call[p].at = "container" /\ Exists(n) /\ pod[n].ctr = NoId
         /\ call'[p].name = n /\ call'[p].at = "files"
         /\ Exists(n)' /\ pod'[n] = [pod[n] EXCEPT !.ctr = call'[p].id]
         /\ pod'[n].ctr = call'[p].id
         /\ call'[p].id \in Ids /\ \A m \in Names : ~Claims(m, call'[p].id)
<1>0. Name(p) = n /\ call[p] \in Calls /\ call[p].name = n
  BY SameName DEF On
<1>1. PICK id \in Ids :
         /\ files[id] = NoName
         /\ \A m \in Names : known[m] # id /\ ~HasContainer(m, id)
         /\ \A q \in Procs : call[q].id # id
         /\ pod' = [pod EXCEPT ![n].ctr = id]
         /\ call' = [call EXCEPT ![p].id = id, ![p].at = "files"]
  BY <1>0 DEF CreateContainer
<1>2. PICK c : /\ c = [call[p] EXCEPT !.id = id, !.at = "files"]
               /\ call' = [call EXCEPT ![p] = c]
  BY <1>1, Shapes
<1>3. c.name = n /\ c.at = "files" /\ c.id = id
  BY <1>0, <1>2 DEF Calls
<1>4. Exists(n) /\ pod[n].ctr = NoId
  BY <1>0 DEF CreateContainer, HasContainer
<1>5. pod[n] \in Pods
  BY <1>4, Shapes DEF Exists
<1>6. /\ \A m \in Names \ {n} : pod'[m] = pod[m]
      /\ pod'[n] = [pod[n] EXCEPT !.ctr = id]
  BY <1>1, Shapes
<1>7. pod'[n] \in Pods /\ pod'[n].ctr = id
  BY <1>5, <1>6 DEF Pods
<1>8. Only(p, n) /\ call'[p] = c
  <2>1. UNCHANGED <<dirs, conf, files, known, applied, raced, broken, littered>>
    BY DEF CreateContainer, history
  <2>2. \A m \in Names \ {n} :
           pod'[m] = pod[m] /\ conf'[m] = conf[m] /\ known'[m] = known[m]
    BY <1>6, <2>1
  <2>3. \A d : d[2] # n => (d \in dirs' <=> d \in dirs)
    BY <2>1
  <2>4. call'[p] = c /\ \A q \in Procs \ {p} : call'[q] = call[q]
    BY <1>2, Shapes
  <2> QED
    BY <1>3, <2>1, <2>2, <2>3, <2>4 DEF Only, On
<1>9. \A m \in Names : ~Claims(m, id)
  BY <1>1, NamesAssumption DEF Claims
<1> QED
  BY <1>0, <1>3, <1>4, <1>6, <1>7, <1>8, <1>9, NamesAssumption
     DEF CreateContainer, At, Exists, history

LEMMA WriteMoves ==
  ASSUME TypeInv, NEW p \in Procs, NEW n \in Names, On(p, n), WritePodFiles(p)
  PROVE  /\ Only(p, n) /\ UNCHANGED <<pod, dirs, conf, known, raced, broken>>
         /\ call[p].at = "files" /\ call[p].id \in Ids
         /\ call'[p].at = "save" /\ call'[p].name = n /\ call'[p].id = call[p].id
         /\ files' = [files EXCEPT ![call[p].id] = n]
<1>0. Name(p) = n /\ call[p] \in Calls /\ Fits(call[p])
  BY SameName, FieldTypes
<1>1. PICK c : /\ call' = [call EXCEPT ![p] = c]
               /\ c.name = n /\ c.at = "save" /\ c.id = call[p].id
  BY GotoCall DEF WritePodFiles
<1>2. Only(p, n) /\ call'[p] = c
  BY <1>1, OnlyOne DEF WritePodFiles, history
<1> QED
  BY <1>0, <1>1, <1>2 DEF WritePodFiles, At, Fits, history

LEMMA CreateEndMoves ==
  ASSUME TypeInv, NEW p \in Procs, NEW n \in Names, On(p, n), CreateEnd(p)
  PROVE  /\ Only(p, n) /\ UNCHANGED <<pod, dirs, conf, files, raced, broken>>
         /\ call[p].at = "save" /\ call[p].id \in Ids
         /\ call'[p].at = "idle" /\ call'[p].name = NoName /\ call'[p].id = NoId
         /\ known'[n] = call[p].id
<1>0. Name(p) = n /\ call[p] \in Calls /\ Fits(call[p])
  BY SameName, FieldTypes
<1>1. Only(p, n) /\ call'[p] = NoCall
  BY <1>0, ReturnCall, OnlyOne, Shapes DEF CreateEnd, history
<1> QED
  BY <1>0, <1>1, ReturnCall, Shapes DEF CreateEnd, At, Fits, history

LEMMA EarlyMoves ==
  ASSUME TypeInv, NEW p \in Procs, NEW n \in Names, On(p, n), CreateFailsEarly(p)
  PROVE  /\ Only(p, n) /\ UNCHANGED <<dirs, conf, files, known, raced>>
         /\ call[p].at \in {"prepare", "play"}
         /\ call'[p].at = "idle" /\ call'[p].name = NoName /\ call'[p].id = NoId
         /\ \/ UNCHANGED <<pod, broken>>
            \/ ~Exists(n) /\ pod'[n] = NewPod /\ n \in broken'
<1>0. Name(p) = n
  BY SameName
<1>1. \/ UNCHANGED <<pod, broken>>
      \/ /\ ~Exists(n) /\ pod'[n] = NewPod /\ broken' = broken \cup {n}
         /\ \A m \in Names \ {n} : pod'[m] = pod[m]
  BY <1>0, Shapes DEF CreateFailsEarly
<1>2. Only(p, n) /\ call'[p] = NoCall
  BY <1>1, ReturnCall, OnlyOne DEF CreateFailsEarly
<1> QED
  BY <1>1, <1>2, ReturnCall DEF CreateFailsEarly

LEMMA CreateFailsMoves ==
  ASSUME TypeInv, NEW p \in Procs, NEW n \in Names, On(p, n), CreateFails(p)
  PROVE  /\ Only(p, n) /\ UNCHANGED <<pod, dirs, conf, known, raced, broken>>
         /\ Within(p, CreateLabels) /\ Within(p, Making)
         /\ call'[p].at = "undo" /\ call'[p].name = n /\ call'[p].id = call[p].id
         /\ \/ files' = files
            \/ call[p].id \in Ids /\ files' = [files EXCEPT ![call[p].id] = n]
<1>0. Name(p) = n /\ call[p] \in Calls /\ Fits(call[p])
  BY SameName, FieldTypes
<1>1. PICK c : /\ call' = [call EXCEPT ![p] = c]
               /\ c.name = n /\ c.at = "undo" /\ c.id = call[p].id
  BY GotoCall DEF CreateFails
<1>2. Only(p, n) /\ call'[p] = c
  BY <1>1, OnlyOne DEF CreateFails, history
<1>3. Within(p, Making) /\ Within(p, CreateLabels)
  BY DEF CreateFails, Undone, Within, Making, CreateLabels
<1>4. \/ files' = files
      \/ call[p].id \in Ids /\ files' = [files EXCEPT ![call[p].id] = n]
  BY <1>0 DEF CreateFails, At, Fits
<1> QED
  BY <1>1, <1>2, <1>3, <1>4 DEF CreateFails, history

LEMMA UndoMoves ==
  ASSUME TypeInv, NEW p \in Procs, NEW n \in Names, On(p, n), Undo(p)
  PROVE  /\ Only(p, n) /\ UNCHANGED <<dirs, conf, files, known, raced>>
         /\ call[p].at = "undo"
         /\ call'[p].at = "idle" /\ call'[p].name = NoName /\ call'[p].id = NoId
         /\ ~Exists(n)' \/ (pod'[n] = pod[n] /\ n \in broken')
<1>0. Name(p) = n
  BY SameName
<1>1. \A m \in Names \ {n} : pod'[m] = pod[m]
  BY <1>0, Shapes DEF Undo
<1>2. ~Exists(n)' \/ (pod'[n] = pod[n] /\ n \in broken')
  BY <1>0, Shapes DEF Undo, Exists
<1>3. Only(p, n) /\ call'[p] = NoCall
  BY <1>0, <1>1, ReturnCall, OnlyOne DEF Undo
<1> QED
  BY <1>2, <1>3, ReturnCall DEF Undo, At

\* The steps of Remove.
LEMMA CheckMoves ==
  ASSUME TypeInv, NEW p \in Procs, NEW n \in Names, On(p, n), Check(p)
  PROVE  /\ Only(p, n) /\ UNCHANGED <<pod, dirs, conf, files, known, raced, broken>>
         /\ call[p].at = "check"
         /\ \/ call'[p].at = "idle" /\ call'[p].name = NoName /\ call'[p].id = NoId
            \/ /\ call'[p].name = n /\ call'[p].id = call[p].id
               /\ \/ /\ ~HasContainer(n, call[p].id)
                     /\ IF files[call[p].id] = n
                        THEN call'[p].at = "gonedirs" ELSE call'[p].at = "gonefiles"
                  \/ ~Up(n, "workspace") /\ call'[p].at = "rm"
<1>0. Name(p) = n
  BY SameName
<1>1. CASE Return(p)
  <2>1. Only(p, n) /\ call'[p] = NoCall
    BY <1>1, ReturnCall, OnlyOne DEF Check, history
  <2> QED
    BY <1>1, <2>1, ReturnCall DEF Check, At, history
<1>2. ASSUME NEW label, Goto(p, label),
             \/ /\ ~HasContainer(n, call[p].id)
                /\ label = IF files[call[p].id] = n THEN "gonedirs" ELSE "gonefiles"
             \/ ~Up(n, "workspace") /\ label = "rm"
      PROVE  /\ Only(p, n) /\ call'[p].name = n /\ call'[p].id = call[p].id
             /\ call'[p].at = label
  <2>1. PICK c : /\ call' = [call EXCEPT ![p] = c]
                 /\ c.name = n /\ c.at = label /\ c.id = call[p].id
    BY <1>2, GotoCall
  <2> QED
    BY <2>1, OnlyOne DEF Check, history
<1>3. \/ Return(p)
      \/ \E label :
            /\ Goto(p, label)
            /\ \/ /\ ~HasContainer(n, call[p].id)
                  /\ label = IF files[call[p].id] = n THEN "gonedirs" ELSE "gonefiles"
               \/ ~Up(n, "workspace") /\ label = "rm"
  BY <1>0 DEF Check
<1> QED
  BY <1>1, <1>2, <1>3 DEF Check, At, history

LEMMA RemovePodMoves ==
  ASSUME TypeInv, NEW p \in Procs, NEW n \in Names, On(p, n), RemovePod(p)
  PROVE  /\ Only(p, n) /\ UNCHANGED <<dirs, conf, files, known, raced, broken>>
         /\ call[p].at = "rm" /\ ~Exists(n)'
         /\ call'[p].name = n /\ call'[p].at = "rmfiles" /\ call'[p].id = call[p].id
<1>0. Name(p) = n
  BY SameName
<1>1. PICK c : /\ call' = [call EXCEPT ![p] = c]
               /\ c.name = n /\ c.at = "rmfiles" /\ c.id = call[p].id
  BY GotoCall DEF RemovePod
<1>2. ~Exists(n)' /\ \A m \in Names \ {n} : pod'[m] = pod[m]
  BY <1>0, Shapes DEF RemovePod, Exists
<1>3. call'[p] = c /\ \A q \in Procs \ {p} : call'[q] = call[q]
  BY <1>1, Shapes
<1>4. Only(p, n)
  BY <1>1, <1>2, <1>3 DEF Only, On, RemovePod, history
<1> QED
  BY <1>1, <1>2, <1>3, <1>4 DEF RemovePod, At, history

LEMMA PodFilesMoves ==
  ASSUME TypeInv, NEW p \in Procs, NEW n \in Names, On(p, n), CleanupPodFiles(p)
  PROVE  /\ Only(p, n) /\ UNCHANGED <<pod, dirs, conf, known, raced, broken>>
         /\ call'[p].name = n /\ call'[p].id = call[p].id /\ call[p].id \in Ids
         /\ \/ call[p].at = "rmfiles" /\ call'[p].at = "rmdirs"
            \/ call[p].at = "gonefiles" /\ call'[p].at = "drop"
         /\ \/ files' = [files EXCEPT ![call[p].id] = NoName]
            \/ files' = files /\ n \in littered'
<1>0. Name(p) = n
  BY SameName
<1>1. PICK label : /\ Goto(p, label)
                   /\ \/ At(p, "rmfiles") /\ label = "rmdirs"
                      \/ At(p, "gonefiles") /\ label = "drop"
  BY DEF CleanupPodFiles
<1>2. PICK c : /\ call' = [call EXCEPT ![p] = c]
               /\ c.name = n /\ c.at = label /\ c.id = call[p].id
  BY <1>1, GotoCall
<1>3. Only(p, n) /\ call'[p] = c
  <2>1. /\ UNCHANGED <<pod, dirs, conf, known, applied, raced, broken>>
        /\ littered' = littered \/ littered' = littered \cup {n}
    BY <1>0 DEF CleanupPodFiles
  <2>2. call'[p] = c /\ \A q \in Procs \ {p} : call'[q] = call[q]
    BY <1>2, Shapes
  <2> QED
    BY <1>2, <2>1, <2>2 DEF Only, On
<1>4. call[p].id \in Ids
  BY FieldTypes DEF CleanupPodFiles, At, Fits, Using, RemoveLabels
<1> QED
  BY <1>0, <1>1, <1>2, <1>3, <1>4 DEF CleanupPodFiles, At

LEMMA TempDirsMoves ==
  ASSUME TypeInv, NEW p \in Procs, NEW n \in Names, On(p, n), CleanupTempDirs(p)
  PROVE  /\ Only(p, n) /\ UNCHANGED <<pod, files, known, raced, broken>>
         /\ call'[p].name = n /\ call'[p].id = call[p].id
         /\ \/ call[p].at = "gonedirs" /\ call'[p].at = "gonefiles"
            \/ call[p].at = "rmdirs" /\ call'[p].at = "drop"
         /\ Tidy(n)'
<1>0. Name(p) = n
  BY SameName
<1>1. PICK label : /\ Goto(p, label)
                   /\ \/ At(p, "gonedirs") /\ label = "gonefiles"
                      \/ At(p, "rmdirs") /\ label = "drop"
  BY DEF CleanupTempDirs
<1>2. PICK c : /\ call' = [call EXCEPT ![p] = c]
               /\ c.name = n /\ c.at = label /\ c.id = call[p].id
  BY <1>1, GotoCall
<1>3. PICK left \in SUBSET {d \in dirs : d[2] = n} :
         /\ dirs' = {d \in dirs : d[2] # n} \cup left
         /\ littered' = IF left = {} THEN littered ELSE littered \cup {n}
         /\ conf' = [conf EXCEPT ![n] = NoConf] \/ conf' = conf
  BY <1>0 DEF CleanupTempDirs
<1>4. /\ \A d : d[2] # n => (d \in dirs' <=> d \in dirs)
      /\ \A m \in Names \ {n} : conf'[m] = conf[m]
      /\ littered' = littered \/ littered' = littered \cup {n}
      /\ Tidy(n)'
  BY <1>3, Shapes DEF Tidy
<1>5. Only(p, n) /\ call'[p] = c
  <2>1. UNCHANGED <<pod, known, applied, raced, broken>>
    BY DEF CleanupTempDirs
  <2>2. call'[p] = c /\ \A q \in Procs \ {p} : call'[q] = call[q]
    BY <1>2, Shapes
  <2> QED
    BY <1>2, <1>4, <2>1, <2>2 DEF Only, On
<1> QED
  BY <1>1, <1>2, <1>4, <1>5 DEF CleanupTempDirs, At

LEMMA RemoveEndMoves ==
  ASSUME TypeInv, NEW p \in Procs, NEW n \in Names, On(p, n), RemoveEnd(p)
  PROVE  /\ Only(p, n) /\ UNCHANGED <<pod, dirs, conf, files, raced, broken, littered>>
         /\ call[p].at = "drop"
         /\ call'[p].at = "idle" /\ call'[p].name = NoName /\ call'[p].id = NoId
         /\ known'[n] = IF known[n] = call[p].id THEN NoId ELSE known[n]
<1>0. Name(p) = n
  BY SameName
<1>1. /\ known'[n] = IF known[n] = call[p].id THEN NoId ELSE known[n]
      /\ \A m \in Names \ {n} : known'[m] = known[m]
  BY <1>0, Shapes DEF RemoveEnd
<1>2. Only(p, n) /\ call'[p] = NoCall
  BY <1>1, ReturnCall, OnlyOne DEF RemoveEnd, history
<1> QED
  BY <1>1, <1>2, ReturnCall DEF RemoveEnd, At, history

LEMMA RemoveFailsMoves ==
  ASSUME TypeInv, NEW p \in Procs, NEW n \in Names, On(p, n), RemoveFails(p)
  PROVE  /\ Only(p, n) /\ UNCHANGED <<dirs, conf, files, known, raced, broken, littered>>
         /\ call[p].at \in {"check", "rm", "drop"}
         /\ call'[p].at = "idle" /\ call'[p].name = NoName /\ call'[p].id = NoId
         /\ pod' = pod \/ (call[p].at = "rm" /\ ~Exists(n)')
<1>0. Name(p) = n
  BY SameName
<1>1. /\ pod' = pod \/ (call[p].at = "rm" /\ ~Exists(n)')
      /\ \A m \in Names \ {n} : pod'[m] = pod[m]
  BY <1>0, Shapes DEF RemoveFails, At, Exists
<1>2. Only(p, n) /\ call'[p] = NoCall
  BY <1>1, ReturnCall, OnlyOne DEF RemoveFails, history
<1> QED
  BY <1>1, <1>2, ReturnCall DEF RemoveFails, history

\* The manager begins a call.
Begins(p, n) == CreateBegin(p, n) \/ StartBegin(p, n) \/ StopBegin(p, n) \/ RemoveBegin(p, n)

LEMMA BeginMoves ==
  ASSUME TypeInv, NEW p \in Procs, NEW n \in Names, Begins(p, n)
  PROVE  /\ Only(p, n) /\ UNCHANGED <<pod, dirs, conf, files, known, broken>>
         /\ n \notin raced /\ (n \in raced' <=> Busy(n)) /\ applied'[n] = NoPlan
         /\ call[p].at = "idle" /\ call[p].name = NoName /\ call'[p].name = n
         /\ \/ call'[p].at = "prepare" /\ call'[p].id = NoId /\ known[n] = NoId
            \/ /\ call'[p].at \in {"name", "inspect", "check"}
               /\ call'[p].id = known[n] /\ known[n] \in Ids
<1>1. PICK c : /\ Begin(p, n, c) /\ c.name = n
               /\ \/ c.at = "prepare" /\ c.id = NoId /\ known[n] = NoId
                  \/ c.at \in {"name", "inspect", "check"} /\ c.id = known[n] /\ known[n] \in Ids
  <2>1. CASE CreateBegin(p, n)
    <3>1. PICK cred : /\ known[n] = NoId
                      /\ Begin(p, n, [NoCall EXCEPT !.at = "prepare", !.name = n,
                                                   !.cred = cred])
      BY <2>1 DEF CreateBegin
    <3>2. PICK c : c = [NoCall EXCEPT !.at = "prepare", !.name = n, !.cred = cred]
      OBVIOUS
    <3>3. c.name = n /\ c.at = "prepare" /\ c.id = NoId
      BY <3>2 DEF NoCall
    <3> QED
      BY <3>1, <3>2, <3>3
  <2>2. CASE StartBegin(p, n)
    <3>1. PICK c : c = [NoCall EXCEPT !.at = "name", !.name = n, !.id = known[n]]
      OBVIOUS
    <3>2. c.name = n /\ c.at = "name" /\ c.id = known[n]
      BY <3>1 DEF NoCall
    <3>3. Begin(p, n, c) /\ known[n] \in Ids
      BY <2>2, <3>1, Shapes DEF StartBegin
    <3> QED
      BY <3>2, <3>3
  <2>3. CASE StopBegin(p, n)
    <3>1. PICK c : c = [NoCall EXCEPT !.at = "inspect", !.name = n, !.id = known[n]]
      OBVIOUS
    <3>2. c.name = n /\ c.at = "inspect" /\ c.id = known[n]
      BY <3>1 DEF NoCall
    <3>3. Begin(p, n, c) /\ known[n] \in Ids
      BY <2>3, <3>1, Shapes DEF StopBegin
    <3> QED
      BY <3>2, <3>3
  <2>4. CASE RemoveBegin(p, n)
    <3>1. PICK c : c = [NoCall EXCEPT !.at = "check", !.name = n, !.id = known[n]]
      OBVIOUS
    <3>2. c.name = n /\ c.at = "check" /\ c.id = known[n]
      BY <3>1 DEF NoCall
    <3>3. Begin(p, n, c) /\ known[n] \in Ids
      BY <2>4, <3>1, Shapes DEF RemoveBegin
    <3> QED
      BY <3>2, <3>3
  <2> QED
    BY <2>1, <2>2, <2>3, <2>4 DEF Begins
<1>2. call'[p] = c /\ \A q \in Procs \ {p} : call'[q] = call[q]
  BY <1>1, Shapes DEF Begin
<1>3. call[p].at = "idle" /\ call[p].name = NoName
  BY <1>1, FieldTypes DEF Begin, At, Fits
<1>4. Only(p, n) /\ applied'[n] = NoPlan /\ (n \in raced' <=> Busy(n))
  BY <1>1, <1>2, <1>3, Shapes DEF Begin, Only
<1> QED
  BY <1>1, <1>2, <1>3, <1>4 DEF Begin

\* Every step is that of one call on one workspace, or a restart of the machine.
Step(p, n) ==
    \/ Begins(p, n)
    \/ On(p, n) /\ \/ Only(p, n) /\ Quiet(p, n)
                   \/ Play(p) \/ CreateContainer(p) \/ WritePodFiles(p) \/ CreateEnd(p)
                   \/ CreateFailsEarly(p) \/ CreateFails(p) \/ Undo(p)
                   \/ Check(p) \/ RemovePod(p) \/ CleanupPodFiles(p) \/ CleanupTempDirs(p)
                   \/ RemoveEnd(p) \/ RemoveFails(p)

Call(p) == Create(p) \/ Start(p) \/ Stop(p) \/ Remove(p) \/ Die(p)

LEMMA BusyOrBegins ==
  ASSUME NEW p \in Procs, Call(p)
  PROVE  ~At(p, "idle") \/ \E n \in Names : Begins(p, n)
  BY DEF Call, Begins, At, Create, Start, Stop, Remove, Prepare, Play, Detect, Services,
         Provision, Halt, Certs, CreateContainer, WritePodFiles, CreateEnd,
         CreateFailsEarly, CreateFails, Undone, Undo, CreateUnsaved,
         ReadPodName, StartPostgres, StartOnecli, ReadPolicy, StartGuard, ClearRules,
         CreateRule, WriteConfig, SetFirewall, StartHandler, ClearFirewall, StartPod,
         StartEnd, StartFails, Inspect, StopContainer, StopFails, Check, RemovePod,
         CleanupPodFiles, CleanupTempDirs, RemoveEnd, RemoveFails, Die, CreateLabels,
         StartLabels, StopLabels

LEMMA CallSteps ==
  ASSUME TypeInv, NEW p \in Procs, Call(p)
  PROVE  \E n \in Names : (Begins(p, n) \/ On(p, n)) /\ Step(p, n)
<1>1. CASE \E n \in Names : Begins(p, n)
  BY <1>1 DEF Step
<1>2. CASE ~\E n \in Names : Begins(p, n)
  <2>1. ~At(p, "idle")
    BY <1>2, BusyOrBegins
  <2>2. PICK n \in Names : On(p, n)
    BY <2>1, FieldTypes DEF On
  <2>3. Step(p, n)
    BY <1>2, <2>2, QuietCreate, QuietStart, QuietOther
       DEF Begins, Call, Create, Start, Stop, Remove, Step
  <2> QED
    BY <2>2, <2>3
<1> QED
  BY <1>1, <1>2

LEMMA NextSteps ==
  ASSUME TypeInv, Next
  PROVE  Reboot \/ \E p \in Procs, n \in Names : Step(p, n)
  BY CallSteps DEF Next, Call

\* A step touches no other workspace.
LEMMA StepOnly ==
  ASSUME TypeInv, NEW p \in Procs, NEW n \in Names, Step(p, n)
  PROVE  Only(p, n)
<1>1. CASE Begins(p, n) \/ (On(p, n) /\ Only(p, n) /\ Quiet(p, n))
  BY <1>1, BeginMoves
<1>2. CASE On(p, n) /\ (Play(p) \/ CreateContainer(p) \/ WritePodFiles(p) \/ CreateEnd(p))
  BY <1>2, PlayMoves, ContainerMoves, WriteMoves, CreateEndMoves
<1>3. CASE On(p, n) /\ (CreateFailsEarly(p) \/ CreateFails(p) \/ Undo(p))
  BY <1>3, EarlyMoves, CreateFailsMoves, UndoMoves
<1>4. CASE On(p, n) /\ (Check(p) \/ RemovePod(p) \/ CleanupPodFiles(p))
  BY <1>4, CheckMoves, RemovePodMoves, PodFilesMoves
<1>5. CASE On(p, n) /\ (CleanupTempDirs(p) \/ RemoveEnd(p) \/ RemoveFails(p))
  BY <1>5, TempDirsMoves, RemoveEndMoves, RemoveFailsMoves
<1> QED
  BY <1>1, <1>2, <1>3, <1>4, <1>5 DEF Step

LEMMA RebootMoves ==
  ASSUME TypeInv, Reboot
  PROVE  /\ UNCHANGED <<dirs, conf, files, known, call, raced, broken, littered>>
         /\ \A n \in Names :
               /\ Exists(n)' <=> Exists(n)
               /\ Exists(n) => pod'[n].ctr = pod[n].ctr
               /\ ~Up(n, "workspace")' /\ applied'[n] = NoPlan
         /\ \A p \in Procs : call[p].at = "idle" /\ call[p].name = NoName
<1>1. ASSUME NEW n \in Names
      PROVE  /\ Exists(n)' <=> Exists(n)
             /\ Exists(n) => pod'[n].ctr = pod[n].ctr
             /\ ~Up(n, "workspace")'
  <2>1. CASE Exists(n)
    <3>1. pod[n] \in Pods
      BY <2>1, Shapes DEF Exists
    <3>2. pod'[n] = Halted(pod[n], Containers)
      BY <2>1 DEF Reboot
    <3>3. Halted(pod[n], Containers) \in Pods
      BY <3>1, HaltedTyped
    <3>4. /\ Halted(pod[n], Containers).ctr = pod[n].ctr
          /\ Halted(pod[n], Containers).up = {}
      BY <3>1 DEF Halted, Pods
    <3>5. pod'[n] # NoPod
      BY <3>2, <3>3, NamesAssumption
    <3> QED
      BY <2>1, <3>2, <3>4, <3>5 DEF Exists, Up
  <2>2. CASE ~Exists(n)
    BY <2>2 DEF Reboot, Exists, Up
  <2> QED
    BY <2>1, <2>2
<1>2. \A p \in Procs : call[p].at = "idle" /\ call[p].name = NoName
  BY FieldTypes DEF Reboot, At, Fits
<1> QED
  BY <1>1, <1>2 DEF Reboot

-----------------------------------------------------------------------------
(* Ids.                                                                    *)

\* Whatever claims an id after a step has claimed it before, unless the id is new.
LEMMA ClaimsBefore ==
  ASSUME TypeInv, NEW p \in Procs, NEW n \in Names, Step(p, n),
         NEW m \in Names, NEW id \in Ids, Claims(m, id)'
  PROVE  Claims(m, id) \/ (m = n /\ \A k \in Names : ~Claims(k, id))
<1> DEFINE Goal == Claims(m, id) \/ (m = n /\ \A k \in Names : ~Claims(k, id))
<1> USE NamesAssumption
<1>1. CASE Begins(p, n)
  BY <1>1, BeginMoves DEF Claims, Only, On, HasContainer, Exists
<1>2. CASE On(p, n) /\ Only(p, n) /\ Quiet(p, n)
  BY <1>2 DEF Claims, Only, On, HasContainer, Exists, Quiet, NoCall
<1>3. CASE On(p, n) /\ Play(p)
  BY <1>3, PlayMoves DEF Claims, Only, On, HasContainer, Exists, NewPod
<1>4. CASE On(p, n) /\ CreateContainer(p)
  <2>1. /\ Only(p, n) /\ UNCHANGED <<files, known>>
        /\ call'[p].name = n /\ pod'[n].ctr = call'[p].id
        /\ \A k \in Names : ~Claims(k, call'[p].id)
    BY <1>4, ContainerMoves
  <2>2. CASE m # n
    BY <2>1, <2>2 DEF Claims, Only, On, HasContainer, Exists
  <2>3. CASE m = n /\ id # call'[p].id
    <3>1. ~HasContainer(n, id)'
      BY <2>1, <2>3 DEF HasContainer
    <3> QED
      BY <2>1, <2>3, <3>1 DEF Claims, Only, On
  <2> QED
    BY <2>1, <2>2, <2>3
<1>5. CASE On(p, n) /\ CreateEnd(p)
  BY <1>5, CreateEndMoves, Shapes DEF Claims, Only, On, HasContainer, Exists
<1>6. CASE On(p, n) /\ CreateFails(p)
  BY <1>6, CreateFailsMoves, Shapes DEF Claims, Only, On, HasContainer, Exists
<1>7. CASE On(p, n) /\ Undo(p)
  BY <1>7, UndoMoves DEF Claims, Only, On, HasContainer, Exists
<1>8. CASE On(p, n) /\ Check(p)
  BY <1>8, CheckMoves DEF Claims, Only, On, HasContainer, Exists
<1>9. CASE On(p, n) /\ RemovePod(p)
  BY <1>9, RemovePodMoves DEF Claims, Only, On, HasContainer, Exists
<1>10. CASE On(p, n) /\ CleanupPodFiles(p)
  BY <1>10, PodFilesMoves, Shapes DEF Claims, Only, On, HasContainer, Exists
<1>11. CASE On(p, n) /\ CleanupTempDirs(p)
  BY <1>11, TempDirsMoves DEF Claims, Only, On, HasContainer, Exists
<1>12. CASE On(p, n) /\ WritePodFiles(p)
  BY <1>12, WriteMoves, Shapes DEF Claims, Only, On, HasContainer, Exists
<1>13. CASE On(p, n) /\ CreateFailsEarly(p)
  BY <1>13, EarlyMoves DEF Claims, Only, On, HasContainer, Exists, NewPod
<1>14. CASE On(p, n) /\ RemoveEnd(p)
  BY <1>14, RemoveEndMoves DEF Claims, Only, On, HasContainer, Exists
<1>15. CASE On(p, n) /\ RemoveFails(p)
  BY <1>15, RemoveFailsMoves DEF Claims, Only, On, HasContainer, Exists
<1> QED
  BY <1>1, <1>2, <1>3, <1>4, <1>5, <1>6, <1>7, <1>8, <1>9, <1>10, <1>11, <1>12, <1>13,
     <1>14, <1>15 DEF Step

LEMMA OwnNext ==
  ASSUME TypeInv, OwnInv, [Next]_vars
  PROVE  OwnInv'
<1>1. CASE UNCHANGED vars
  BY <1>1 DEF vars, OwnInv, Claims, HasContainer, Exists, On
<1>2. CASE Reboot
  BY <1>2, RebootMoves DEF OwnInv, Claims, HasContainer, On
<1>3. ASSUME NEW p \in Procs, NEW n \in Names, Step(p, n)
      PROVE  OwnInv'
  <2> SUFFICES ASSUME NEW id \in Ids, NEW l \in Names, NEW m \in Names,
                      Claims(l, id)', Claims(m, id)'
               PROVE  l = m
    BY DEF OwnInv
  <2> QED
    BY <1>3, ClaimsBefore DEF OwnInv
<1> QED
  BY <1>1, <1>2, <1>3, NextSteps

-----------------------------------------------------------------------------
(* What the manager has on record.                                         *)

LEMMA KnownNext ==
  ASSUME TypeInv, KnownInv, [Next]_vars
  PROVE  KnownInv'
<1>1. CASE UNCHANGED vars
  BY <1>1 DEF vars, KnownInv, On, Within
<1>2. CASE Reboot
  BY <1>2, RebootMoves DEF KnownInv, On, Within
<1>3. ASSUME NEW p \in Procs, NEW n \in Names, Step(p, n)
      PROVE  KnownInv'
  <2> DEFINE P(m) ==
        /\ m \notin raced => \A q, r \in Procs : On(q, m) /\ On(r, m) => q = r
        /\ \A q, r \in Procs :
              On(q, m) /\ On(r, m) => ~(Within(q, CreateLabels) /\ Within(r, Using))
        /\ \A q \in Procs : On(q, m) =>
              /\ Within(q, CreateLabels) /\ m \notin raced => known[m] = NoId
              /\ Within(q, Using) => known[m] \in {call[q].id, NoId}
              /\ Within(q, Using) /\ m \notin raced => known[m] = call[q].id
  <2>0. ASSUME NEW m \in Names PROVE P(m)
    BY DEF KnownInv
  <2>1. ASSUME NEW m \in Names, m # n, Only(p, n)
        PROVE  P(m)'
    BY <2>0, <2>1, NamesAssumption DEF Only, On, Within
  <2>2. Only(p, n) /\ P(n)'
    <3> USE <2>0 DEF On, Within
    <3>1. CASE Begins(p, n)
      <4>1. /\ Within(p, CreateLabels)' => known[n] = NoId /\ ~Within(p, Using)'
            /\ Within(p, Using)' => known[n] = call'[p].id /\ known[n] # NoId
            /\ Only(p, n) /\ known' = known /\ n \notin raced /\ (n \in raced' <=> Busy(n))
        BY <3>1, BeginMoves, NamesAssumption
           DEF CreateLabels, Using, StartLabels, StopLabels, RemoveLabels
      <4>2. ASSUME NEW q \in Procs, On(q, n), Within(q, Using) PROVE known[n] # NoId
        BY <2>0, <4>1, <4>2, FieldTypes, NamesAssumption DEF Fits
      <4>3. n \notin raced' => \A q \in Procs \ {p} : ~On(q, n)'
        BY <4>1 DEF Only, Busy
      <4>4. \A q, r \in Procs :
               On(q, n)' /\ On(r, n)' => ~(Within(q, CreateLabels)' /\ Within(r, Using)')
        BY <4>1, <4>2 DEF Only
      <4> QED
        BY <4>1, <4>2, <4>3, <4>4 DEF Only
    <3>2. CASE On(p, n) /\ Only(p, n) /\ Quiet(p, n)
      BY <3>2, NamesAssumption DEF Only, Quiet, NoCall, Making, CreateLabels, Using,
         StartLabels, StopLabels, RemoveLabels
    <3>3. CASE On(p, n) /\ Play(p)
      BY <3>3, PlayMoves DEF Only, CreateLabels, Using, StartLabels, StopLabels,
         RemoveLabels
    <3>4. CASE On(p, n) /\ CreateContainer(p)
      <4>1. /\ Within(p, CreateLabels) /\ Within(p, CreateLabels)' /\ ~Within(p, Using)'
            /\ Only(p, n) /\ UNCHANGED <<known, raced>> /\ call'[p].name = n
        BY <3>4, ContainerMoves
           DEF CreateLabels, Using, StartLabels, StopLabels, RemoveLabels
      <4> QED
        BY <3>4, <4>1 DEF Only
    <3>5. CASE On(p, n) /\ CreateEnd(p)
      BY <3>5, CreateEndMoves DEF Only, CreateLabels, Using, StartLabels, StopLabels,
         RemoveLabels
    <3>6. CASE On(p, n) /\ CreateFails(p)
      BY <3>6, CreateFailsMoves DEF Only, Making, CreateLabels, Using, StartLabels,
         StopLabels, RemoveLabels
    <3>7. CASE On(p, n) /\ Undo(p)
      BY <3>7, UndoMoves DEF Only, CreateLabels, Using, StartLabels, StopLabels,
         RemoveLabels
    <3>8. CASE On(p, n) /\ Check(p)
      BY <3>8, CheckMoves DEF Only, CreateLabels, Using, StartLabels, StopLabels,
         RemoveLabels
    <3>9. CASE On(p, n) /\ RemovePod(p)
      BY <3>9, RemovePodMoves DEF Only, CreateLabels, Using, StartLabels, StopLabels,
         RemoveLabels
    <3>10. CASE On(p, n) /\ CleanupPodFiles(p)
      BY <3>10, PodFilesMoves DEF Only, CreateLabels, Using, StartLabels, StopLabels,
         RemoveLabels
    <3>11. CASE On(p, n) /\ CleanupTempDirs(p)
      BY <3>11, TempDirsMoves DEF Only, CreateLabels, Using, StartLabels, StopLabels,
         RemoveLabels
    <3>12. CASE On(p, n) /\ WritePodFiles(p)
      BY <3>12, WriteMoves DEF Only, CreateLabels, Using, StartLabels, StopLabels,
         RemoveLabels
    <3>13. CASE On(p, n) /\ CreateFailsEarly(p)
      BY <3>13, EarlyMoves DEF Only, CreateLabels, Using, StartLabels, StopLabels,
         RemoveLabels
    <3>14. CASE On(p, n) /\ RemoveEnd(p)
      BY <3>14, RemoveEndMoves DEF Only, CreateLabels, Using, StartLabels, StopLabels,
         RemoveLabels
    <3>15. CASE On(p, n) /\ RemoveFails(p)
      BY <3>15, RemoveFailsMoves DEF Only, CreateLabels, Using, StartLabels, StopLabels,
         RemoveLabels
    <3> QED
      BY <1>3, <3>1, <3>2, <3>3, <3>4, <3>5, <3>6, <3>7, <3>8, <3>9, <3>10, <3>11, <3>12,
         <3>13, <3>14, <3>15 DEF Step
  <2> QED
    BY <2>1, <2>2 DEF KnownInv
<1> QED
  BY <1>1, <1>2, <1>3, NextSteps

-----------------------------------------------------------------------------
(* Pods.                                                                   *)

\* A step on one workspace leaves the file of another alone.
LEMMA FilesOfOthers ==
  ASSUME TypeInv, OwnInv, NEW p \in Procs, NEW n \in Names, Step(p, n),
         NEW m \in Names, m # n, NEW id \in Ids, Claims(m, id)
  PROVE  files'[id] = files[id]
<1>1. CASE Begins(p, n)
  BY <1>1, BeginMoves
<1>2. ASSUME On(p, n), call[p].id \in Ids PROVE id # call[p].id
  BY <1>2 DEF OwnInv, Claims
<1>3. CASE On(p, n) /\ Only(p, n) /\ Quiet(p, n)
  BY <1>3 DEF Quiet
<1>4. CASE On(p, n) /\ (Play(p) \/ CreateContainer(p) \/ Undo(p) \/ Check(p) \/ RemovePod(p)
                           \/ CleanupTempDirs(p) \/ CreateEnd(p) \/ CreateFailsEarly(p)
                           \/ RemoveEnd(p) \/ RemoveFails(p))
  BY <1>4, PlayMoves, ContainerMoves, UndoMoves, CheckMoves, RemovePodMoves, TempDirsMoves,
     CreateEndMoves, EarlyMoves, RemoveEndMoves, RemoveFailsMoves
<1>5. CASE On(p, n) /\ (WritePodFiles(p) \/ CreateFails(p) \/ CleanupPodFiles(p))
  BY <1>2, <1>5, WriteMoves, CreateFailsMoves, PodFilesMoves, Shapes
<1> QED
  BY <1>1, <1>3, <1>4, <1>5 DEF Step

\* PodInv for one workspace.
PodOK(n) ==
    /\ \A p \in Procs : On(p, n) /\ Within(p, Making) =>
          /\ Exists(n) /\ pod[n].ctr = call[p].id /\ known[n] = NoId
          /\ \A q \in Procs \ {p} : On(q, n) => ~Within(q, Making)
          /\ Within(p, {"save"}) => files[call[p].id] = n
    /\ \A p \in Procs : On(p, n) /\ Within(p, CreateLabels) /\ ~Exists(n) => known[n] = NoId
    /\ \A p \in Procs : On(p, n) /\ Within(p, Cleaning) => ~Exists(n)
    /\ Exists(n) => Kept(n) \/ \E p \in Procs : On(p, n) /\ Within(p, Making)

LEMMA PodOther ==
  ASSUME TypeInv, OwnInv, NEW p \in Procs, NEW n \in Names, Step(p, n), Only(p, n),
         NEW m \in Names, m # n, PodOK(m)
  PROVE  PodOK(m)'
<1>1. ASSUME Kept(m) PROVE Kept(m)'
  <2>1. known[m] \in Ids /\ Claims(m, known[m])
    BY <1>1, Shapes DEF Kept, Claims
  <2>2. files'[known[m]] = files[known[m]]
    BY <2>1, FilesOfOthers
  <2> QED
    BY <1>1, <2>2 DEF Kept, Only
<1>2. \A q \in Procs : /\ On(q, m)' <=> On(q, m)
                       /\ On(q, m) => call'[q] = call[q]
  BY NamesAssumption DEF Only, On
<1>3. Exists(m)' <=> Exists(m)
  BY DEF Only, Exists
<1>4. ASSUME NEW q \in Procs, On(q, m), call[q].at = "save"
      PROVE  files'[call[q].id] = files[call[q].id]
  <2>1. call[q].id \in Ids /\ Claims(m, call[q].id)
    BY <1>4, FieldTypes DEF Fits, Claims
  <2> QED
    BY <2>1, FilesOfOthers
<1>5. UNCHANGED <<pod[m], known[m]>>
  BY DEF Only
<1> QED
  BY <1>1, <1>2, <1>3, <1>4, <1>5 DEF PodOK, Within

LEMMA PodSame ==
  ASSUME TypeInv, KnownInv, NEW p \in Procs, NEW n \in Names, Step(p, n),
         PodOK(n), n \notin broken'
  PROVE  PodOK(n)' /\ Only(p, n)
<1> USE DEF PodOK, On, Within, Kept
<1>1. CASE Begins(p, n)
  <2>1. /\ Only(p, n) /\ UNCHANGED <<pod, files, known>> /\ call'[p].name = n
        /\ ~Within(p, Making)' /\ ~Within(p, Cleaning)'
        /\ ~Within(p, Making) /\ ~Within(p, Cleaning)
        /\ Within(p, CreateLabels)' => known[n] = NoId
    BY <1>1, BeginMoves DEF Making, Cleaning, CreateLabels
  <2> QED
    BY <2>1 DEF Only, Exists
<1>2. CASE On(p, n) /\ Only(p, n) /\ Quiet(p, n)
  <2>1. \/ call'[p].name = NoName /\ ~Within(p, Making) /\ ~Within(p, Cleaning)
        \/ /\ call'[p].name = n /\ call'[p].id = call[p].id
           /\ Within(p, Making)' <=> Within(p, Making)
           /\ ~Within(p, Cleaning)' /\ ~Within(p, {"save"})'
           /\ Within(p, CreateLabels)' <=> Within(p, CreateLabels)
    BY <1>2 DEF Quiet, NoCall, Making, Cleaning, CreateLabels, StartLabels, StopLabels
  <2>2. /\ UNCHANGED <<files, known>> /\ (Exists(n)' <=> Exists(n))
        /\ Exists(n) => pod'[n].ctr = pod[n].ctr
    BY <1>2 DEF Quiet
  <2>3. Kept(n) /\ Exists(n) => Kept(n)'
    BY <2>2
  <2>4. \A q \in Procs :
           /\ On(q, n)' /\ Within(q, Making)' <=> On(q, n) /\ Within(q, Making)
           /\ On(q, n)' => On(q, n) /\ call'[q].id = call[q].id
           /\ On(q, n)' /\ Within(q, CreateLabels)' => Within(q, CreateLabels)
           /\ On(q, n)' /\ Within(q, Cleaning)' => Within(q, Cleaning)
           /\ On(q, n)' /\ Within(q, {"save"})' => Within(q, {"save"})
    BY <1>2, <2>1, NamesAssumption DEF Only
  <2> QED
    BY <1>2, <2>2, <2>3, <2>4
<1>3. CASE On(p, n) /\ Play(p)
  <2>1. /\ Only(p, n) /\ UNCHANGED <<files, known>> /\ call'[p].name = n
        /\ Within(p, CreateLabels) /\ ~Within(p, Making)
        /\ Within(p, Making)' /\ ~Within(p, Cleaning)' /\ ~Within(p, {"save"})'
        /\ ~Exists(n) /\ Exists(n)' /\ pod'[n].ctr = call'[p].id
    BY <1>3, PlayMoves, FieldTypes
       DEF Making, Cleaning, CreateLabels, NewPod, Fits
  <2>2. known[n] = NoId
    BY <1>3, <2>1
  <2>3. \A q \in Procs \ {p} : On(q, n) => ~Within(q, Making) /\ ~Within(q, Cleaning)
    BY <1>3, <2>1 DEF KnownInv, Using, Cleaning, RemoveLabels
  <2> QED
    BY <2>1, <2>2, <2>3 DEF Only
<1>4. CASE On(p, n) /\ CreateContainer(p)
  <2>1. /\ Only(p, n) /\ UNCHANGED <<files, known>> /\ call'[p].name = n
        /\ Within(p, Making) /\ Within(p, Making)' /\ ~Within(p, Cleaning)'
        /\ ~Within(p, {"save"})'
        /\ Exists(n) /\ Exists(n)' /\ pod'[n].ctr = call'[p].id
    BY <1>4, ContainerMoves DEF Making, Cleaning
  <2> QED
    BY <1>4, <2>1 DEF Only
<1>5. CASE On(p, n) /\ CreateEnd(p)
  <2>1. /\ Only(p, n) /\ UNCHANGED <<pod, files>> /\ call'[p].name = NoName
        /\ Within(p, Making) /\ Within(p, CreateLabels) /\ Within(p, {"save"})
        /\ call[p].id \in Ids /\ known'[n] = call[p].id
    BY <1>5, CreateEndMoves DEF Making, CreateLabels
  <2>2. /\ Exists(n) /\ Exists(n)' /\ pod'[n].ctr = call[p].id
        /\ files[call[p].id] = n
    BY <1>5, <2>1 DEF Exists
  <2>3. \A q \in Procs \ {p} : On(q, n) => ~Within(q, Making) /\ ~Within(q, Cleaning)
    BY <1>5, <2>1 DEF KnownInv, Using, Cleaning, RemoveLabels
  <2> QED
    BY <2>1, <2>2, <2>3, NamesAssumption DEF Only
<1>6. CASE On(p, n) /\ (CreateFails(p) \/ WritePodFiles(p))
  <2>1. /\ Only(p, n) /\ UNCHANGED <<pod, known>> /\ Within(p, CreateLabels)
        /\ Within(p, Making) /\ Within(p, Making)' /\ Within(p, CreateLabels)'
        /\ ~Within(p, Cleaning)'
        /\ call'[p].name = n /\ call'[p].id = call[p].id
        /\ Within(p, {"save"})' => files'[call[p].id] = n
    BY <1>6, CreateFailsMoves, WriteMoves, Shapes DEF Making, Cleaning, CreateLabels
  <2>2. Exists(n)' <=> Exists(n)
    BY <2>1 DEF Exists
  <2>3. /\ Exists(n) /\ pod[n].ctr = call[p].id /\ known[n] = NoId
        /\ \A q \in Procs \ {p} : On(q, n) => ~Within(q, Making)
    BY <1>6, <2>1
  <2> QED
    BY <1>6, <2>1, <2>2, <2>3, NamesAssumption DEF Only
<1>7. CASE On(p, n) /\ Undo(p)
  <2>1. /\ Only(p, n) /\ UNCHANGED <<files, known>> /\ call'[p].name = NoName
        /\ Within(p, Making) /\ Within(p, CreateLabels) /\ ~Exists(n)'
    BY <1>7, UndoMoves DEF Making, CreateLabels
  <2>2. \A q \in Procs \ {p} : On(q, n) => ~Within(q, Making) /\ ~Within(q, Cleaning)
    BY <1>7, <2>1 DEF KnownInv, Using, Cleaning, RemoveLabels
  <2> QED
    BY <1>7, <2>1, <2>2, NamesAssumption DEF Only
<1>8. CASE On(p, n) /\ Check(p)
  <2>1. /\ Only(p, n) /\ UNCHANGED <<pod, files, known>>
        /\ Within(p, Using) /\ ~Within(p, Making) /\ call[p].id \in Ids
        /\ \/ call'[p].name = NoName
           \/ /\ call'[p].name = n /\ call'[p].id = call[p].id
              /\ ~Within(p, Making)' /\ ~Within(p, CreateLabels)'
              /\ Within(p, Cleaning)' => ~HasContainer(n, call[p].id)
    BY <1>8, CheckMoves, FieldTypes
       DEF Making, Cleaning, CreateLabels, Using, RemoveLabels, Fits
  <2>2. \A q \in Procs : On(q, n) => ~Within(q, Making)
    BY <1>8, <2>1 DEF KnownInv, Making, CreateLabels
  <2>3. Exists(n) => HasContainer(n, call[p].id)
    BY <1>8, <2>1, <2>2 DEF KnownInv, HasContainer
  <2>4. Exists(n)' <=> Exists(n)
    BY <2>1 DEF Exists
  <2> QED
    BY <1>8, <2>1, <2>2, <2>3, <2>4, NamesAssumption DEF Only
<1>9. CASE On(p, n) /\ RemovePod(p)
  <2>1. /\ Only(p, n) /\ UNCHANGED <<files, known>> /\ call'[p].name = n
        /\ Within(p, Using) /\ ~Within(p, Making)' /\ ~Within(p, CreateLabels)' /\ ~Exists(n)'
    BY <1>9, RemovePodMoves DEF Making, CreateLabels, Using, RemoveLabels
  <2>2. \A q \in Procs : On(q, n) => ~Within(q, Making) /\ ~Within(q, CreateLabels)
    BY <1>9, <2>1 DEF KnownInv, Making, CreateLabels
  <2> QED
    BY <1>9, <2>1, <2>2 DEF Only
<1>10. CASE On(p, n) /\ (CleanupPodFiles(p) \/ CleanupTempDirs(p) \/ RemoveEnd(p))
  <2>1. /\ Only(p, n) /\ UNCHANGED pod /\ call'[p].name \in {n, NoName}
        /\ Within(p, Using) /\ Within(p, Cleaning)
        /\ call'[p].name = n => ~Within(p, Making)' /\ ~Within(p, CreateLabels)'
    BY <1>10, PodFilesMoves, TempDirsMoves, RemoveEndMoves, NamesAssumption
       DEF Making, CreateLabels, Cleaning, Using, RemoveLabels
  <2>2. \A q \in Procs : On(q, n) => ~Within(q, Making) /\ ~Within(q, CreateLabels)
    BY <1>10, <2>1 DEF KnownInv, Making, CreateLabels
  <2>3. ~Exists(n) /\ ~Exists(n)'
    BY <1>10, <2>1 DEF Exists
  <2> QED
    BY <1>10, <2>1, <2>2, <2>3, NamesAssumption DEF Only
<1>11. CASE On(p, n) /\ CreateFailsEarly(p)
  <2>1. /\ Only(p, n) /\ UNCHANGED <<files, known, pod>> /\ call'[p].name = NoName
        /\ ~Within(p, Making)
    BY <1>11, EarlyMoves DEF Making
  <2>2. Exists(n)' <=> Exists(n)
    BY <2>1 DEF Exists
  <2> QED
    BY <1>11, <2>1, <2>2, NamesAssumption DEF Only
<1>12. CASE On(p, n) /\ RemoveFails(p)
  <2>1. /\ Only(p, n) /\ UNCHANGED <<files, known>> /\ call'[p].name = NoName
        /\ Within(p, Using) /\ ~Within(p, Making)
        /\ pod' = pod \/ ~Exists(n)'
    BY <1>12, RemoveFailsMoves DEF Making, Using, RemoveLabels
  <2>2. \A q \in Procs : On(q, n) => ~Within(q, Making) /\ ~Within(q, CreateLabels)
    BY <1>12, <2>1 DEF KnownInv, Making, CreateLabels
  <2>3. pod' = pod => (Exists(n)' <=> Exists(n))
    BY DEF Exists
  <2> QED
    BY <1>12, <2>1, <2>2, <2>3, NamesAssumption DEF Only
<1> QED
  BY <1>1, <1>2, <1>3, <1>4, <1>5, <1>6, <1>7, <1>8, <1>9, <1>10, <1>11, <1>12 DEF Step

LEMMA PodNext ==
  ASSUME TypeInv, OwnInv, KnownInv, PodInv, [Next]_vars
  PROVE  PodInv'
<1> SUFFICES ASSUME NEW m \in Names, m \notin broken' PROVE PodOK(m)'
  BY DEF PodInv, PodOK
<1>0. m \notin broken => PodOK(m)
  BY DEF PodInv, PodOK
<1>1. CASE UNCHANGED vars
  BY <1>0, <1>1 DEF vars, PodOK, Kept, Exists, On, Within
<1>2. CASE Reboot
  BY <1>0, <1>2, RebootMoves DEF PodOK, Kept, On, Within
<1>3. ASSUME NEW p \in Procs, NEW n \in Names, Step(p, n)
      PROVE  PodOK(m)'
  <2>1. Only(p, n)
    BY <1>3, StepOnly
  <2>2. m \notin broken
    BY <2>1 DEF Only
  <2> QED
    BY <1>0, <1>3, <2>1, <2>2, PodOther, PodSame
<1> QED
  BY <1>1, <1>2, <1>3, NextSteps

\* What is shown of every reachable state before the single properties.
BaseInv == TypeInv /\ OwnInv /\ KnownInv /\ PodInv

LEMMA BaseCorrect == Spec => []BaseInv
<1>1. Init => BaseInv
  <2>1. Init => OwnInv
    BY NamesAssumption DEF Init, OwnInv, Claims, HasContainer, Exists, NoCall
  <2>2. Init => KnownInv /\ PodInv
    BY NamesAssumption DEF Init, KnownInv, PodInv, Exists, NoCall, On
  <2> QED
    BY <2>1, <2>2, TypeInit DEF BaseInv
<1>2. BaseInv /\ [Next]_vars => BaseInv'
  BY TypeNext, OwnNext, KnownNext, PodNext DEF BaseInv
<1> QED
  BY <1>1, <1>2, PTL DEF Spec

\* A pod that no call works on is one the manager has on record and can stop and
\* remove, for every number of processes: a Create that fails after kube play takes
\* its pod down, also when a second call on the name overlaps with it, and a Remove
\* that fails half way can be repeated.  Calls on a name end with the first two that
\* overlap, and names of which a process died, or kube play, the cleanup or the save
\* of the record failed, are left out.
THEOREM PodsAreOnRecord == Spec => []NoOrphanPods
<1>1. BaseInv => NoOrphanPods
  BY DEF BaseInv, PodInv, NoOrphanPods, Busy, Kept, On
<1> QED
  BY <1>1, BaseCorrect, PTL

-----------------------------------------------------------------------------
(* The agent.                                                              *)

\* A step that does not bring the agent of n up.
NotRaised(n) == Up(n, "workspace")' => Up(n, "workspace")

LEMMA UpStarted ==
  ASSUME TypeInv, NEW n \in Names, Exists(n), NEW cs \in SUBSET Containers,
         "workspace" \notin cs, StartContainers(n, cs)
  PROVE  NotRaised(n)
<1>1. pod[n] \in Pods
  BY Shapes DEF Exists
<1>2. pod'[n] = Started(pod[n], cs, conf[n])
  BY Shapes DEF StartContainers
<1>3. Started(pod[n], cs, conf[n]).up = pod[n].up \cup cs
  BY <1>1 DEF Started, Pods
<1> QED
  BY <1>2, <1>3 DEF NotRaised, Up

LEMMA UpHalted ==
  ASSUME TypeInv, NEW n \in Names, Exists(n), NEW cs, pod' = [pod EXCEPT ![n] = Halted(@, cs)]
  PROVE  NotRaised(n)
<1>1. pod[n] \in Pods
  BY Shapes DEF Exists
<1>2. pod'[n] = Halted(pod[n], cs)
  BY Shapes
<1>3. Halted(pod[n], cs).up = pod[n].up \ cs
  BY <1>1 DEF Halted, Pods
<1> QED
  BY <1>2, <1>3 DEF NotRaised, Up

LEMMA UpKept ==
  ASSUME TypeInv, NEW n \in Names, Exists(n), NEW x \in Pods,
         x.up = pod[n].up, pod' = [pod EXCEPT ![n] = x]
  PROVE  NotRaised(n)
  BY Shapes DEF NotRaised, Up

LEMMA UpChanged ==
  ASSUME TypeInv, NEW n \in Names, Exists(n), NEW v,
         \/ pod' = [pod EXCEPT ![n].nft = v]
         \/ pod' = [pod EXCEPT ![n].rule = v]
         \/ pod' = [pod EXCEPT ![n].configured = v]
         \/ pod' = [pod EXCEPT ![n].ctr = v]
  PROVE  NotRaised(n)
<1>1. pod[n] \in Pods
  BY Shapes DEF Exists
<1>2. PICK x \in {[pod[n] EXCEPT !.nft = v], [pod[n] EXCEPT !.rule = v],
                  [pod[n] EXCEPT !.configured = v], [pod[n] EXCEPT !.ctr = v]} :
         pod' = [pod EXCEPT ![n] = x]
  OBVIOUS
<1>3. x.up = pod[n].up
  BY <1>1, <1>2 DEF Pods
<1>4. pod'[n] = x
  BY <1>2, Shapes
<1> QED
  BY <1>3, <1>4 DEF NotRaised, Up

\* Only the step of Start that starts the pod brings the agent up.
LEMMA NotRaisedBy ==
  ASSUME TypeInv, NEW p \in Procs, NEW n \in Names, On(p, n),
         \/ Prepare(p) \/ Detect(p) \/ Certs(p) \/ WritePodFiles(p) \/ CreateEnd(p) \/
            CreateFailsEarly(p) \/ CreateUnsaved(p) \/ RemoveEnd(p) \/
            CreateFails(p) \/ ReadPodName(p) \/ ReadPolicy(p) \/ WriteConfig(p) \/
            StartEnd(p) \/ Inspect(p) \/ StopFails(p) \/ Check(p) \/
            CleanupPodFiles(p) \/ CleanupTempDirs(p) \/ RemoveFails(p) \/ Die(p) \/
            Services(p) \/ Provision(p) \/ Halt(p) \/ Play(p) \/
            CreateContainer(p) \/ Undo(p) \/ StartPostgres(p) \/ StartOnecli(p) \/
            StartGuard(p) \/ ClearRules(p) \/ CreateRule(p) \/ SetFirewall(p) \/
            StartHandler(p) \/ ClearFirewall(p) \/ StopContainer(p) \/ RemovePod(p)
  PROVE  NotRaised(n)
<1>0. Name(p) = n
  BY SameName

<1>1. CASE UNCHANGED pod
  BY <1>1 DEF NotRaised, Up, Exists
<1>2. CASE Services(p)
  BY <1>0, <1>2, UpStarted DEF Services, Containers
<1>3. CASE StartPostgres(p)
  BY <1>0, <1>3, UpStarted DEF StartPostgres, Containers
<1>4. CASE StartOnecli(p)
  BY <1>0, <1>4, UpStarted DEF StartOnecli, Containers, Up
<1>5. CASE StartGuard(p)
  BY <1>0, <1>5, UpStarted DEF StartGuard, Containers, Up
<1>6. CASE StartHandler(p)
  BY <1>0, <1>6, UpStarted DEF StartHandler, Containers
<1>7. CASE Provision(p)
  BY <1>0, <1>7, UpChanged DEF Provision, Up
<1>8. CASE ClearRules(p)
  BY <1>0, <1>8, UpChanged DEF ClearRules, Up
<1>9. CASE CreateRule(p)
  BY <1>0, <1>9, UpChanged DEF CreateRule, Up
<1>10. CASE SetFirewall(p)
  BY <1>0, <1>10, UpChanged DEF SetFirewall, Up
<1>11. CASE ClearFirewall(p)
  BY <1>0, <1>11, UpChanged DEF ClearFirewall, Up
<1>12. CASE CreateContainer(p)
  BY <1>0, <1>12, UpChanged DEF CreateContainer, HasContainer
<1>13. CASE Halt(p)
  BY <1>0, <1>13, UpHalted, <1>1 DEF Halt
<1>14. CASE StopContainer(p)
  BY <1>0, <1>14, UpHalted DEF StopContainer
<1>15. CASE Play(p)
  BY <1>15, PlayMoves DEF NotRaised, Up, NewPod
<1>16. CASE Undo(p)
  BY <1>16, UndoMoves DEF NotRaised, Up, Exists
<1>17. CASE RemovePod(p)
  BY <1>17, RemovePodMoves DEF NotRaised, Up, Exists
<1>18. CASE CreateFailsEarly(p)
  BY <1>18, EarlyMoves DEF NotRaised, Up, Exists, NewPod
<1>19. CASE RemoveFails(p)
  BY <1>19, RemoveFailsMoves DEF NotRaised, Up, Exists
<1> QED
  BY <1>1, <1>2, <1>3, <1>4, <1>5, <1>6, <1>7, <1>8, <1>9, <1>10, <1>11, <1>12, <1>13,
     <1>14, <1>15, <1>16, <1>17, <1>18, <1>19
     DEF Prepare, Detect, Certs, WritePodFiles, CreateEnd, CreateFails, CreateUnsaved,
        RemoveEnd, ReadPodName, ReadPolicy,
        WriteConfig, StartEnd, Inspect, StopFails, Check, CleanupPodFiles,
        CleanupTempDirs, Die, history

\* The containers that a call starts with the agent among them.
Raises(p, n) ==
    /\ On(p, n) /\ call[p].at = "pod" /\ Exists(n)
    /\ StartContainers(n, Containers) \/ StartContainers(n, {"workspace"})

LEMMA RaisesAgent ==
  ASSUME TypeInv, [Next]_vars, NEW n \in Names, ~Up(n, "workspace"), Up(n, "workspace")'
  PROVE  \E p \in Procs : Raises(p, n) /\ (StartPod(p) \/ StartFails(p))
<1>1. CASE UNCHANGED vars
  BY <1>1 DEF vars, Up, Exists
<1>2. CASE Reboot
  BY <1>2, RebootMoves
<1>3. ASSUME NEW p \in Procs, Create(p) \/ Start(p) \/ Stop(p) \/ Remove(p) \/ Die(p)
      PROVE  Raises(p, n) /\ (StartPod(p) \/ StartFails(p))
  <2>1. PICK m \in Names : (Begins(p, m) \/ On(p, m)) /\ Step(p, m)
    BY <1>3, CallSteps DEF Call
  <2>2. Only(p, m)
    BY <2>1, StepOnly
  <2>3. m = n
    BY <2>2 DEF Only, Up, Exists
  <2>4. ~Begins(p, n)
    BY BeginMoves DEF Up, Exists
  <2>5. On(p, n)
    BY <2>1, <2>3, <2>4
  <2>6. StartPod(p) \/ StartFails(p)
    <3>1. ~NotRaised(n)
      BY DEF NotRaised
    <3>2. ~\E k \in Names : Begins(p, k)
      BY <2>5, BeginMoves, NamesAssumption DEF On
    <3> QED
      BY <1>3, <2>5, <3>1, <3>2, NotRaisedBy
         DEF Create, Start, Stop, Remove, Begins
  <2>7. Raises(p, n)
    <3>1. CASE StartPod(p)
      BY <2>5, <3>1, SameName DEF StartPod, Raises, At
    <3>2. CASE StartFails(p)
      <4>1. pod' # pod
        BY DEF Up, Exists
      <4>2. ~(Up(n, "guard") /\ pod' = [pod EXCEPT ![n].nft = FALSE])
        BY UpChanged DEF Up, NotRaised
      <4> QED
        BY <2>5, <3>2, <4>1, <4>2, SameName DEF StartFails, Raises, At
    <3> QED
      BY <2>6, <3>1, <3>2
  <2> QED
    BY <2>6, <2>7
<1> QED
  BY <1>1, <1>2, <1>3 DEF Next

LEMMA StoppedNext ==
  ASSUME TypeInv, KnownInv, StoppedInv, [Next]_vars
  PROVE  StoppedInv'
<1> DEFINE Risky == Making \cup {"rm"}
<1> SUFFICES ASSUME NEW m \in Names, m \notin raced', NEW q \in Procs,
                    On(q, m)', Within(q, Risky)', Up(m, "workspace")'
             PROVE  FALSE
  BY DEF StoppedInv
<1> HIDE DEF Risky
<1>0. ASSUME NEW k \in Names, k \notin raced, NEW r \in Procs, On(r, k), Within(r, Risky)
      PROVE  ~Up(k, "workspace")
  BY <1>0 DEF StoppedInv, Risky
<1>1. CASE UNCHANGED vars
  BY <1>0, <1>1 DEF vars, On, Within, Up, Exists
<1>2. CASE Reboot
  BY <1>2, RebootMoves
<1>3. ASSUME NEW p \in Procs, NEW n \in Names, Step(p, n)
      PROVE  FALSE
  <2>1. Only(p, n) /\ m \notin raced
    BY <1>3, StepOnly DEF Only
  <2>2. CASE m # n
    BY <1>0, <2>1, <2>2, NamesAssumption DEF Only, On, Within, Up, Exists
  <2>3. CASE m = n /\ ~Up(n, "workspace")
    <3>1. PICK r \in Procs : Raises(r, n) /\ (StartPod(r) \/ StartFails(r))
      BY <2>3, RaisesAgent
    <3>2. PICK c : call' = [call EXCEPT ![r] = c] /\ c.at \in {"verify", "idle"}
      <4>1. CASE StartPod(r)
        BY <3>1, <4>1, GotoCall DEF StartPod, Raises
      <4>2. CASE StartFails(r)
        BY <4>2, ReturnCall DEF StartFails
      <4> QED
        BY <3>1, <4>1, <4>2
    <3>3. On(r, n) /\ \A k \in Procs : On(k, n) => k = r
      BY <2>1, <2>3, <3>1 DEF Raises, KnownInv
    <3>5. call'[r].at \in {"verify", "idle"} /\ \A k \in Procs \ {r} : call'[k] = call[k]
      BY <3>2, Shapes
    <3>4. q = r
      BY <2>3, <3>3, <3>5 DEF On
    <3> QED
      BY <3>4, <3>5 DEF Within, Risky, Making
  <2>4. CASE m = n /\ Up(n, "workspace")
    <3>1. q = p /\ ~(On(p, n) /\ Within(p, Risky))
      BY <1>0, <2>1, <2>4 DEF Only, On, Within
    <3>2. CASE Begins(p, n)
      BY <3>1, <3>2, BeginMoves DEF Within, Risky, Making
    <3>3. CASE On(p, n) /\ Quiet(p, n)
      BY <3>1, <3>3, <2>4
         DEF Quiet, NoCall, Within, Risky, Making, StartLabels, StopLabels
    <3>4. CASE On(p, n) /\ (Play(p) \/ CreateContainer(p) \/ CreateEnd(p) \/ Undo(p)
                               \/ CreateFailsEarly(p) \/ RemoveEnd(p) \/ RemoveFails(p))
      BY <2>4, <3>1, <3>4, PlayMoves, ContainerMoves, CreateEndMoves, UndoMoves,
         EarlyMoves, RemoveEndMoves, RemoveFailsMoves
         DEF Within, Risky, Making, Up, NewPod
    <3>5. CASE On(p, n) /\ (CreateFails(p) \/ WritePodFiles(p))
      BY <3>1, <3>5, CreateFailsMoves, WriteMoves DEF Within, Risky, Making
    <3>6. CASE On(p, n) /\ Check(p)
      BY <2>4, <3>1, <3>6, CheckMoves DEF Within, Risky, Making
    <3>7. CASE On(p, n) /\ (RemovePod(p) \/ CleanupPodFiles(p) \/ CleanupTempDirs(p))
      BY <3>1, <3>7, RemovePodMoves, PodFilesMoves, TempDirsMoves
         DEF Within, Risky, Making
    <3> QED
      BY <1>3, <3>2, <3>3, <3>4, <3>5, <3>6, <3>7 DEF Step
  <2> QED
    BY <2>2, <2>3, <2>4
<1> QED
  BY <1>1, <1>2, <1>3, NextSteps

LEMMA StoppedCorrect == Spec => []StoppedInv
<1>1. Init => StoppedInv
  BY NamesAssumption DEF Init, StoppedInv, On, NoCall
<1>2. BaseInv /\ StoppedInv /\ [Next]_vars => StoppedInv'
  BY StoppedNext DEF BaseInv
<1> QED
  BY <1>1, <1>2, BaseCorrect, PTL DEF Spec

\* Remove never takes a workspace down that runs, nor does a Create that fails,
\* unless calls on the workspace overlap.
THEOREM RemovesOnlyStopped == Spec => RemovesStopped
<1>1. ASSUME BaseInv, StoppedInv, [Next]_vars, NEW m \in Names, m \notin raced',
             Up(m, "workspace")
      PROVE  Exists(m)'
  <2>0. TypeInv /\ Exists(m)
    BY <1>1 DEF BaseInv, Up
  <2>1. CASE UNCHANGED vars
    BY <2>0, <2>1 DEF vars, Exists
  <2>2. CASE Reboot
    BY <2>0, <2>2, RebootMoves
  <2>3. ASSUME NEW p \in Procs, NEW n \in Names, Step(p, n)
        PROVE  Exists(m)'
    <3>1. Only(p, n) /\ m \notin raced
      BY <1>1, <2>0, <2>3, StepOnly DEF Only
    <3>2. CASE m # n
      BY <2>0, <3>1, <3>2 DEF Only, Exists
    <3>3. CASE m = n
      <4>1. ~(On(p, n) /\ Within(p, Making \cup {"rm"}))
        BY <1>1, <3>1, <3>3 DEF StoppedInv
      <4>2. CASE Begins(p, n)
        BY <2>0, <3>3, <4>2, BeginMoves DEF Exists
      <4>3. CASE On(p, n) /\ Quiet(p, n)
        BY <2>0, <3>3, <4>3 DEF Quiet
      <4>4. CASE On(p, n) /\ (Play(p) \/ CreateContainer(p))
        BY <2>0, <3>3, <4>4, PlayMoves, ContainerMoves
      <4>5. CASE On(p, n) /\ (Undo(p) \/ RemovePod(p) \/ CreateFailsEarly(p)
                                 \/ RemoveFails(p))
        BY <2>0, <3>3, <4>1, <4>5, UndoMoves, RemovePodMoves, EarlyMoves, RemoveFailsMoves
           DEF Within, Making, Exists
      <4>6. CASE On(p, n) /\ (WritePodFiles(p) \/ CreateEnd(p) \/ CreateFails(p) \/ Check(p)
                                 \/ CleanupPodFiles(p) \/ CleanupTempDirs(p) \/ RemoveEnd(p))
        BY <2>0, <3>3, <4>6, WriteMoves, CreateEndMoves, CreateFailsMoves, CheckMoves,
           PodFilesMoves, TempDirsMoves, RemoveEndMoves DEF Exists
      <4> QED
        BY <2>3, <4>2, <4>3, <4>4, <4>5, <4>6 DEF Step
    <3> QED
      BY <3>2, <3>3
  <2> QED
    BY <1>1, <2>0, <2>1, <2>2, <2>3, NextSteps
<1>2. BaseInv /\ StoppedInv /\ [Next]_vars =>
         [\A n \in Names \ raced' : Up(n, "workspace") => Exists(n)']_vars
  BY <1>1
<1> QED
  BY <1>2, BaseCorrect, StoppedCorrect, PTL DEF Spec, RemovesStopped

-----------------------------------------------------------------------------
(* What Remove leaves.                                                     *)

LEMMA CleanNext ==
  ASSUME BaseInv, CleanInv, [Next]_vars
  PROVE  CleanInv'
<1> DEFINE Clean(m) ==
      /\ \/ known[m] = NoId \/ files[known[m]] = m \/ Tidy(m)
         \/ \E q \in Procs : On(q, m) /\ Within(q, {"rmdirs"})
      /\ \A q \in Procs : On(q, m) =>
            /\ Within(q, {"rmdirs", "drop"}) /\ m \notin littered =>
                  files[call[q].id] = NoName
            /\ Within(q, {"gonefiles", "drop"}) => Tidy(m)
<1> USE DEF BaseInv
<1> SUFFICES ASSUME NEW m \in Names, m \notin raced', m \notin broken' PROVE Clean(m)'
  BY DEF CleanInv
<1>0. m \notin raced /\ m \notin broken => Clean(m)
  BY DEF CleanInv
<1>1. CASE UNCHANGED vars
  BY <1>0, <1>1 DEF vars, On, Within, Tidy
<1>2. CASE Reboot
  BY <1>0, <1>2, RebootMoves DEF On, Within, Tidy
<1>3. ASSUME NEW p \in Procs, NEW n \in Names, Step(p, n)
      PROVE  Clean(m)'
  <2>1. Only(p, n) /\ Clean(m)
    BY <1>0, <1>3, StepOnly DEF Only
  <2>2. CASE m # n
    <3>1. known[m] # NoId => files'[known[m]] = files[known[m]]
      BY <1>3, <2>2, Shapes, FilesOfOthers DEF Claims
    <3>2. ASSUME NEW q \in Procs, On(q, m), Within(q, {"rmdirs", "drop"})
          PROVE  files'[call[q].id] = files[call[q].id]
      <4>1. call[q].id \in Ids
        BY <3>2, FieldTypes DEF Within, Fits, Using, RemoveLabels
      <4> QED
        BY <1>3, <2>2, <3>2, <4>1, FilesOfOthers DEF Claims
    <3>3. \A q \in Procs : (On(q, m)' <=> On(q, m)) /\ (On(q, m) => call'[q] = call[q])
      BY <2>1, <2>2, NamesAssumption DEF Only, On
    <3>4. known'[m] = known[m] /\ (m \in littered' <=> m \in littered)
      BY <2>1, <2>2 DEF Only
    <3>5. Tidy(m)' <=> Tidy(m)
      BY <2>1, <2>2 DEF Only, Tidy
    <3> QED
      BY <2>1, <3>1, <3>2, <3>3, <3>4, <3>5 DEF Within
  <2>3. CASE m = n
    <3>0. /\ n \notin raced /\ n \notin broken' /\ n \notin broken
          /\ On(p, n) => \A q \in Procs \ {p} : ~On(q, n) /\ ~On(q, n)'
          /\ On(p, n) /\ Within(p, CreateLabels) => known[n] = NoId
          /\ On(p, n) /\ Within(p, Using) => known[n] = call[p].id
          /\ n \notin littered' => n \notin littered
      BY <2>1, <2>3 DEF Only, KnownInv, On
    <3> USE <3>0, NamesAssumption DEF Within
    <3>1. CASE Begins(p, n)
      <4>1. /\ UNCHANGED <<dirs, files, known>> /\ ~Busy(n)
            /\ call'[p].at \notin {"rmdirs", "gonefiles", "drop"}
        BY <1>3, <2>3, <3>1, BeginMoves
      <4>2. ~\E q \in Procs : On(q, n)
        BY <4>1 DEF On, Busy
      <4>3. \A q \in Procs : On(q, n)' => q = p
        BY <2>1, <4>2 DEF Only, On
      <4>4. Tidy(n) => Tidy(n)'
        BY <4>1 DEF Tidy
      <4> QED
        BY <2>1, <2>3, <4>1, <4>2, <4>3, <4>4
    <3>2. CASE On(p, n) /\ Quiet(p, n)
      <4>1. /\ UNCHANGED <<files, known>>
            /\ call[p].at \notin Cleaning
            /\ call'[p].at \notin Cleaning
            /\ Within(p, CreateLabels) \/ \A d \in dirs' : d[2] = n => d \in dirs
        BY <3>2 DEF Quiet, Making, Cleaning, StartLabels, StopLabels, NoCall
      <4>2. known[n] = NoId \/ (Tidy(n) => Tidy(n)')
        BY <3>2, <4>1 DEF Tidy
      <4> QED
        BY <2>1, <2>3, <3>2, <4>1, <4>2 DEF Cleaning
    <3>3. CASE On(p, n) /\ (Play(p) \/ CreateContainer(p) \/ WritePodFiles(p)
                               \/ CreateFailsEarly(p) \/ CreateFails(p) \/ Undo(p))
      <4>1. known'[n] = NoId /\ call'[p].at \notin {"rmdirs", "gonefiles", "drop"}
        BY <3>3, PlayMoves, ContainerMoves, WriteMoves, EarlyMoves, CreateFailsMoves,
           UndoMoves DEF CreateLabels
      <4> QED
        BY <2>3, <3>3, <4>1
    <3>4. CASE On(p, n) /\ CreateEnd(p)
      <4>1. /\ files' = files /\ known'[n] = call[p].id /\ call'[p].at = "idle"
            /\ call[p].at = "save"
        BY <3>4, CreateEndMoves
      <4>2. files[call[p].id] = n
        BY <3>4, <4>1 DEF PodInv, Making
      <4> QED
        BY <2>3, <3>4, <4>1, <4>2
    <3>5. CASE On(p, n) /\ Check(p)
      <4>1. /\ UNCHANGED <<dirs, files, known>> /\ call[p].at = "check"
            /\ known[n] = call[p].id /\ call[p].id # NoId
            /\ call'[p].at \notin {"rmdirs", "drop"}
            /\ call'[p].at = "gonefiles" => files[call[p].id] # n
        BY <3>5, CheckMoves, FieldTypes DEF Using, RemoveLabels, Fits
      <4>2. files[known[n]] = n \/ Tidy(n)
        BY <2>1, <2>3, <3>5, <4>1
      <4>3. Tidy(n) => Tidy(n)'
        BY <4>1 DEF Tidy
      <4> QED
        BY <2>3, <3>5, <4>1, <4>2, <4>3
    <3>6. CASE On(p, n) /\ RemovePod(p)
      <4>1. /\ UNCHANGED <<dirs, files, known>> /\ call[p].at = "rm"
            /\ call'[p].at = "rmfiles"
        BY <3>6, RemovePodMoves
      <4>2. Tidy(n) => Tidy(n)'
        BY <4>1 DEF Tidy
      <4> QED
        BY <2>1, <2>3, <3>6, <4>1, <4>2
    <3>7. CASE On(p, n) /\ CleanupPodFiles(p)
      <4>1. /\ call[p].id \in Ids /\ UNCHANGED <<dirs, known>>
            /\ call'[p].name = n /\ call'[p].id = call[p].id
            /\ \/ call'[p].at = "rmdirs"
               \/ call[p].at = "gonefiles" /\ call'[p].at = "drop"
            /\ n \notin littered' => files'[call[p].id] = NoName
        BY <3>7, PodFilesMoves, Shapes
      <4>2. Tidy(n) => Tidy(n)'
        BY <4>1 DEF Tidy
      <4> QED
        BY <2>1, <2>3, <3>7, <4>1, <4>2 DEF On
    <3>8. CASE On(p, n) /\ CleanupTempDirs(p)
      <4>1. /\ files' = files /\ Tidy(n)' /\ call'[p].id = call[p].id
            /\ \/ call[p].at = "gonedirs" /\ call'[p].at = "gonefiles"
               \/ call[p].at = "rmdirs" /\ call'[p].at = "drop"
        BY <3>8, TempDirsMoves
      <4> QED
        BY <2>1, <2>3, <3>8, <4>1
    <3>9. CASE On(p, n) /\ (RemoveEnd(p) \/ RemoveFails(p))
      <4>1. /\ UNCHANGED <<dirs, files>> /\ call'[p].at = "idle"
            /\ known'[n] = known[n] \/ known'[n] = NoId
            /\ call[p].at \in {"check", "rm", "drop"}
        BY <3>9, RemoveEndMoves, RemoveFailsMoves
      <4>2. Tidy(n) => Tidy(n)'
        BY <4>1 DEF Tidy
      <4> QED
        BY <2>1, <2>3, <3>9, <4>1, <4>2
    <3> QED
      BY <1>3, <3>1, <3>2, <3>3, <3>4, <3>5, <3>6, <3>7, <3>8, <3>9 DEF Step
  <2> QED
    BY <2>2, <2>3
<1> QED
  BY <1>1, <1>2, <1>3, NextSteps

\* When Remove succeeds, the pod is gone, and so are all files of the workspace that
\* could be removed, those of a Create of that name that failed before and those
\* that an earlier Remove left included; unless calls on the workspace overlapped,
\* one died, or the save of its record failed.
THEOREM RemoveIsComplete == Spec => RemoveLeavesNothing
<1>1. ASSUME BaseInv, CleanInv, [Next]_vars, NEW m \in Names, m \notin raced',
             m \notin broken', known[m] # NoId, known'[m] = NoId
      PROVE  /\ ~Exists(m)'
             /\ m \notin littered' =>
                   files'[known[m]] = NoName /\ \A d \in dirs' : d[2] # m
  <2>0. ~Reboot /\ known' # known
    BY <1>1, RebootMoves DEF BaseInv
  <2>1. PICK p \in Procs, n \in Names : Step(p, n)
    BY <1>1, <2>0, NextSteps DEF BaseInv, vars
  <2>2. Only(p, n) /\ TypeInv
    BY <1>1, <2>1, StepOnly DEF BaseInv
  <2>3. m = n /\ n \notin raced /\ n \notin broken
    BY <1>1, <2>2 DEF Only
  <2>4. On(p, n) /\ RemoveEnd(p)
    <3>1. ~(On(p, n) /\ CreateEnd(p))
      BY <1>1, <2>2, <2>3, CreateEndMoves, NamesAssumption
    <3> QED
      BY <2>0, <2>1, <2>2, <3>1, BeginMoves, PlayMoves, ContainerMoves, WriteMoves,
         EarlyMoves, CreateFailsMoves, UndoMoves, CheckMoves, RemovePodMoves,
         PodFilesMoves, TempDirsMoves, RemoveFailsMoves DEF Step, Quiet
  <2>5. call[p].at = "drop" /\ UNCHANGED <<pod, dirs, files, littered>>
    BY <2>2, <2>4, RemoveEndMoves
  <2>6. known[n] = call[p].id /\ ~Exists(n)
    BY <1>1, <2>3, <2>4, <2>5
       DEF BaseInv, KnownInv, PodInv, Within, Using, RemoveLabels, Cleaning
  <2>7. ~Exists(n)'
    BY <2>5, <2>6 DEF Exists
  <2> QED
    BY <1>1, <2>3, <2>4, <2>5, <2>6, <2>7 DEF CleanInv, Within, Tidy
<1>2. BaseInv /\ CleanInv /\ [Next]_vars =>
         [\A n \in Names \ (raced' \cup broken') :
             (known[n] # NoId /\ known'[n] = NoId) =>
                 /\ ~Exists(n)'
                 /\ n \notin littered' =>
                       files'[known[n]] = NoName /\ \A d \in dirs' : d[2] # n]_vars
  BY <1>1
<1>3. Init => CleanInv
  BY NamesAssumption DEF Init, CleanInv, On, NoCall
<1>4. BaseInv /\ CleanInv /\ [Next]_vars => CleanInv'
  BY CleanNext
<1> QED
  BY <1>2, <1>3, <1>4, BaseCorrect, PTL DEF Spec, RemoveLeavesNothing

-----------------------------------------------------------------------------
(* The policy.                                                             *)

\* What PolicyInv says of the call p on n, where the call is alone.
Alone(p, n) ==
    /\ Within(p, Planned \cup {"read"}) => Exists(n)
    /\ Exists(n) => Applied(pod[n], conf[n], call[p])

\* The locals of a call whose label moves on.
LEMMA GotoLocals ==
  ASSUME TypeInv, NEW p \in Procs, NEW label, Goto(p, label)
  PROVE  /\ call'[p].at = label /\ call'[p].plan = call[p].plan
         /\ call'[p].fresh = call[p].fresh
<1>1. call[p] \in Calls /\ call'[p] = [call[p] EXCEPT !.at = label]
  BY Shapes DEF Goto
<1> QED
  BY <1>1 DEF Calls

\* The pod of n after containers were started.
LEMMA StartsMoves ==
  ASSUME TypeInv, NEW n \in Names, Exists(n), NEW cs \in SUBSET Containers,
         StartContainers(n, cs)
  PROVE  /\ Exists(n)' /\ pod'[n].up = pod[n].up \cup cs
         /\ pod'[n].nft = pod[n].nft /\ pod'[n].rule = pod[n].rule
         /\ "handler" \notin cs \ pod[n].up => pod'[n].handler = pod[n].handler
         /\ "handler" \in cs \ pod[n].up => pod'[n].handler = conf[n]
<1>1. pod[n] \in Pods /\ conf[n] \in HostLists
  BY Shapes DEF Exists
<1>2. pod'[n] = Started(pod[n], cs, conf[n])
  BY Shapes DEF StartContainers
<1>3. pod'[n] \in Pods
  BY <1>1, <1>2, StartedTyped
<1>4. Exists(n)'
  BY <1>3, NamesAssumption DEF Exists
<1>5. /\ pod'[n].up = pod[n].up \cup cs
      /\ pod'[n].nft = pod[n].nft /\ pod'[n].rule = pod[n].rule
      /\ pod'[n].handler = IF "handler" \in cs \ pod[n].up THEN conf[n] ELSE pod[n].handler
  BY <1>1, <1>2 DEF Started, Pods
<1> QED
  BY <1>4, <1>5

\* The pod of n after its rules were set or cleared.
LEMMA RulesMoves ==
  ASSUME TypeInv, NEW n \in Names, Exists(n), NEW b \in BOOLEAN,
         \/ pod' = [pod EXCEPT ![n].nft = b]
         \/ pod' = [pod EXCEPT ![n].rule = b]
  PROVE  /\ Exists(n)' /\ pod'[n].up = pod[n].up /\ pod'[n].handler = pod[n].handler
         /\ \/ /\ pod' = [pod EXCEPT ![n].nft = b]
               /\ pod'[n].nft = b /\ pod'[n].rule = pod[n].rule
            \/ /\ pod' = [pod EXCEPT ![n].rule = b]
               /\ pod'[n].rule = b /\ pod'[n].nft = pod[n].nft
<1>1. pod[n] \in Pods
  BY Shapes DEF Exists
<1>2. CASE pod' = [pod EXCEPT ![n].nft = b]
  <2>1. PICK x : x = [pod[n] EXCEPT !.nft = b]
    OBVIOUS
  <2>2. x \in Pods /\ pod'[n] = x
    BY <1>1, <1>2, <2>1, Shapes DEF Pods
  <2>3. x.up = pod[n].up /\ x.handler = pod[n].handler /\ x.nft = b /\ x.rule = pod[n].rule
    BY <1>1, <2>1 DEF Pods
  <2> QED
    BY <1>2, <2>2, <2>3, NamesAssumption DEF Exists
<1>3. CASE pod' = [pod EXCEPT ![n].rule = b]
  <2>1. PICK x : x = [pod[n] EXCEPT !.rule = b]
    OBVIOUS
  <2>2. x \in Pods /\ pod'[n] = x
    BY <1>1, <1>3, <2>1, Shapes DEF Pods
  <2>3. x.up = pod[n].up /\ x.handler = pod[n].handler /\ x.rule = b /\ x.nft = pod[n].nft
    BY <1>1, <2>1 DEF Pods
  <2> QED
    BY <1>3, <2>2, <2>3, NamesAssumption DEF Exists
<1> QED
  BY <1>2, <1>3

\* The start of the remaining containers changes nothing of what is enforced.
LEMMA AgentKeeps ==
  ASSUME TypeInv, NEW n \in Names, Exists(n), NEW plan, Enforces(pod[n], plan),
         StartContainers(n, Containers) \/ StartContainers(n, {"workspace"})
  PROVE  Exists(n)' /\ Enforces(pod'[n], plan)
<1>1. PICK cs \in SUBSET Containers :
         /\ StartContainers(n, cs)
         /\ cs = Containers \/ "handler" \notin cs
  BY DEF Containers
<1>2. /\ Exists(n)' /\ pod'[n].up = pod[n].up \cup cs
      /\ pod'[n].nft = pod[n].nft /\ pod'[n].rule = pod[n].rule
      /\ "handler" \notin cs \ pod[n].up => pod'[n].handler = pod[n].handler
  BY <1>1, StartsMoves
<1> QED
  BY <1>1, <1>2 DEF Enforces

\* Each step of Start brings about what the next one relies on.
LEMMA AloneStart ==
  ASSUME TypeInv, NEW p \in Procs, NEW n \in Names, On(p, n), Alone(p, n),
         \/ ReadPodName(p) \/ StartPostgres(p) \/ StartOnecli(p) \/ ReadPolicy(p)
         \/ StartGuard(p) \/ ClearRules(p) \/ CreateRule(p) \/ WriteConfig(p)
         \/ SetFirewall(p) \/ StartHandler(p) \/ ClearFirewall(p) \/ StartPod(p)
  PROVE  Alone(p, n)'
<1> DEFINE x == pod[n]  y == pod'[n]  c == call[p]  d == call'[p]
<1>0. Name(p) = n /\ c \in Calls /\ Fits(c)
  BY SameName, FieldTypes
<1>1. CASE ReadPodName(p)
  <2>1. PICK e : e = [c EXCEPT !.at = "postgres",
                         !.fresh = ~Up(n, "handler") /\ ~Up(n, "workspace")]
    OBVIOUS
  <2>2. d = e
    BY <1>0, <1>1, <2>1, Shapes DEF ReadPodName
  <2>3. d.at = "postgres" /\ (d.fresh => ~Up(n, "handler"))
    BY <1>0, <2>1, <2>2 DEF Calls
  <2>4. UNCHANGED <<pod, conf>>
    BY <1>1 DEF ReadPodName
  <2> QED
    BY <2>3, <2>4 DEF Alone, Applied, Within, Planned, StartLabels, Up, Exists
<1>2. CASE StartPostgres(p)
  <2>1. c.at = "postgres" /\ d.at = "onecli" /\ d.plan = c.plan /\ d.fresh = c.fresh
    BY <1>2, GotoLocals DEF StartPostgres, At
  <2>2. /\ Exists(n)' /\ y.up = x.up \cup {"postgres"} /\ y.nft = x.nft /\ y.rule = x.rule
        /\ Exists(n) /\ conf' = conf
    BY <1>0, <1>2, StartsMoves DEF StartPostgres, Up, Containers
  <2> QED
    BY <2>1, <2>2 DEF Alone, Applied, Within, Planned, StartLabels
<1>3. CASE StartOnecli(p)
  <2>1. c.at = "onecli" /\ d.at = "read" /\ d.plan = c.plan /\ d.fresh = c.fresh
    BY <1>3, GotoLocals DEF StartOnecli, At
  <2>2. /\ Exists(n)' /\ y.up = x.up \cup {"onecli"} /\ y.nft = x.nft /\ y.rule = x.rule
        /\ Exists(n) /\ conf' = conf
    BY <1>0, <1>3, StartsMoves DEF StartOnecli, Up, Containers
  <2> QED
    BY <2>1, <2>2 DEF Alone, Applied, Within, Planned, StartLabels
<1>4. CASE ReadPolicy(p)
  <2>1. PICK plan : /\ plan.fresh = c.fresh
                    /\ call' = [call EXCEPT ![p].at = "guard", ![p].plan = plan]
    BY <1>4 DEF ReadPolicy
  <2>2. PICK e : e = [c EXCEPT !.at = "guard", !.plan = plan]
    OBVIOUS
  <2>3. d = e
    BY <2>1, <2>2, Shapes
  <2>4. c.at = "read" /\ d.at = "guard" /\ d.plan.fresh = d.fresh /\ d.fresh = c.fresh
    BY <1>0, <1>4, <2>1, <2>2, <2>3 DEF Calls, ReadPolicy, At
  <2>5. UNCHANGED <<pod, conf>>
    BY <1>4 DEF ReadPolicy
  <2> QED
    BY <2>4, <2>5 DEF Alone, Applied, Within, Planned, StartLabels, Exists
<1>5. CASE StartGuard(p)
  <2>1. c.at = "guard" /\ d.at = "clear" /\ d.plan = c.plan /\ d.fresh = c.fresh
    BY <1>5, GotoLocals DEF StartGuard, At
  <2>2. /\ Exists(n)' /\ y.up = x.up \cup {"guard"} /\ y.nft = x.nft /\ y.rule = x.rule
        /\ Exists(n) /\ conf' = conf
    BY <1>0, <1>5, StartsMoves DEF StartGuard, Up, Containers
  <2> QED
    BY <2>1, <2>2 DEF Alone, Applied, Within, Planned, StartLabels
<1>6. CASE ClearRules(p)
  <2>1. c.at = "clear" /\ d.at \in {"rule", "open"} /\ d.plan = c.plan /\ d.fresh = c.fresh
    BY <1>6, GotoLocals DEF ClearRules, At
  <2>2. pod' = [pod EXCEPT ![n].rule = FALSE] /\ Exists(n) /\ conf' = conf
    BY <1>0, <1>6 DEF ClearRules, Up
  <2>3. Exists(n)' /\ y.up = x.up /\ y.rule = FALSE
    <3>1. pod[n] \in Pods
      BY <2>2, Shapes DEF Exists
    <3> QED
      BY <2>2, <3>1, RulesMoves, Shapes DEF Pods
  <2> QED
    BY <2>1, <2>2, <2>3 DEF Alone, Applied, Within, Planned, StartLabels
<1>7. CASE CreateRule(p)
  <2>1. c.at = "rule" /\ d.at = "conf" /\ d.plan = c.plan /\ d.fresh = c.fresh
    BY <1>7, GotoLocals DEF CreateRule, At
  <2>2. pod' = [pod EXCEPT ![n].rule = TRUE] /\ Exists(n) /\ conf' = conf
    BY <1>0, <1>7 DEF CreateRule, Up
  <2>3. Exists(n)' /\ y.up = x.up /\ y.rule = TRUE
    <3>1. pod[n] \in Pods
      BY <2>2, Shapes DEF Exists
    <3> QED
      BY <2>2, <3>1, RulesMoves, Shapes DEF Pods
  <2> QED
    BY <2>1, <2>2, <2>3 DEF Alone, Applied, Within, Planned, StartLabels
<1>8. CASE WriteConfig(p)
  <2>1. c.at = "conf" /\ d.at = "nft" /\ d.plan = c.plan /\ d.fresh = c.fresh
    BY <1>8, GotoLocals DEF WriteConfig, At
  <2>2. pod' = pod /\ conf'[n] = c.plan.hosts
    BY <1>0, <1>8, Shapes DEF WriteConfig
  <2> QED
    BY <2>1, <2>2 DEF Alone, Applied, Within, Planned, StartLabels, Exists
<1>9. CASE SetFirewall(p)
  <2>1. c.at = "nft" /\ d.at = "handler" /\ d.plan = c.plan /\ d.fresh = c.fresh
    BY <1>9, GotoLocals DEF SetFirewall, At
  <2>2. pod' = [pod EXCEPT ![n].nft = TRUE] /\ Exists(n) /\ conf' = conf
    BY <1>0, <1>9 DEF SetFirewall, Up
  <2>3. Exists(n)' /\ y.up = x.up /\ y.nft = TRUE /\ y.rule = x.rule
    <3>1. pod[n] \in Pods
      BY <2>2, Shapes DEF Exists
    <3> QED
      BY <2>2, <3>1, RulesMoves, Shapes DEF Pods
  <2> QED
    BY <2>1, <2>2, <2>3 DEF Alone, Applied, Within, Planned, StartLabels
<1>10. CASE StartHandler(p)
  <2>1. c.at = "handler" /\ d.at = "pod" /\ d.plan = c.plan /\ d.fresh = c.fresh
    BY <1>10, GotoLocals DEF StartHandler, At
  <2>2. /\ Exists(n)' /\ y.up = x.up \cup {"handler"} /\ y.nft = x.nft /\ y.rule = x.rule
        /\ "handler" \notin x.up => y.handler = conf[n]
        /\ Exists(n) /\ conf' = conf
    BY <1>0, <1>10, StartsMoves DEF StartHandler, Containers
  <2>3. c.plan.mode = "deny"
    BY <1>0, <2>1 DEF Fits, Denying
  <2>4. x.rule /\ x.nft /\ conf[n] = c.plan.hosts /\ (c.plan.fresh => "handler" \notin x.up)
        /\ c.plan.fresh = c.fresh
    BY <2>1, <2>2 DEF Alone, Applied, Planned, StartLabels
  <2>5. Enforces(y, d.plan)
    BY <2>1, <2>2, <2>3, <2>4 DEF Enforces
  <2> QED
    BY <2>1, <2>2, <2>4, <2>5 DEF Alone, Applied, Within, Planned, StartLabels
<1>11. CASE ClearFirewall(p)
  <2>1. c.at = "open" /\ d.at = "pod" /\ d.plan = c.plan /\ d.fresh = c.fresh
    BY <1>11, GotoLocals DEF ClearFirewall, At
  <2>2. pod' = [pod EXCEPT ![n].nft = FALSE] /\ Exists(n) /\ conf' = conf
    BY <1>0, <1>11 DEF ClearFirewall, Up
  <2>3. Exists(n)' /\ y.up = x.up /\ y.nft = FALSE /\ y.rule = x.rule
    <3>1. pod[n] \in Pods
      BY <2>2, Shapes DEF Exists
    <3> QED
      BY <2>2, <3>1, RulesMoves, Shapes DEF Pods
  <2>4. c.plan.mode # "deny" /\ ~x.rule /\ c.plan.fresh = c.fresh
    BY <1>0, <2>1, <2>2 DEF Fits, Alone, Applied, Planned
  <2>5. Enforces(y, d.plan)
    BY <2>1, <2>3, <2>4 DEF Enforces
  <2> QED
    BY <2>1, <2>2, <2>3, <2>4, <2>5 DEF Alone, Applied, Within, Planned, StartLabels
<1>12. CASE StartPod(p)
  <2>1. c.at = "pod" /\ d.at = "verify" /\ d.plan = c.plan /\ d.fresh = c.fresh
    BY <1>12, GotoLocals DEF StartPod, At
  <2>2. Exists(n) /\ StartContainers(n, Containers)
    BY <1>0, <1>12 DEF StartPod
  <2>3. Exists(n)' /\ Enforces(y, c.plan)
    BY <2>1, <2>2, AgentKeeps DEF Alone, Applied
  <2>4. c.plan.fresh = c.fresh
    BY <2>1, <2>2 DEF Alone, Applied, Planned
  <2> QED
    BY <2>1, <2>3, <2>4 DEF Alone, Applied, Within, Planned, StartLabels
<1> QED
  BY <1>1, <1>2, <1>3, <1>4, <1>5, <1>6, <1>7, <1>8, <1>9, <1>10, <1>11, <1>12

\* Only a Start that succeeds puts a plan on record.
LEMMA AppliedSame ==
  ASSUME NEW p \in Procs, Call(p), ~StartEnd(p), \A n \in Names : ~Begins(p, n)
  PROVE  applied' = applied
  BY DEF Call, Begins, history, Create, Start, Stop, Remove, Prepare, Play, Detect,
     Services,
         Provision, Halt, Certs, CreateContainer, WritePodFiles, CreateEnd,
         CreateFailsEarly, CreateFails, Undone, Undo, CreateUnsaved,
         ReadPodName, StartPostgres, StartOnecli, ReadPolicy, StartGuard, ClearRules,
         CreateRule, WriteConfig, SetFirewall, StartHandler, ClearFirewall, StartPod,
         StartEnd, StartFails, Inspect, StopContainer, StopFails, Check, RemovePod,
         CleanupPodFiles, CleanupTempDirs, RemoveEnd, RemoveFails, Die

\* A call that is in Start after a step of it that is not the first was there
\* before, and took one of the steps that go on.
LEMMA StartSteps ==
  ASSUME TypeInv, NEW p \in Procs, NEW n \in Names, On(p, n), Call(p), Step(p, n),
         Within(p, StartLabels)'
  PROVE  \/ ReadPodName(p) \/ StartPostgres(p) \/ StartOnecli(p) \/ ReadPolicy(p)
         \/ StartGuard(p) \/ ClearRules(p) \/ CreateRule(p) \/ WriteConfig(p)
         \/ SetFirewall(p) \/ StartHandler(p) \/ ClearFirewall(p) \/ StartPod(p)
<1>1. \A m \in Names : ~Begins(p, m)
  BY BeginMoves, NamesAssumption DEF On
<1>2. Within(p, StartLabels)
  <2>1. CASE Quiet(p, n)
    BY <2>1 DEF Quiet, Within, NoCall, Making, StartLabels, StopLabels
  <2>2. CASE Play(p) \/ CreateContainer(p) \/ WritePodFiles(p) \/ CreateEnd(p)
    BY <2>2, PlayMoves, ContainerMoves, WriteMoves, CreateEndMoves
       DEF Within, StartLabels
  <2>5. CASE CreateFailsEarly(p) \/ CreateFails(p) \/ Undo(p)
    BY <2>5, EarlyMoves, CreateFailsMoves, UndoMoves DEF Within, StartLabels
  <2>3. CASE Check(p) \/ RemovePod(p)
    BY <2>3, CheckMoves, RemovePodMoves DEF Within, StartLabels
  <2>4. CASE CleanupPodFiles(p) \/ CleanupTempDirs(p) \/ RemoveEnd(p) \/ RemoveFails(p)
    BY <2>4, PodFilesMoves, TempDirsMoves, RemoveEndMoves, RemoveFailsMoves
       DEF Within, StartLabels
  <2> QED
    BY <1>1, <2>1, <2>2, <2>3, <2>4, <2>5 DEF Step
<1>3. ~Return(p)
  <2>1. ASSUME Return(p) PROVE FALSE
    BY <2>1, ReturnCall, Shapes DEF Within, StartLabels
  <2> QED
    BY <2>1
<1>4. Start(p) /\ ~StartEnd(p) /\ ~StartFails(p)
  BY <1>1, <1>2, <1>3
     DEF Call, Begins, Create, Stop, Remove, Die, Prepare, Play, Detect, Services,
         Provision, Halt, Certs, CreateContainer, WritePodFiles, CreateEnd,
         CreateFailsEarly, CreateFails, Undone, Undo, CreateUnsaved,
         Inspect, StopContainer, StopFails, Check, RemovePod, CleanupPodFiles,
         CleanupTempDirs, RemoveEnd, RemoveFails, StartEnd, StartFails, At, Within, CreateLabels,
         StartLabels, StopLabels
<1> QED
  BY <1>1, <1>4 DEF Start, Begins

LEMMA PolicyNext ==
  ASSUME TypeInv, KnownInv, PolicyInv, [Next]_vars
  PROVE  PolicyInv'
<1> DEFINE InForce(m) ==
      applied[m] # NoPlan =>
         /\ ~Busy(m)
         /\ Exists(m) /\ "workspace" \in pod[m].up /\ Enforces(pod[m], applied[m])
<1> DEFINE Safe(m) == InForce(m) /\ \A q \in Procs : On(q, m) => Alone(q, m)
<1> SUFFICES ASSUME NEW m \in Names, m \notin raced' PROVE Safe(m)'
  BY DEF PolicyInv, Alone
<1>0. m \notin raced => Safe(m)
  BY DEF PolicyInv, Alone
<1>1. CASE UNCHANGED vars
  BY <1>0, <1>1 DEF vars, On, Within, Alone, Exists, Busy
<1>2. CASE Reboot
  <2>1. applied'[m] = NoPlan /\ \A q \in Procs : call'[q].name = NoName
    BY <1>2, RebootMoves
  <2> QED
    BY <2>1, NamesAssumption DEF On
<1>3. ASSUME NEW p \in Procs, Call(p)
      PROVE  Safe(m)'
  <2>0. PICK n \in Names : (Begins(p, n) \/ On(p, n)) /\ Step(p, n)
    BY <1>3, CallSteps
  <2>1. Only(p, n) /\ Safe(m) /\ m \notin raced
    BY <1>0, <2>0, StepOnly DEF Only
  <2>2. CASE m # n
    <3>1. /\ pod'[m] = pod[m] /\ conf'[m] = conf[m] /\ applied'[m] = applied[m]
          /\ \A q \in Procs : (On(q, m)' <=> On(q, m)) /\ (On(q, m) => call'[q] = call[q])
      BY <2>1, <2>2, NamesAssumption DEF Only, On
    <3>2. InForce(m)'
      BY <2>1, <3>1 DEF Busy, On, Exists
    <3>3. \A q \in Procs : On(q, m)' => Alone(q, m)'
      BY <2>1, <3>1 DEF Alone, Within, Exists
    <3> QED
      BY <3>2, <3>3
  <2>3. CASE m = n /\ Begins(p, n)
    <3>1. /\ ~Busy(n) /\ applied'[n] = NoPlan
          /\ call'[p].at \in {"prepare", "name", "inspect", "check"}
      BY <2>3, BeginMoves
    <3>2. \A q \in Procs : On(q, n)' => q = p
      BY <2>1, <3>1 DEF Only, On, Busy
    <3>3. Alone(p, n)'
      BY <3>1 DEF Alone, Applied, Within, Planned, StartLabels
    <3> QED
      BY <2>3, <3>1, <3>2, <3>3
  <2>4. CASE m = n /\ On(p, n)
    <3>1. /\ \A q \in Procs : On(q, n)' => q = p
          /\ Alone(p, n) /\ applied[n] = NoPlan
      BY <2>1, <2>4 DEF KnownInv, Only, On, Busy
    <3>2. \A k \in Names : ~Begins(p, k)
      BY <2>4, BeginMoves, NamesAssumption DEF On
    <3>3. CASE StartEnd(p)
      <4>1. call'[p].name = NoName /\ call'[p].at = "idle"
        BY <3>3, ReturnCall, Shapes DEF StartEnd
      <4>2. ~Busy(n)'
        BY <2>1, <3>1, <4>1, NamesAssumption DEF On, Busy
      <4>3. /\ call[p].at = "verify" /\ Up(n, "workspace") /\ pod' = pod
            /\ applied'[n] = call[p].plan
        BY <2>4, <3>3, SameName, Shapes DEF StartEnd, At
      <4>4. Enforces(pod[n], call[p].plan)
        BY <3>1, <4>3 DEF Alone, Applied, Up
      <4> QED
        BY <2>4, <4>2, <4>3, <4>4 DEF Up, Exists, Busy, On
    <3>4. CASE ~StartEnd(p)
      <4>1. applied'[n] = NoPlan
        BY <1>3, <3>1, <3>2, <3>4, AppliedSame
      <4>2. CASE Within(p, StartLabels)'
        BY <1>3, <2>0, <2>4, <3>1, <4>1, <4>2, StartSteps, AloneStart
      <4>3. CASE ~Within(p, StartLabels)'
        <5>1. Alone(p, n)'
          BY <4>3 DEF Alone, Applied, Within, Planned, StartLabels
        <5> QED
          BY <2>4, <3>1, <4>1, <5>1
      <4> QED
        BY <4>2, <4>3
    <3> QED
      BY <3>3, <3>4
  <2> QED
    BY <2>0, <2>2, <2>3, <2>4
<1> QED
  BY <1>1, <1>2, <1>3 DEF Next, Call

LEMMA PolicyCorrect == Spec => []PolicyInv
<1>1. Init => PolicyInv
  BY NamesAssumption DEF Init, PolicyInv, On, NoCall
<1>2. BaseInv /\ PolicyInv /\ [Next]_vars => PolicyInv'
  BY PolicyNext DEF BaseInv
<1> QED
  BY <1>1, <1>2, BaseCorrect, PTL DEF Spec

\* After a Start that succeeded the workspace runs under the policy that this
\* Start read, whatever earlier starts, stops, errors, deaths and restarts of
\* the machine had left, unless calls on the workspace overlapped.
THEOREM PolicyStaysInForce == Spec => []PolicyInForce
<1>1. PolicyInv => PolicyInForce
  BY DEF PolicyInv, PolicyInForce
<1> QED
  BY <1>1, PolicyCorrect, PTL

\* The agent comes up only under its policy: in a Start that has read one and,
\* in deny mode, after both rules and the handler are in place.
THEOREM AgentRunsUnderPolicy == Spec => AgentUnderPolicy
<1>1. ASSUME TypeInv, PolicyInv, [Next]_vars, NEW n \in Names, n \notin raced',
             ~Up(n, "workspace"), Up(n, "workspace")'
      PROVE  \E p \in Procs : /\ call[p].name = n
                              /\ call[p].plan # NoPlan
                              /\ call[p].plan.mode = "deny" =>
                                     Enforces(pod'[n], call[p].plan)
  <2>1. PICK p \in Procs : Raises(p, n) /\ (StartPod(p) \/ StartFails(p))
    BY <1>1, RaisesAgent
  <2>2. n \notin raced
    BY <1>1, <2>1 DEF StartPod, StartFails, history
  <2>3. call[p].plan # NoPlan
    BY <1>1, <2>1, FieldTypes, NamesAssumption DEF Raises, Fits, Planned
  <2>4. Enforces(pod[n], call[p].plan)
    BY <1>1, <2>1, <2>2 DEF PolicyInv, Raises, Applied
  <2>5. Enforces(pod'[n], call[p].plan)
    BY <1>1, <2>1, <2>4, AgentKeeps DEF Raises
  <2> QED
    BY <2>1, <2>3, <2>5 DEF Raises, On
<1>2. TypeInv /\ PolicyInv /\ [Next]_vars =>
         [\A n \in Names \ raced' :
             (~Up(n, "workspace") /\ Up(n, "workspace")') =>
                 \E p \in Procs : /\ call[p].name = n
                                  /\ call[p].plan # NoPlan
                                  /\ call[p].plan.mode = "deny" =>
                                         Enforces(pod'[n], call[p].plan)]_vars
  BY <1>1
<1>3. BaseInv => TypeInv
  BY DEF BaseInv
<1> QED
  BY <1>2, <1>3, BaseCorrect, PolicyCorrect, PTL DEF Spec, AgentUnderPolicy
=============================================================================
