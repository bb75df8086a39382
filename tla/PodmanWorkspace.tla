--------------------------- MODULE PodmanWorkspace ---------------------------
(***************************************************************************)
(* The Podman runtime (pkg/runtime/podman): Create, Start, Stop and Remove *)
(* of the pod of a workspace.  A method is a series of podman commands,    *)
(* OneCLI requests and file operations; each is a step that may fail, the  *)
(* process may die between any two of them, and calls of other processes   *)
(* may run in between, because the manager holds no file lock while a      *)
(* runtime works.                                                          *)
(*                                                                         *)
(* A pod has five containers: postgres, onecli (the proxy), handler (the   *)
(* approval-handler, which answers for the hosts in the config.json that   *)
(* it reads when it starts), guard (network-guard, in which the firewall   *)
(* rules are set) and workspace, where the agent runs.                     *)
(*                                                                         *)
(* Abstractions.  A network policy is its mode and a set of hosts; secrets *)
(* and the model add hosts in the same way as the configuration does, and  *)
(* there is one kind of credential.  The firewall rules live as long as    *)
(* one container of the pod runs, the rules of OneCLI as long as the pod.  *)
(* What is written under the build directory, which Create always removes, *)
(* and the image are left out.  The last step of Create and of Remove is   *)
(* the manager's save, which records the workspace or drops it.            *)
(***************************************************************************)
EXTENDS Sequences

CONSTANTS
    Procs,   \* kdn processes, one runtime call each at a time
    Names,   \* workspace names, which are also the names of pods
    Ids,     \* ids of workspace containers
    Hosts,   \* hosts that a configuration may allow
    Cred,    \* the hosts of the credential, as one host
    Orders,  \* the orders in which podman may list the containers of a pod
    NoPod,   \* no such pod
    NoId,    \* no such container
    NoName,  \* no such file
    NoConf,  \* no config.json, or a handler that runs idle
    NoPlan   \* no policy

Containers == {"postgres", "onecli", "handler", "guard", "workspace"}

Modes == {"allow", "deny", "unset"}

\* Without a mode, as in allow mode, hosts have no effect.
Policies == [mode : {"allow", "unset"}, hosts : {{}}] \cup [mode : {"deny"}, hosts : SUBSET Hosts]

\* The directories under storageDir that have an entry per workspace.
TempDirs == {"approval-handler", "certs", "credentials"} \X Names

AllHosts == Hosts \cup {Cred}

HostLists == (SUBSET AllHosts) \cup {NoConf}

Pods == [ctr : Ids \cup {NoId}, up : SUBSET Containers, nft : BOOLEAN,
         rule : BOOLEAN, handler : HostLists, configured : BOOLEAN]

\* What Start applies; fresh: no handler or agent ran when it was called.
Plans == [mode : Modes, hosts : SUBSET AllHosts, fresh : BOOLEAN]

CreateLabels == {"prepare", "play", "detect", "services", "provision", "halt",
                 "certs", "container", "files", "save", "undo"}
StartLabels  == {"name", "postgres", "onecli", "read", "guard", "clear", "rule",
                 "conf", "nft", "handler", "open", "pod", "verify"}
StopLabels   == {"inspect", "stop"}
RemoveLabels == {"check", "rm", "rmfiles", "rmdirs", "gonedirs", "gonefiles", "drop"}
Labels == {"idle"} \cup CreateLabels \cup StartLabels \cup StopLabels
             \cup RemoveLabels

ASSUME OrdersAssumption ==
    Orders \subseteq {s \in Seq(Containers) : {s[i] : i \in DOMAIN s} = Containers}

ASSUME NamesAssumption ==
    /\ Cred \notin Hosts
    /\ NoId \notin Ids
    /\ NoName \notin Names
    /\ \A list \in SUBSET AllHosts : NoConf # list
    /\ NoPod \notin Pods
    /\ NoPlan \notin Plans

VARIABLES
    pod,      \* pod[n]: the pod of that name
    dirs,     \* the entries under storageDir
    conf,     \* conf[n]: the hosts in config.json
    files,    \* files[id]: the pod name stored in pods/<id>
    known,    \* known[n]: the container id the manager has on record
    call,     \* call[p]: the call of p: its next step and its local variables
    applied,  \* applied[n]: the plan of the last call on n, a Start that succeeded
    raced,    \* names on which two calls have overlapped
    broken,   \* names of which a call died, or left a pod nobody has on record
    littered  \* names of which a Remove could not remove a file or directory

vars == <<pod, dirs, conf, files, known, call, applied, raced, broken, littered>>

NoCall == [at |-> "idle", name |-> NoName, id |-> NoId, cred |-> FALSE,
           plan |-> NoPlan, fresh |-> FALSE, todo |-> << >>]

NewPod == [ctr |-> NoId, up |-> {}, nft |-> FALSE, rule |-> FALSE,
           handler |-> NoConf, configured |-> FALSE]

Init ==
    /\ pod = [n \in Names |-> NoPod]
    /\ dirs = {}
    /\ conf = [n \in Names |-> NoConf]
    /\ files = [id \in Ids |-> NoName]
    /\ known = [n \in Names |-> NoId]
    /\ call = [p \in Procs |-> NoCall]
    /\ applied = [n \in Names |-> NoPlan]
    /\ raced = {}
    /\ broken = {}
    /\ littered = {}

-----------------------------------------------------------------------------
(* Helpers.                                                                *)

At(p, label) == call[p].at = label

Name(p) == call[p].name

Goto(p, label) == call' = [call EXCEPT ![p].at = label]

Return(p) == call' = [call EXCEPT ![p] = NoCall]

Busy(n) == \E p \in Procs : call[p].name = n

Exists(n) == pod[n] # NoPod

\* Container c of pod n runs.
Up(n, c) == Exists(n) /\ c \in pod[n].up

\* The workspace container of pod n has this id.
HasContainer(n, id) == Exists(n) /\ pod[n].ctr = id

\* Pod x after the containers cs were started: a handler that did not run reads config.json.
Started(x, cs, list) ==
    [x EXCEPT !.up = @ \cup cs,
              !.handler = IF "handler" \in cs \ x.up THEN list ELSE @]

\* Pod x after the containers cs were stopped.
Halted(x, cs) ==
    [x EXCEPT !.up = @ \ cs,
              !.nft = @ /\ x.up \ cs # {},
              !.handler = IF "handler" \in cs THEN NoConf ELSE @]

StartContainers(n, cs) == pod' = [pod EXCEPT ![n] = Started(@, cs, conf[n])]

\* The manager calls a method on workspace n.  To bound the model, no call
\* follows two calls that overlap on n.
Begin(p, n, new) ==
    /\ At(p, "idle")
    /\ n \notin raced
    /\ call' = [call EXCEPT ![p] = new]
    /\ raced' = IF Busy(n) THEN raced \cup {n} ELSE raced
    /\ applied' = [applied EXCEPT ![n] = NoPlan]
    /\ UNCHANGED <<pod, dirs, conf, files, known, broken, littered>>

history == <<applied, raced, broken, littered>>

-----------------------------------------------------------------------------
(* Create.                                                                 *)

\* The configuration may mount a credential file of the host.
CreateBegin(p, n) ==
    /\ known[n] = NoId
    /\ \E cred \in BOOLEAN :
          Begin(p, n, [NoCall EXCEPT !.at = "prepare", !.name = n, !.cred = cred])

\* The image is built and the directory of the approval-handler written.
Prepare(p) ==
    /\ At(p, "prepare")
    /\ dirs' = dirs \cup {<<"approval-handler", Name(p)>>}
    /\ Goto(p, "play")
    /\ UNCHANGED <<pod, conf, files, known, history>>

\* podman kube play --start=false fails when there is a pod of that name.
Play(p) ==
    /\ At(p, "play")
    /\ ~Exists(Name(p))
    /\ pod' = [pod EXCEPT ![Name(p)] = NewPod]
    /\ Goto(p, "detect")
    /\ UNCHANGED <<dirs, conf, files, known, history>>

\* A credential for which no placeholder can be made is skipped, with or
\* without a directory left behind.
Detect(p) ==
    /\ At(p, "detect")
    /\ \/ /\ call[p].cred
          /\ dirs' = dirs \cup {<<"credentials", Name(p)>>}
          /\ \E active \in BOOLEAN :
                call' = [call EXCEPT ![p].cred = active, ![p].at = "services"]
       \/ /\ dirs' = dirs
          /\ call' = [call EXCEPT ![p].cred = FALSE, ![p].at = "services"]
    /\ UNCHANGED <<pod, conf, files, known, history>>

Services(p) ==
    /\ At(p, "services")
    /\ Exists(Name(p))
    /\ StartContainers(Name(p), {"postgres", "onecli"})
    /\ Goto(p, "provision")
    /\ UNCHANGED <<dirs, conf, files, known, history>>

\* Secrets are provisioned and the credential is configured in OneCLI.
Provision(p) ==
    /\ At(p, "provision")
    /\ Up(Name(p), "onecli")
    /\ pod' = [pod EXCEPT ![Name(p)].configured = call[p].cred]
    /\ Goto(p, "halt")
    /\ UNCHANGED <<dirs, conf, files, known, history>>

\* podman pod stop, which does nothing when some container does not run
\* (stop.go:53), as is the case for those that were never started.
Halt(p) ==
    /\ At(p, "halt")
    /\ Exists(Name(p))
    /\ \/ pod' = [pod EXCEPT ![Name(p)] = Halted(@, Containers)]
       \/ pod' = pod
    /\ Goto(p, "certs")
    /\ UNCHANGED <<dirs, conf, files, known, history>>

Certs(p) ==
    /\ At(p, "certs")
    /\ dirs' = dirs \cup {<<"certs", Name(p)>>}
    /\ Goto(p, "container")
    /\ UNCHANGED <<pod, conf, files, known, history>>

CreateContainer(p) ==
    /\ At(p, "container")
    /\ HasContainer(Name(p), NoId)
    /\ \E id \in Ids :
          /\ files[id] = NoName
          /\ \A n \in Names : known[n] # id /\ ~HasContainer(n, id)
          /\ \A q \in Procs : call[q].id # id
          /\ pod' = [pod EXCEPT ![Name(p)].ctr = id]
          /\ call' = [call EXCEPT ![p].id = id, ![p].at = "files"]
    /\ UNCHANGED <<dirs, conf, files, known, history>>

\* writePodFiles and writeCAContainerPath.
WritePodFiles(p) ==
    /\ At(p, "files")
    /\ files' = [files EXCEPT ![call[p].id] = Name(p)]
    /\ Goto(p, "save")
    /\ UNCHANGED <<pod, dirs, conf, known, history>>

\* The manager saves the record of the workspace.
CreateEnd(p) ==
    /\ At(p, "save")
    /\ known' = [known EXCEPT ![Name(p)] = call[p].id]
    /\ Return(p)
    /\ UNCHANGED <<pod, dirs, conf, files, history>>

\* A step fails before or in kube play, which no cleanup follows: the pod may
\* have been made all the same.
CreateFailsEarly(p) ==
    /\ call[p].at \in {"prepare", "play"}
    /\ \/ UNCHANGED <<pod, broken>>
       \/ /\ At(p, "play")
          /\ ~Exists(Name(p))
          /\ pod' = [pod EXCEPT ![Name(p)] = NewPod]
          /\ broken' = broken \cup {Name(p)}
    /\ Return(p)
    /\ UNCHANGED <<dirs, conf, files, known, applied, raced, littered>>

\* The steps that the deferred function undoes when they fail.
Undone == CreateLabels \ {"prepare", "play", "save", "undo"}

\* Mutant: the deferred function is not run on an error.
CreateFails_keepsPod(p) ==
    /\ call[p].at \in Undone
    /\ Return(p)
    /\ UNCHANGED <<pod, dirs, conf, files, known, history>>

\* A step fails after kube play: the pod has to be removed.
CreateFails(p) ==
    /\ call[p].at \in Undone
    /\ Goto(p, "undo")
    /\ \/ files' = files
       \/ At(p, "files") /\ files' = [files EXCEPT ![call[p].id] = Name(p)]
    /\ UNCHANGED <<pod, dirs, conf, known, history>>

\* The deferred podman pod rm -f, whose error is ignored.
Undo(p) ==
    /\ At(p, "undo")
    /\ \/ pod' = [pod EXCEPT ![Name(p)] = NoPod] /\ broken' = broken
       \/ pod' = pod /\ broken' = broken \cup {Name(p)}
    /\ Return(p)
    /\ UNCHANGED <<dirs, conf, files, known, applied, raced, littered>>

\* The save fails, and the manager does not take back what the runtime made.
CreateUnsaved(p) ==
    /\ At(p, "save")
    /\ Return(p)
    /\ broken' = broken \cup {Name(p)}
    /\ UNCHANGED <<pod, dirs, conf, files, known, applied, raced, littered>>

-----------------------------------------------------------------------------
(* Start.                                                                  *)

StartBegin(p, n) ==
    /\ known[n] # NoId
    /\ Begin(p, n, [NoCall EXCEPT !.at = "name", !.name = n, !.id = known[n]])

\* readPodName.
ReadPodName(p) ==
    /\ At(p, "name")
    /\ files[call[p].id] = Name(p)
    /\ call' = [call EXCEPT ![p].at = "postgres",
                   ![p].fresh = ~Up(Name(p), "handler") /\ ~Up(Name(p), "workspace")]
    /\ UNCHANGED <<pod, dirs, conf, files, known, history>>

StartPostgres(p) ==
    /\ At(p, "postgres")
    /\ Exists(Name(p))
    /\ StartContainers(Name(p), {"postgres"})
    /\ Goto(p, "onecli")
    /\ UNCHANGED <<dirs, conf, files, known, history>>

StartOnecli(p) ==
    /\ At(p, "onecli")
    /\ Up(Name(p), "postgres")
    /\ StartContainers(Name(p), {"onecli"})
    /\ Goto(p, "read")
    /\ UNCHANGED <<dirs, conf, files, known, history>>

\* The policy is read from the configuration files, which the user may have
\* edited; the directory of the credential says that its hosts are to be added.
ReadPolicy(p) ==
    /\ At(p, "read")
    /\ files[call[p].id] = Name(p)
    /\ LET cred == IF <<"credentials", Name(p)>> \in dirs THEN {Cred} ELSE {}
       IN  \E policy \in Policies :
              call' = [call EXCEPT ![p].at = "guard",
                          ![p].plan = [mode  |-> policy.mode,
                                       hosts |-> policy.hosts \cup cred,
                                       fresh |-> call[p].fresh]]
    /\ UNCHANGED <<pod, dirs, conf, files, known, history>>

\* Mutant: the pod is started before the rules are set, with the containers
\* that the rules need.
StartGuard_wholePod(p) ==
    /\ At(p, "guard")
    /\ Up(Name(p), "onecli")
    /\ StartContainers(Name(p), Containers)
    /\ Goto(p, "clear")
    /\ UNCHANGED <<dirs, conf, files, known, history>>

\* The network guard is started, and OneCLI answers.
StartGuard(p) ==
    /\ At(p, "guard")
    /\ Up(Name(p), "onecli")
    /\ StartContainers(Name(p), {"guard"})
    /\ Goto(p, "clear")
    /\ UNCHANGED <<dirs, conf, files, known, history>>

\* Every rule is deleted, in configureNetworking and in clearNetworkingRules.
ClearRules(p) ==
    /\ At(p, "clear")
    /\ Up(Name(p), "onecli")
    /\ pod' = [pod EXCEPT ![Name(p)].rule = FALSE]
    /\ Goto(p, IF call[p].plan.mode = "deny" THEN "rule" ELSE "open")
    /\ UNCHANGED <<dirs, conf, files, known, history>>

CreateRule(p) ==
    /\ At(p, "rule")
    /\ Up(Name(p), "onecli")
    /\ pod' = [pod EXCEPT ![Name(p)].rule = TRUE]
    /\ Goto(p, "conf")
    /\ UNCHANGED <<dirs, conf, files, known, history>>

WriteConfig(p) ==
    /\ At(p, "conf")
    /\ <<"approval-handler", Name(p)>> \in dirs
    /\ conf' = [conf EXCEPT ![Name(p)] = call[p].plan.hosts]
    /\ Goto(p, "nft")
    /\ UNCHANGED <<pod, dirs, files, known, history>>

SetFirewall(p) ==
    /\ At(p, "nft")
    /\ Up(Name(p), "guard")
    /\ pod' = [pod EXCEPT ![Name(p)].nft = TRUE]
    /\ Goto(p, "handler")
    /\ UNCHANGED <<dirs, conf, files, known, history>>

\* podman start does nothing when the handler runs.
StartHandler(p) ==
    /\ At(p, "handler")
    /\ Exists(Name(p))
    /\ StartContainers(Name(p), {"handler"})
    /\ Goto(p, "pod")
    /\ UNCHANGED <<dirs, conf, files, known, history>>

\* Mutant: the firewall of a deny-mode start is left when the mode is no longer deny.
ClearFirewall_kept(p) ==
    /\ At(p, "open")
    /\ Up(Name(p), "guard")
    /\ Goto(p, "pod")
    /\ UNCHANGED <<pod, dirs, conf, files, known, history>>

ClearFirewall(p) ==
    /\ At(p, "open")
    /\ Up(Name(p), "guard")
    /\ pod' = [pod EXCEPT ![Name(p)].nft = FALSE]
    /\ Goto(p, "pod")
    /\ UNCHANGED <<dirs, conf, files, known, history>>

\* podman pod start: all containers that do not run yet, the workspace included.
StartPod(p) ==
    /\ At(p, "pod")
    /\ Exists(Name(p))
    /\ StartContainers(Name(p), Containers)
    /\ Goto(p, "verify")
    /\ UNCHANGED <<dirs, conf, files, known, history>>

\* The certificate is installed in the container and its state is read.
StartEnd(p) ==
    /\ At(p, "verify")
    /\ HasContainer(Name(p), call[p].id)
    /\ Up(Name(p), "workspace")
    /\ applied' = [applied EXCEPT ![Name(p)] = call[p].plan]
    /\ Return(p)
    /\ UNCHANGED <<pod, dirs, conf, files, known, raced, broken, littered>>

\* A step fails and nothing is undone; the script that sets the firewall
\* begins with the deletion of the tables, and a pod may be started in part.
StartFails(p) ==
    /\ call[p].at \in StartLabels
    /\ Return(p)
    /\ \/ pod' = pod
       \/ /\ At(p, "nft")
          /\ Up(Name(p), "guard")
          /\ pod' = [pod EXCEPT ![Name(p)].nft = FALSE]
       \/ /\ At(p, "pod")
          /\ Exists(Name(p))
          /\ StartContainers(Name(p), {"workspace"})
    /\ UNCHANGED <<dirs, conf, files, known, history>>

-----------------------------------------------------------------------------
(* Stop.                                                                   *)

StopBegin(p, n) ==
    /\ known[n] # NoId
    /\ Begin(p, n, [NoCall EXCEPT !.at = "inspect", !.name = n, !.id = known[n]])

\* No pod name or no pod: there is nothing to stop.
Inspect(p) ==
    /\ At(p, "inspect")
    /\ IF files[call[p].id] = Name(p) /\ Exists(Name(p))
       THEN \E order \in Orders :
               call' = [call EXCEPT ![p].at = "stop", ![p].todo = order]
       ELSE Return(p)
    /\ UNCHANGED <<pod, dirs, conf, files, known, history>>

\* The containers are stopped one by one.
StopContainer(p) ==
    /\ At(p, "stop")
    /\ Exists(Name(p))
    /\ LET todo == call[p].todo
       IN  /\ pod' = [pod EXCEPT ![Name(p)] = Halted(@, {Head(todo)})]
           /\ IF Len(todo) = 1
              THEN Return(p)
              ELSE call' = [call EXCEPT ![p].todo = Tail(todo)]
    /\ UNCHANGED <<dirs, conf, files, known, history>>

StopFails(p) ==
    /\ call[p].at \in StopLabels
    /\ Return(p)
    /\ UNCHANGED <<pod, dirs, conf, files, known, history>>

-----------------------------------------------------------------------------
(* Remove.                                                                 *)

RemoveBegin(p, n) ==
    /\ known[n] # NoId
    /\ Begin(p, n, [NoCall EXCEPT !.at = "check", !.name = n, !.id = known[n]])

\* Mutant: the state of the container is not looked at.
Check_anyState(p) ==
    /\ At(p, "check")
    /\ LET named == files[call[p].id] = Name(p)
       IN  \/ /\ ~HasContainer(Name(p), call[p].id)
              /\ Goto(p, IF named THEN "gonedirs" ELSE "gonefiles")
           \/ /\ HasContainer(Name(p), call[p].id)
              /\ IF named THEN Goto(p, "rm") ELSE Return(p)
    /\ UNCHANGED <<pod, dirs, conf, files, known, history>>

\* A workspace whose container is gone is only cleaned up; one that runs is refused.
Check(p) ==
    /\ At(p, "check")
    /\ LET named == files[call[p].id] = Name(p)
       IN  \/ /\ ~HasContainer(Name(p), call[p].id)
              /\ Goto(p, IF named THEN "gonedirs" ELSE "gonefiles")
           \/ /\ HasContainer(Name(p), call[p].id)
              /\ IF named /\ ~Up(Name(p), "workspace") THEN Goto(p, "rm") ELSE Return(p)
    /\ UNCHANGED <<pod, dirs, conf, files, known, history>>

RemovePod(p) ==
    /\ At(p, "rm")
    /\ pod' = [pod EXCEPT ![Name(p)] = NoPod]
    /\ Goto(p, "rmfiles")
    /\ UNCHANGED <<dirs, conf, files, known, history>>

\* cleanupPodFiles, before cleanupWorkspaceTempDirs when the pod was there,
\* after it when it was gone.  Its errors are ignored, the file may stay.
CleanupPodFiles(p) ==
    /\ \/ At(p, "rmfiles") /\ Goto(p, "rmdirs")
       \/ At(p, "gonefiles") /\ Goto(p, "drop")
    /\ \/ /\ files' = [files EXCEPT ![call[p].id] = NoName]
          /\ littered' = littered
       \/ /\ files' = files
          /\ littered' = littered \cup {Name(p)}
    /\ UNCHANGED <<pod, dirs, conf, known, applied, raced, broken>>

\* Mutant: a directory is forgotten.
CleanupTempDirs_keepsCredentials(p) ==
    /\ \/ At(p, "gonedirs") /\ Goto(p, "gonefiles")
       \/ At(p, "rmdirs") /\ Goto(p, "drop")
    /\ dirs' = dirs \ ({"approval-handler", "certs"} \X {Name(p)})
    /\ conf' = [conf EXCEPT ![Name(p)] = NoConf]
    /\ UNCHANGED <<pod, files, known, history>>

\* Errors are ignored here, too: a directory that stays may have lost config.json.
CleanupTempDirs(p) ==
    /\ \/ At(p, "gonedirs") /\ Goto(p, "gonefiles")
       \/ At(p, "rmdirs") /\ Goto(p, "drop")
    /\ \E left \in SUBSET {d \in dirs : d[2] = Name(p)} :
          /\ dirs' = {d \in dirs : d[2] # Name(p)} \cup left
          /\ littered' = IF left = {} THEN littered ELSE littered \cup {Name(p)}
          /\ \/ conf' = [conf EXCEPT ![Name(p)] = NoConf]
             \/ conf' = conf /\ <<"approval-handler", Name(p)>> \in left
    /\ UNCHANGED <<pod, files, known, applied, raced, broken>>

\* The manager saves the list without the workspace of this container.
RemoveEnd(p) ==
    /\ At(p, "drop")
    /\ known' = [known EXCEPT ![Name(p)] = IF @ = call[p].id THEN NoId ELSE @]
    /\ Return(p)
    /\ UNCHANGED <<pod, dirs, conf, files, history>>

\* A podman command or the save fails; the pod may be gone all the same.
RemoveFails(p) ==
    /\ call[p].at \in {"check", "rm", "drop"}
    /\ Return(p)
    /\ \/ pod' = pod
       \/ At(p, "rm") /\ pod' = [pod EXCEPT ![Name(p)] = NoPod]
    /\ UNCHANGED <<dirs, conf, files, known, history>>

-----------------------------------------------------------------------------
(* The environment.                                                        *)

\* The process dies, and its deferred functions do not run.
Die(p) ==
    /\ ~At(p, "idle")
    /\ Return(p)
    /\ broken' = broken \cup {Name(p)}
    /\ UNCHANGED <<pod, dirs, conf, files, known, applied, raced, littered>>

\* The machine restarts while kdn does nothing: no container runs any more.
Reboot ==
    /\ \A p \in Procs : At(p, "idle")
    /\ pod' = [n \in Names |->
                  IF Exists(n) THEN Halted(pod[n], Containers) ELSE NoPod]
    /\ applied' = [n \in Names |-> NoPlan]
    /\ UNCHANGED <<dirs, conf, files, known, call, raced, broken, littered>>

Create(p) ==
    \/ \E n \in Names : CreateBegin(p, n)
    \/ Prepare(p) \/ Play(p) \/ Detect(p) \/ Services(p) \/ Provision(p)
    \/ Halt(p) \/ Certs(p) \/ CreateContainer(p) \/ WritePodFiles(p)
    \/ CreateEnd(p) \/ CreateFailsEarly(p) \/ CreateFails(p) \/ Undo(p)
    \/ CreateUnsaved(p)

Start(p) ==
    \/ \E n \in Names : StartBegin(p, n)
    \/ ReadPodName(p) \/ StartPostgres(p) \/ StartOnecli(p) \/ ReadPolicy(p)
    \/ StartGuard(p) \/ ClearRules(p) \/ CreateRule(p) \/ WriteConfig(p)
    \/ SetFirewall(p) \/ StartHandler(p) \/ ClearFirewall(p) \/ StartPod(p)
    \/ StartEnd(p) \/ StartFails(p)

Stop(p) ==
    \/ \E n \in Names : StopBegin(p, n)
    \/ Inspect(p) \/ StopContainer(p) \/ StopFails(p)

Remove(p) ==
    \/ \E n \in Names : RemoveBegin(p, n)
    \/ Check(p) \/ RemovePod(p) \/ CleanupPodFiles(p) \/ CleanupTempDirs(p)
    \/ RemoveEnd(p) \/ RemoveFails(p)

Next ==
    \/ \E p \in Procs : Create(p) \/ Start(p) \/ Stop(p) \/ Remove(p) \/ Die(p)
    \/ Reboot

Spec == Init /\ [][Next]_vars

\* A call that has begun goes on.
CallStep(p) == ~At(p, "idle") /\ (Create(p) \/ Start(p) \/ Stop(p) \/ Remove(p))

FairSpec == Spec /\ \A p \in Procs : WF_vars(CallStep(p))

-----------------------------------------------------------------------------
(* Correctness.                                                            *)

\* Every variable holds a value of its kind.
TypeOK ==
    /\ pod \in [Names -> Pods \cup {NoPod}]
    /\ dirs \subseteq TempDirs
    /\ conf \in [Names -> HostLists]
    /\ files \in [Ids -> Names \cup {NoName}]
    /\ known \in [Names -> Ids \cup {NoId}]
    /\ call \in [Procs -> [at : Labels, name : Names \cup {NoName},
                           id : Ids \cup {NoId}, cred : BOOLEAN,
                           plan : Plans \cup {NoPlan}, fresh : BOOLEAN,
                           todo : Seq(Containers)]]
    /\ applied \in [Names -> Plans \cup {NoPlan}]
    /\ raced \subseteq Names
    /\ broken \subseteq Names
    /\ littered \subseteq Names

\* What plan asks for is what pod x enforces: both rules and the hosts in deny
\* mode, no rule at all otherwise.  A handler that ran before keeps its hosts.
Enforces(x, plan) ==
    IF plan.mode = "deny"
    THEN /\ x.nft
         /\ x.rule
         /\ "handler" \in x.up
         /\ plan.fresh => x.handler = plan.hosts
    ELSE ~x.nft /\ ~x.rule

\* After a Start that succeeded, the workspace runs under the policy that
\* this Start read, whatever was left by earlier starts in another mode,
\* failed or not (start.go:37-42, "any stale rules from a previous deny-mode
\* start are cleared"); unless calls on the workspace overlapped.
PolicyInForce ==
    \A n \in Names \ raced :
        applied[n] # NoPlan =>
            Exists(n) /\ "workspace" \in pod[n].up /\ Enforces(pod[n], applied[n])

\* The agent never runs ahead of its policy: in deny mode the workspace
\* container comes up only when the rules and the handler are in place
\* (start.go:75-76), also in a Start that fails later.
AgentUnderPolicy ==
    [][\A n \in Names \ raced' :
           (~Up(n, "workspace") /\ Up(n, "workspace")') =>
               \E p \in Procs : /\ call[p].name = n
                                /\ call[p].plan # NoPlan
                                /\ call[p].plan.mode = "deny" =>
                                       Enforces(pod'[n], call[p].plan)]_vars

\* A pod that no call works on is one the manager has on record and can stop
\* and remove: a Create that fails after kube play takes its pod down
\* (create.go:560-567), and a Remove that fails half way can be repeated.  Not
\* for a name of which a process died, kube play or the cleanup failed, or the
\* save of the record.
NoOrphanPods ==
    \A n \in Names \ broken :
        Exists(n) /\ ~Busy(n) =>
            known[n] # NoId /\ pod[n].ctr = known[n] /\ files[known[n]] = n

\* Remove never takes a workspace down that runs (remove.go:55-60), unless
\* it is started by another call at the same time.
RemovesStopped ==
    [][\A n \in Names \ raced' :
           Up(n, "workspace") => Exists(n)']_vars

\* When Remove succeeds, the pod is gone, and so are all files of the workspace,
\* those of a Create of that name that failed before included, unless a file
\* could not be removed, which Remove does not report (remove.go:94).
RemoveLeavesNothing ==
    [][\A n \in Names \ (raced' \cup broken') :
           (known[n] # NoId /\ known'[n] = NoId) =>
               /\ ~Exists(n)'
               /\ n \notin littered' =>
                     files'[known[n]] = NoName /\ \A d \in dirs' : d[2] # n]_vars

\* The claim of start.go:92-93, "edits take effect without recreating the
\* workspace": after a Start in deny mode the handler has the hosts it read.
EditsTakeEffect ==
    \A n \in Names \ (raced \cup broken) :
        (applied[n] # NoPlan /\ applied[n].mode = "deny") =>
            pod[n].handler = applied[n].hosts

\* The claim of start.go:90-91, "Deny is the default", and of README.md:2045:
\* the firewall is up after a Start unless the mode is allow.
DenyIsDefault ==
    \A n \in Names \ (raced \cup broken) :
        (applied[n] # NoPlan /\ applied[n].mode # "allow") => pod[n].nft

\* At least one of the two claims of start.go:90-93 holds throughout: a history
\* that violates this refutes both.
StartAsCommented == []EditsTakeEffect \/ []DenyIsDefault
=============================================================================
