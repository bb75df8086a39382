------------------------------ MODULE OpenShell ------------------------------
(***************************************************************************)
(* The OpenShell runtime (pkg/runtime/openshell), as the kdn commands      *)
(* init, start, stop and remove use it.  All workspaces share one gateway, *)
(* a background process that any command may start, find running or        *)
(* replace, and that keeps the sandboxes of each driver in a database of   *)
(* its own.  kdn cannot stop a sandbox: a file, state overrides, says      *)
(* which ones count as stopped, and port forwards are processes beside the *)
(* gateway.  Commands run as processes of their own, any step may fail or  *)
(* be the last, and nothing but the gateway itself orders two commands.    *)
(*                                                                         *)
(* Abstractions.  Policies, providers, uploads and the data kept for each  *)
(* sandbox are one step that may fail.  A gateway that cannot listen on    *)
(* the port, since another one does, ends, and one that is told to end     *)
(* does, in the time kdn waits.  Process ids are not reused.               *)
(***************************************************************************)
EXTENDS Naturals, Sequences, FiniteSets

CONSTANTS
    Procs,      \* kdn processes
    Names,      \* workspaces; the name of a sandbox is made from this name
    Drivers,    \* drivers of the gateway
    Default,    \* the one used when none is configured
    Pids,       \* process ids of gateways
    Ports,      \* ports of the host
    PortsOf,    \* PortsOf[n]: the ports workspace n forwards, in order
    NoGateway,  \* no gateway
    NoName, NoDriver, NoPid,
    Faults,     \* what may go wrong: see FaultKinds
    MaxCalls,   \* bound on the commands
    MaxKinds    \* bound on the kinds of faults that happen in one history

(***************************************************************************)
(* race: two commands overlap.  step: a step of a method fails.  death: a  *)
(* kdn process dies.  list: the gateway does not answer a list in time.    *)
(* record: a new gateway cannot be recorded.  data: the data of a sandbox  *)
(* cannot be read.  gateway: the gateway dies.  forward: a port forward    *)
(* ends by itself.  reboot: the machine restarts.                          *)
(***************************************************************************)
FaultKinds == {"race", "step", "death", "list", "record", "data",
               "gateway", "forward", "reboot"}

\* late: a gateway came up that no command waited for any more.
\* torn: the file with the overrides was not written after it was truncated.
Mishaps == FaultKinds \cup {"late", "torn"}

Methods == {"create", "start", "stop", "remove"}

Labels == {"idle", "ensure", "active", "kill", "spawn", "await", "config",
           "sandbox", "upload", "verify", "free", "forward", "unforward",
           "load", "truncate", "write", "save", "info", "delete"}

Gateways == [driver : Drivers, pid : Pids]

ASSUME OpenShellAssumption ==
    /\ Default \in Drivers
    /\ PortsOf \in [Names -> Seq(Ports)]
    /\ Faults \subseteq FaultKinds
    /\ {MaxCalls, MaxKinds} \subseteq Nat
    /\ NoGateway \notin Gateways
    /\ NoName \notin Names
    /\ NoDriver \notin Drivers
    /\ NoPid \notin Pids

VARIABLES
    gateway,   \* the gateway that listens
    spawned,   \* gateways that were started and do not listen yet
    recorded,  \* gateway-state.json
    config,    \* the driver in config.json
    boxes,     \* boxes[d]: the sandboxes in the database of driver d
    stopped,   \* the sandboxes with a stopped override
    torn,      \* the file with the overrides does not parse
    forwards,  \* the port forwards that run: pairs of a port and a sandbox
    known,     \* known[n]: the state of n that the manager has stored
    call,      \* call[p]: what p is doing, and its local variables
    budget,    \* how many commands may still be run
    mishaps    \* the kinds of faults that happened, and other events of note

vars == <<gateway, spawned, recorded, config, boxes, stopped, torn, forwards,
          known, call, budget, mishaps>>

\* ready: the binaries were found, before which there is no executor.
NoCall == [at |-> "idle", todo |-> << >>, name |-> NoName, driver |-> NoDriver,
           asked |-> FALSE, ready |-> FALSE, pid |-> NoPid, ports |-> << >>,
           view |-> {}]

Init ==
    /\ gateway = NoGateway
    /\ spawned = {}
    /\ recorded = NoGateway
    /\ config = Default
    /\ boxes = [d \in Drivers |-> {}]
    /\ stopped = {}
    /\ torn = FALSE
    /\ forwards = {}
    /\ known = [n \in Names |-> "none"]
    /\ call = [p \in Procs |-> NoCall]
    /\ budget = MaxCalls
    /\ mishaps = {}

-----------------------------------------------------------------------------
(* Helpers.                                                                *)

At(p, label) == call[p].at = label

Name(p) == call[p].name

Method(p) == Head(call[p].todo)

Goto(p, label) == call' = [call EXCEPT ![p].at = label]

Return(p) == call' = [call EXCEPT ![p] = NoCall]

Busy(n) == \E p \in Procs : Name(p) = n

Entry(method) ==
    CASE method \in {"create", "start"} -> "ensure"
      [] method = "stop"                -> "unforward"
      [] method = "remove"              -> "info"

\* The method is done; the command goes on with its next one.
Done(p) ==
    LET rest == Tail(call[p].todo)
    IN  IF rest = << >>
        THEN Return(p)
        ELSE call' = [call EXCEPT ![p].todo = rest, ![p].at = Entry(Head(rest))]

Happened(kind) == mishaps' = mishaps \cup {kind}

WithinBound == Cardinality(mishaps' \ {"late", "torn"}) <= MaxKinds

\* A fault of this kind happens, within the bound.
Fault(kind) ==
    /\ kind \in Faults
    /\ Happened(kind)
    /\ WithinBound

\* openshell sandbox list gives an answer, or no answer within its time.
Listed(answers) ==
    IF answers \/ gateway = NoGateway
    THEN (answers => gateway # NoGateway) /\ UNCHANGED mishaps
    ELSE Fault("list")

\* The running gateway has a sandbox for workspace n.
InReach(n) == gateway # NoGateway /\ n \in boxes[gateway.driver]

PidsOf(gateways) == {g.pid : g \in gateways \ {NoGateway}}

Taken(port) == \E f \in forwards : f[1] = port

gatewayVars == <<gateway, spawned, recorded, config>>

sandboxVars == <<boxes, forwards>>

overrideVars == <<stopped, torn>>

-----------------------------------------------------------------------------
(* The commands.  The driver of a process is the configured one, unless    *)
(* init was given another.  To bound the model, no command follows two     *)
(* that overlap.                                                           *)

Command(p, n, todo) ==
    /\ At(p, "idle")
    /\ "race" \notin mishaps
    /\ budget > 0
    /\ budget' = budget - 1
    /\ call' = [call EXCEPT ![p] = [NoCall EXCEPT !.at = Entry(Head(todo)),
                   !.name = n, !.todo = todo, !.driver = config]]
    /\ IF \E q \in Procs : ~At(q, "idle") THEN Fault("race") ELSE UNCHANGED mishaps
    /\ UNCHANGED <<gatewayVars, sandboxVars, overrideVars, known>>

\* kdn init, with --openshell-driver and --start or without.
CommandInit(p, n) ==
    /\ At(p, "idle")
    /\ "race" \notin mishaps
    /\ budget > 0
    /\ budget' = budget - 1
    /\ known[n] = "none"
    /\ \E todo \in {<<"create">>, <<"create", "start">>}, d \in Drivers \cup {NoDriver} :
          call' = [call EXCEPT ![p] = [NoCall EXCEPT !.at = "ensure",
                      !.name = n, !.todo = todo, !.asked = (d # NoDriver),
                      !.driver = IF d = NoDriver THEN config ELSE d]]
    /\ IF \E q \in Procs : ~At(q, "idle") THEN Fault("race") ELSE UNCHANGED mishaps
    /\ UNCHANGED <<gatewayVars, sandboxVars, overrideVars, known>>

CommandStart(p, n) == known[n] # "none" /\ Command(p, n, <<"start">>)

CommandStop(p, n) == known[n] # "none" /\ Command(p, n, <<"stop">>)

\* kdn remove refuses a workspace stored as running; with --force it stops it.
CommandRemove(p, n) ==
    /\ known[n] # "none"
    /\ Command(p, n, IF known[n] = "running" THEN <<"stop", "remove">> ELSE <<"remove">>)

-----------------------------------------------------------------------------
(* ensureGatewayRunning.                                                   *)

AfterEnsure(p) ==
    IF Method(p) = "start" THEN "verify"
    ELSE IF call[p].asked THEN "config" ELSE "sandbox"

\* A gateway that is ready is used, unless it was recorded with another driver.
Ensure(p) ==
    /\ At(p, "ensure")
    /\ \E ready \in BOOLEAN :
          /\ Listed(ready)
          /\ LET other == recorded # NoGateway /\ recorded.driver # call[p].driver
             IN  call' = [call EXCEPT ![p].ready = TRUE,
                             ![p].at = IF ~ready THEN "spawn"
                                       ELSE IF other THEN "active"
                                       ELSE AfterEnsure(p)]
    /\ UNCHANGED <<gatewayVars, sandboxVars, overrideVars, known>>

\* Mutant: no sandbox is seen as one of kdn.
HasActive_never(p) ==
    /\ At(p, "active")
    /\ Goto(p, "kill")
    /\ UNCHANGED <<gatewayVars, sandboxVars, overrideVars, known, mishaps>>

\* The driver is not switched while there are sandboxes.  No answer to the
\* list counts as no sandboxes.
HasActive(p) ==
    /\ At(p, "active")
    /\ \E answers \in BOOLEAN :
          /\ Listed(answers)
          /\ IF answers /\ boxes[gateway.driver] # {} THEN Return(p) ELSE Goto(p, "kill")
    /\ UNCHANGED <<gatewayVars, sandboxVars, overrideVars, known>>

\* Mutant: the files of the gateway are removed, the gateway is not stopped.
StopGateway_filesOnly(p) ==
    /\ At(p, "kill")
    /\ recorded' = NoGateway
    /\ Goto(p, "spawn")
    /\ UNCHANGED <<gateway, spawned, config, sandboxVars, overrideVars, known, mishaps>>

\* The recorded process is terminated, if it is still there.
StopGateway(p) ==
    /\ At(p, "kill")
    /\ gateway' = IF gateway = recorded THEN NoGateway ELSE gateway
    /\ spawned' = spawned \ {recorded}
    /\ recorded' = NoGateway
    /\ Goto(p, "spawn")
    /\ UNCHANGED <<config, sandboxVars, overrideVars, known, mishaps>>

\* What p may start: a process of its own, with the driver of p.
NewGateways(p) ==
    {g \in Gateways : /\ g.driver = call[p].driver
                      /\ g.pid \notin PidsOf(spawned \cup {gateway, recorded})
                      /\ \A q \in Procs : call[q].pid # g.pid}

\* A gateway is started and recorded.  When it cannot be, the file stays or is
\* left empty, and the command goes on.
Spawn(p) ==
    /\ At(p, "spawn")
    /\ \E g \in NewGateways(p) :
          /\ spawned' = spawned \cup {g}
          /\ \/ recorded' = g /\ UNCHANGED mishaps
             \/ recorded' \in {recorded, NoGateway} /\ Fault("record")
          /\ call' = [call EXCEPT ![p].at = "await", ![p].pid = g.pid]
    /\ UNCHANGED <<gateway, config, sandboxVars, overrideVars, known>>

\* The process that p started has not ended.
Alive(p) == call[p].pid \in PidsOf(spawned \cup {gateway})

\* Whichever gateway answers; an end of the own one is an error.
Await(p) ==
    /\ At(p, "await")
    /\ IF Alive(p)
       THEN /\ gateway # NoGateway
            /\ call' = [call EXCEPT ![p].at = AfterEnsure(p), ![p].pid = NoPid]
       ELSE Return(p)
    /\ UNCHANGED <<gatewayVars, sandboxVars, overrideVars, known, mishaps>>

-----------------------------------------------------------------------------
(* Create.                                                                 *)

SaveConfig(p) ==
    /\ At(p, "config")
    /\ config' = call[p].driver
    /\ Goto(p, "sandbox")
    /\ UNCHANGED <<gateway, spawned, recorded, sandboxVars, overrideVars, known, mishaps>>

\* A sandbox that exists already is an error.
CreateSandbox(p) ==
    /\ At(p, "sandbox")
    /\ gateway # NoGateway
    /\ ~InReach(Name(p))
    /\ boxes' = [boxes EXCEPT ![gateway.driver] = @ \cup {Name(p)}]
    /\ Goto(p, "upload")
    /\ UNCHANGED <<gatewayVars, forwards, overrideVars, known, mishaps>>

\* Sources, credentials, settings, variables, data and policy.
Upload(p) ==
    /\ At(p, "upload")
    /\ InReach(Name(p))
    /\ Goto(p, "load")
    /\ UNCHANGED <<gatewayVars, sandboxVars, overrideVars, known, mishaps>>

-----------------------------------------------------------------------------
(* Start.                                                                  *)

\* The sandbox is looked for.
NotFound(p) ==
    /\ \E answers \in BOOLEAN : Listed(answers) /\ ~(answers /\ InReach(Name(p)))
    /\ Return(p)

\* Its ports are those in its data; it starts without any if these cannot be
\* read.
Found(p) ==
    /\ InReach(Name(p))
    /\ \E ports \in {PortsOf[Name(p)], << >>} :
          /\ IF ports = PortsOf[Name(p)] THEN UNCHANGED mishaps ELSE Fault("data")
          /\ call' = [call EXCEPT ![p].at = "free", ![p].ports = ports]

Verify(p) ==
    /\ At(p, "verify")
    /\ Found(p) \/ NotFound(p)
    /\ UNCHANGED <<gatewayVars, sandboxVars, overrideVars, known>>

\* All ports have to be free before the first one is forwarded.
PortsFree(p) ==
    /\ At(p, "free")
    /\ IF \E i \in DOMAIN call[p].ports : Taken(call[p].ports[i])
       THEN Return(p)
       ELSE Goto(p, IF call[p].ports = << >> THEN "load" ELSE "forward")
    /\ UNCHANGED <<gatewayVars, sandboxVars, overrideVars, known, mishaps>>

\* Mutant: only the first port is forwarded.
Forward_first(p) ==
    /\ At(p, "forward")
    /\ InReach(Name(p))
    /\ ~Taken(Head(call[p].ports))
    /\ forwards' = forwards \cup {<<Head(call[p].ports), Name(p)>>}
    /\ call' = [call EXCEPT ![p].ports = << >>, ![p].at = "load"]
    /\ UNCHANGED <<gatewayVars, boxes, overrideVars, known, mishaps>>

Forward(p) ==
    /\ At(p, "forward")
    /\ InReach(Name(p))
    /\ ~Taken(Head(call[p].ports))
    /\ forwards' = forwards \cup {<<Head(call[p].ports), Name(p)>>}
    /\ LET rest == Tail(call[p].ports)
       IN  call' = [call EXCEPT ![p].ports = rest,
                                ![p].at = IF rest = << >> THEN "load" ELSE "forward"]
    /\ UNCHANGED <<gatewayVars, boxes, overrideVars, known, mishaps>>

-----------------------------------------------------------------------------
(* Stop.                                                                   *)

\* Nothing happens without an executor, which only the methods that look for
\* the binaries set; otherwise errors are ignored.
Unforward(p) ==
    /\ At(p, "unforward")
    /\ \E gone \in SUBSET {f \in forwards : f[2] = Name(p)} :
          forwards' = IF call[p].ready THEN forwards \ gone ELSE forwards
    /\ Goto(p, "load")
    /\ UNCHANGED <<gatewayVars, boxes, overrideVars, known, mishaps>>

-----------------------------------------------------------------------------
(* The state overrides: the file is read, truncated and written.           *)

\* Mutant: the overrides of other sandboxes are not kept.
LoadStates_alone(p) ==
    /\ At(p, "load")
    /\ call' = [call EXCEPT ![p].at = "truncate",
                   ![p].view = IF Method(p) \in {"create", "stop"} THEN {Name(p)} ELSE {}]
    /\ UNCHANGED <<gatewayVars, sandboxVars, overrideVars, known, mishaps>>

\* Create and Stop set the override, Start and Remove remove it.  A file that
\* does not parse is one without overrides.
LoadStates(p) ==
    /\ At(p, "load")
    /\ LET found == IF torn THEN {} ELSE stopped
       IN  call' = [call EXCEPT ![p].at = "truncate",
                       ![p].view = IF Method(p) \in {"create", "stop"}
                                   THEN found \cup {Name(p)}
                                   ELSE found \ {Name(p)}]
    /\ UNCHANGED <<gatewayVars, sandboxVars, overrideVars, known, mishaps>>

TruncateStates(p) ==
    /\ At(p, "truncate")
    /\ torn' = TRUE
    /\ Goto(p, "write")
    /\ UNCHANGED <<gatewayVars, sandboxVars, stopped, known, mishaps>>

\* Two writes that overlap may leave the end of the longer one in the file.
WriteStates(p) ==
    /\ At(p, "write")
    /\ stopped' = call[p].view
    /\ torn' \in {FALSE} \cup ({TRUE} \cap {"race" \in mishaps})
    /\ call' = [call EXCEPT ![p].at = "save", ![p].view = {}]
    /\ UNCHANGED <<gatewayVars, sandboxVars, known, mishaps>>

-----------------------------------------------------------------------------
(* Info, the record that the manager saves, and Remove.                    *)

Overridden(n) == ~torn /\ n \in stopped

StateOf(n, answers) ==
    IF Overridden(n) THEN "stopped"
    ELSE IF answers /\ InReach(n) THEN "running" ELSE "error"

\* A record that was removed meanwhile is not stored again.
Record(p, state) ==
    known' = [known EXCEPT ![Name(p)] =
                 IF @ = "none" /\ Method(p) # "create" THEN @ ELSE state]

\* The manager saves what the method returned, and after a Stop what Info says.
Save(p) ==
    /\ At(p, "save")
    /\ \/ Method(p) = "create" /\ Record(p, "stopped") /\ UNCHANGED mishaps
       \/ Method(p) = "start"  /\ Record(p, "running") /\ UNCHANGED mishaps
       \/ Method(p) = "remove" /\ Record(p, "none")    /\ UNCHANGED mishaps
       \/ /\ Method(p) = "stop"
          /\ \E answers \in BOOLEAN :
                /\ IF Overridden(Name(p)) THEN UNCHANGED mishaps ELSE Listed(answers)
                /\ Record(p, StateOf(Name(p), answers))
    /\ Done(p)
    /\ UNCHANGED <<gatewayVars, sandboxVars, overrideVars>>

\* Mutant: the state is not looked at.
CheckStopped_anyState(p) ==
    /\ At(p, "info")
    /\ call' = [call EXCEPT ![p].ready = TRUE, ![p].at = "delete"]
    /\ UNCHANGED <<gatewayVars, sandboxVars, overrideVars, known, mishaps>>

\* Remove refuses a sandbox that is running, and only that.
CheckStopped(p) ==
    /\ At(p, "info")
    /\ \E answers \in BOOLEAN :
          /\ IF Overridden(Name(p)) THEN UNCHANGED mishaps ELSE Listed(answers)
          /\ IF StateOf(Name(p), answers) = "running"
             THEN Return(p)
             ELSE call' = [call EXCEPT ![p].ready = TRUE, ![p].at = "delete"]
    /\ UNCHANGED <<gatewayVars, sandboxVars, overrideVars, known>>

DeleteSandbox(p) ==
    /\ At(p, "delete")
    /\ InReach(Name(p))
    /\ boxes' = [boxes EXCEPT ![gateway.driver] = @ \ {Name(p)}]
    /\ Goto(p, "load")
    /\ UNCHANGED <<gatewayVars, forwards, overrideVars, known, mishaps>>

-----------------------------------------------------------------------------
(* Failures.                                                               *)

\* A step cannot be done, because of the state of things or by a fault.  A
\* sandbox may be there although its creation failed, and an error of the
\* overrides is ignored by Remove.
StepFails(p) ==
    /\ ~At(p, "idle")
    /\ "step" \in Faults \/ (call[p].at \in {"sandbox", "upload", "forward", "delete"})
    /\ IF Method(p) = "remove" /\ call[p].at \in {"load", "truncate", "write"}
       THEN Goto(p, "save")
       ELSE Return(p)
    /\ \/ UNCHANGED boxes
       \/ /\ At(p, "sandbox")
          /\ gateway # NoGateway
          /\ boxes' = [boxes EXCEPT ![gateway.driver] = @ \cup {Name(p)}]
    /\ IF At(p, "write") THEN Happened("torn") ELSE UNCHANGED mishaps
    /\ UNCHANGED <<gatewayVars, forwards, overrideVars, known>>

\* A gateway that was started may not have been recorded.
Die(p) ==
    /\ ~At(p, "idle")
    /\ Return(p)
    /\ \/ UNCHANGED spawned
       \/ /\ At(p, "spawn")
          /\ \E g \in NewGateways(p) : spawned' = spawned \cup {g}
    /\ mishaps' = mishaps \cup {"death"} \cup {k \in {"torn"} : At(p, "write")}
    /\ "death" \in Faults
    /\ WithinBound
    /\ UNCHANGED <<gateway, recorded, config, sandboxVars, overrideVars, known>>

-----------------------------------------------------------------------------
(* Gateways, forwards and the machine.                                     *)

\* A gateway listens, unless another one does, which ends it.
GatewayStarts ==
    /\ \E g \in spawned :
          /\ spawned' = spawned \ {g}
          /\ gateway' = IF gateway = NoGateway THEN g ELSE gateway
          /\ IF gateway = NoGateway /\ \A p \in Procs : call[p].pid # g.pid
             THEN Happened("late")
             ELSE UNCHANGED mishaps
    /\ UNCHANGED <<recorded, config, sandboxVars, overrideVars, known, call>>

GatewayDies ==
    /\ \/ gateway # NoGateway /\ gateway' = NoGateway /\ spawned' = spawned
       \/ gateway' = gateway /\ \E g \in spawned : spawned' = spawned \ {g}
    /\ Fault("gateway")
    /\ UNCHANGED <<recorded, config, sandboxVars, overrideVars, known, call>>

ForwardEnds ==
    /\ \E f \in forwards : forwards' = forwards \ {f}
    /\ Fault("forward")
    /\ UNCHANGED <<gatewayVars, boxes, overrideVars, known, call>>

\* The machine restarts while kdn does nothing.
Reboot ==
    /\ \A p \in Procs : At(p, "idle")
    /\ gateway' = NoGateway
    /\ spawned' = {}
    /\ forwards' = {}
    /\ Fault("reboot")
    /\ UNCHANGED <<recorded, config, boxes, overrideVars, known, call>>

\* No command follows.
Finished ==
    /\ "race" \in mishaps \/ budget = 0
    /\ \A p \in Procs : At(p, "idle")
    /\ UNCHANGED vars

Step(p) ==
    \/ Ensure(p) \/ HasActive(p) \/ StopGateway(p) \/ Spawn(p) \/ Await(p)
    \/ SaveConfig(p) \/ CreateSandbox(p) \/ Upload(p)
    \/ Verify(p) \/ PortsFree(p) \/ Forward(p) \/ Unforward(p)
    \/ LoadStates(p) \/ TruncateStates(p) \/ WriteStates(p)
    \/ Save(p) \/ CheckStopped(p) \/ DeleteSandbox(p) \/ StepFails(p)

Next ==
    \/ \E p \in Procs, n \in Names :
          CommandInit(p, n) \/ CommandStart(p, n) \/ CommandStop(p, n) \/ CommandRemove(p, n)
    \/ /\ UNCHANGED budget
       /\ \/ \E p \in Procs : Step(p) \/ Die(p)
          \/ GatewayStarts
          \/ GatewayDies
          \/ ForwardEnds
          \/ Reboot
    \/ Finished

Spec == Init /\ [][Next]_vars

-----------------------------------------------------------------------------
(* Correctness.                                                            *)

\* None of these has happened so far.
Without(kinds) == mishaps \cap kinds = {}

\* Every variable holds a value of its kind.
TypeOK ==
    /\ gateway \in Gateways \cup {NoGateway}
    /\ spawned \subseteq Gateways
    /\ recorded \in Gateways \cup {NoGateway}
    /\ config \in Drivers
    /\ boxes \in [Drivers -> SUBSET Names]
    /\ stopped \subseteq Names
    /\ torn \in BOOLEAN
    /\ forwards \subseteq Ports \X Names
    /\ known \in [Names -> {"none", "stopped", "running", "error"}]
    /\ call \in [Procs -> [at : Labels, todo : Seq(Methods), name : Names \cup {NoName},
                           driver : Drivers \cup {NoDriver}, asked : BOOLEAN,
                           ready : BOOLEAN, pid : Pids \cup {NoPid},
                           ports : Seq(Ports), view : SUBSET Names]]
    /\ budget \in Nat
    /\ mishaps \subseteq Mishaps

\* The driver on record, by which a switch is decided, is the one of the
\* gateway that runs (gateway.go:131), whatever steps failed and processes
\* died, gateways included; unless two commands overlapped, a gateway did not
\* answer or could not be recorded (gateway.go:197 goes on), or a command gave
\* up on one that started all the same.
RecordedDriver ==
    Without({"race", "list", "record", "late"}) =>
        (gateway # NoGateway /\ recorded # NoGateway => recorded.driver = gateway.driver)

\* No switch of the driver hides a sandbox: the gateway that runs knows all of
\* them, those left by commands that failed included (gateway.go:132-139);
\* unless commands overlapped, or a gateway gave no answer or died, by itself
\* or with the machine.
NoHiddenSandboxes ==
    Without({"race", "list", "gateway", "reboot"}) =>
        \A d \in Drivers :
            boxes[d] # {} /\ gateway # NoGateway => d = gateway.driver

\* A sandbox is deleted only when it counts as stopped (remove.go:41,
\* "required before removal"), if the gateway ran and answered every list.
RemovesStopped ==
    [][Without({"race", "list", "gateway", "reboot", "torn"})' =>
          \A d \in Drivers : boxes[d] \ boxes'[d] \subseteq stopped]_vars

\* A workspace that counts as stopped does so until it is started or removed,
\* whatever becomes of the overrides of others.
StoppedStays ==
    [][Without({"race", "torn"})' =>
          \A n \in stopped \ stopped' :
              \E p \in Procs : Name(p) = n /\ Method(p) \in {"start", "remove"}]_vars

\* A workspace stored as running has all its ports forwarded, since Start
\* fails before it clears the override when a port cannot be (start.go:52-66);
\* unless the data of a sandbox could not be read, which Start ignores.
RunningIsForwarded ==
    Without({"race", "forward", "reboot", "data"}) =>
        \A n \in Names : known[n] = "running" /\ ~Busy(n) =>
            \A i \in DOMAIN PortsOf[n] : <<PortsOf[n][i], n>> \in forwards

\* A workspace that was stopped has no port forwarded (stop.go:38, "Stop port
\* forwards").
StoppedIsQuiet ==
    \A n \in Names : known[n] = "stopped" /\ ~Busy(n) =>
        \A f \in forwards : f[2] # n
=============================================================================
