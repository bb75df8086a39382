------------------------------ MODULE Autoconf ------------------------------
(***************************************************************************)
(* kdn autoconf (pkg/cmd/autoconf.go, pkg/autoconf, and the updaters and   *)
(* loaders of pkg/config): the command detects secrets, a Vertex AI setup, *)
(* dot files, languages and ports on the host, and records what is missing *)
(* in the secret store and in the configuration files, one item at a time. *)
(*                                                                         *)
(* The secret store is SecretStore: this module adds one process, Runner,  *)
(* whose store operations are calls of that module.  An updater reads a    *)
(* configuration file, adds an item, and writes the file with os.WriteFile *)
(* which truncates it first; a run may fail or die at any of these steps   *)
(* and be started again.  Meanwhile other processes run secret commands.   *)
(*                                                                         *)
(* Abstractions.  What is found on the host does not change between runs.  *)
(* An item is known by its name, the validation of a file succeeds, and a  *)
(* file that does not exist is one without items.                          *)
(***************************************************************************)
EXTENDS SecretStore, Sequences, SequencesExt

CONSTANTS
    Runner,     \* the process that runs kdn autoconf
    Env,        \* Env[n]: the value of secret n in the environment
    Secrets,    \* the secrets found, in the order of their services
    Vertex,     \* what a Vertex AI setup consists of; empty: none is found
    HomeFiles,  \* the dot files found
    Features,   \* the features of the languages found
    Ports,      \* the ports found
    Foreign,    \* the secrets that other processes create
    MaxRuns     \* bound on the runs of kdn autoconf

\* The environment variables, in the order they are written, and the mount.
VertexItems == <<"use", "project", "region", "adc">>

Items == Range(Secrets) \cup Range(Vertex) \cup Range(HomeFiles)
            \cup Range(Features) \cup Ports

Targets == {"global", "project", "agent", "local"}

\* projects.json has the entries of all projects, the global one included.
FileOf(t) == CASE t \in {"global", "project"} -> "projects"
               [] t = "agent"                 -> "agents"
               [] t = "local"                 -> "workspace"

Files == {"projects", "agents", "workspace"}

Stages == {"off", "filter", "secrets", "vertex", "homes", "features", "ports"}

Steps == {"next", "get", "create", "target", "read", "truncate", "write"}

ASSUME AutoconfAssumption ==
    /\ Runner \in Procs
    /\ Secrets \in Seq(Names)
    /\ Env \in [Range(Secrets) -> Values]
    /\ Vertex \in Seq(Range(VertexItems))
    /\ HomeFiles \in Seq(Range(HomeFiles))
    /\ Features \in Seq(Range(Features))
    /\ IsFiniteSet(Ports)
    /\ Foreign \subseteq Record
    /\ MaxRuns \in Nat

\* An item of one kind is not one of another kind.
ASSUME ItemsAssumption ==
    Range(HomeFiles) \cap (Range(Secrets) \cup Range(Vertex) \cup Range(Features) \cup Ports) = {}

VARIABLES
    conf,      \* conf[t]: what target t recorded when its file was last whole
    size,      \* size[f]: whether file f is whole, a part of it, or empty
    stage,     \* what the command is working on
    step,      \* its next step there
    queue,     \* the items of this stage that are left
    needs,     \* the secrets that need action
    yes,       \* the flag --yes
    target,    \* where the item is recorded
    loaded,    \* the contents the updater read
    runs,      \* how often autoconf may still run
    disturbed  \* another process used the store since the last run began

autoVars == <<conf, size, stage, step, queue, needs, yes, target, loaded, runs,
              disturbed>>

allVars == <<vars, autoVars>>

AutoconfTypeOK ==
    /\ TypeOK
    /\ conf \in [Targets -> SUBSET Items]
    /\ size \in [Files -> {"whole", "part", "empty"}]
    /\ stage \in Stages
    /\ step \in Steps
    /\ queue \in Seq(Items)
    /\ needs \in Seq(Range(Secrets))
    /\ yes \in BOOLEAN
    /\ target \in Targets
    /\ loaded \in [Targets -> SUBSET Items]
    /\ runs \in Nat
    /\ disturbed \in BOOLEAN

Nothing == [t \in Targets |-> {}]

AutoconfInit ==
    /\ Init
    /\ conf = Nothing
    /\ size = [f \in Files |-> "whole"]
    /\ stage = "off"
    /\ step = "next"
    /\ queue = <<>>
    /\ needs = <<>>
    /\ yes = FALSE
    /\ target = "global"
    /\ loaded = Nothing
    /\ runs = MaxRuns
    /\ disturbed = FALSE

-----------------------------------------------------------------------------
(* Reading the configuration.                                              *)

Whole(t) == size[FileOf(t)] = "whole"

\* What a loader finds at t, when its caller ignores the errors of the loader.
Seen(t) == IF Whole(t) THEN conf[t] ELSE {}

Referenced(n) == \E t \in {"global", "project", "local"} : n \in conf[t]

\* Mutant: a dot file that only the local configuration mounts is not seen.
Known_notLocal(x) ==
    CASE stage = "homes"    -> x \in Seen("global") \cup Seen("project")
      [] stage = "features" -> x \in Seen("local")
      [] OTHER              -> FALSE

\* An item that was already recorded when its turn comes.
Known(x) ==
    CASE stage = "homes"    -> x \in Seen("global") \cup Seen("project") \cup Seen("local")
      [] stage = "features" -> x \in Seen("local")
      [] OTHER              -> FALSE

-----------------------------------------------------------------------------
(* A run begins and ends.                                                  *)

\* Mutant: the filter does not look at the local configuration.
Readable_projects == size["projects"] = "whole"

\* The filter needs the global, the project and the local configuration.
Readable == \A t \in {"global", "project", "local"} : Whole(t)

RunBegin ==
    /\ stage = "off"
    /\ runs > 0
    /\ Readable
    /\ runs' = runs - 1
    /\ yes' \in BOOLEAN
    /\ stage' = "filter"
    /\ step' = "next"
    /\ queue' = Secrets
    /\ needs' = <<>>
    /\ disturbed' = \E p \in Procs : pc[p] # "idle"
    /\ UNCHANGED <<vars, conf, size, target, loaded>>

\* The command returns an error, or the process dies.
RunEnds ==
    /\ stage' = "off"
    /\ step' = "next"
    /\ queue' = <<>>
    /\ needs' = <<>>
    /\ yes' = FALSE
    /\ target' = "global"
    /\ loaded' = Nothing
    /\ UNCHANGED <<conf, runs, disturbed>>

\* The item at the head of the queue is done.  Those of "vertex" and "ports"
\* are recorded one after another without further questions.
NextItem ==
    /\ queue' = Tail(queue)
    /\ step' = IF stage \in {"vertex", "ports"} THEN "read" ELSE "next"

-----------------------------------------------------------------------------
(* The filter, and the creation of secrets.                                *)

\* The store is asked about the secret at the head of the queue.
Ask(label) ==
    /\ Call(Runner, "get", [name |-> Head(queue), for |-> AnyValue])
    /\ step' = label
    /\ UNCHANGED <<conf, size, stage, queue, needs, yes, target, loaded, runs, disturbed>>

Answered == pc[Runner] = "idle" /\ result[Runner] # "none"

FilterGet ==
    /\ stage = "filter"
    /\ step = "next"
    /\ queue # <<>>
    /\ Ask("get")

\* Mutant: a secret that is in the store needs no action.
FilterDone_stored ==
    /\ stage = "filter"
    /\ step = "get"
    /\ Answered
    /\ IF result[Runner] = "error"
       THEN RunEnds
       ELSE /\ needs' = IF result[Runner] = "ok" THEN needs ELSE Append(needs, Head(queue))
            /\ NextItem
            /\ UNCHANGED <<conf, stage, yes, target, loaded, runs, disturbed>>
    /\ UNCHANGED <<vars, size>>

\* Stored and referenced secrets need no action.
FilterDone ==
    /\ stage = "filter"
    /\ step = "get"
    /\ Answered
    /\ IF result[Runner] = "error"
       THEN RunEnds
       ELSE /\ needs' = IF result[Runner] = "ok" /\ Referenced(Head(queue))
                        THEN needs
                        ELSE Append(needs, Head(queue))
            /\ NextItem
            /\ UNCHANGED <<conf, stage, yes, target, loaded, runs, disturbed>>
    /\ UNCHANGED <<vars, size>>

\* The user confirmed: a secret that is in the store is not created again.
SecretGet ==
    /\ stage = "secrets"
    /\ step = "next"
    /\ queue # <<>>
    /\ Ask("get")

SecretFound ==
    /\ stage = "secrets"
    /\ step = "get"
    /\ Answered
    /\ result[Runner] # "notfound"
    /\ IF result[Runner] = "ok"
       THEN /\ step' = "target"
            /\ UNCHANGED <<conf, stage, queue, needs, yes, target, loaded, runs, disturbed>>
       ELSE RunEnds
    /\ UNCHANGED <<vars, size>>

SecretCreate ==
    /\ stage = "secrets"
    /\ step = "get"
    /\ Answered
    /\ result[Runner] = "notfound"
    /\ Call(Runner, "create", [name |-> Head(queue), for |-> Env[Head(queue)]])
    /\ step' = "create"
    /\ UNCHANGED <<conf, size, stage, queue, needs, yes, target, loaded, runs, disturbed>>

SecretCreated ==
    /\ step = "create"
    /\ Answered
    /\ IF result[Runner] = "ok"
       THEN /\ step' = "target"
            /\ UNCHANGED <<conf, stage, queue, needs, yes, target, loaded, runs, disturbed>>
       ELSE RunEnds
    /\ UNCHANGED <<vars, size>>

-----------------------------------------------------------------------------
(* The questions.                                                          *)

\* The item is already recorded, or the user declines it.
Skip ==
    /\ queue # <<>>
    /\ \/ step = "next" /\ stage \in {"homes", "features"} /\ Known(Head(queue))
       \/ step = "next" /\ stage \in {"secrets", "homes", "features"} /\ ~yes
       \/ step = "target" /\ ~yes
    /\ NextItem
    /\ UNCHANGED <<vars, conf, size, stage, needs, yes, target, loaded, runs, disturbed>>

Confirm ==
    /\ step = "next"
    /\ queue # <<>>
    /\ stage \in {"homes", "features"}
    /\ ~Known(Head(queue))
    /\ step' = IF stage = "homes" THEN "target" ELSE "read"
    /\ UNCHANGED <<vars, conf, size, stage, queue, needs, yes, target, loaded, runs, disturbed>>

\* --yes stands for the global configuration.
SelectTarget ==
    /\ step = "target"
    /\ target' \in IF yes THEN {"global"} ELSE {"global", "project", "local"}
    /\ step' = "read"
    /\ UNCHANGED <<vars, conf, size, stage, queue, needs, yes, loaded, runs, disturbed>>

-----------------------------------------------------------------------------
(* Adding the item at the head of the queue to the target.                 *)

\* An environment variable is set again, other items are added only once.
Added(x) == x \in conf[target] /\ x \notin {"use", "project", "region"}

\* What each updater can read: an empty projects.json or agents.json does not
\* parse, but an empty workspace.json is one without items.
ReadsProjects == target \in {"global", "project"} /\ size["projects"] = "whole"

ReadsAgents == target = "agent" /\ size["agents"] = "whole"

ReadsWorkspace == target = "local" /\ size["workspace"] # "part"

CanRead == ReadsProjects \/ ReadsAgents \/ ReadsWorkspace

AddRead ==
    /\ step = "read"
    /\ queue # <<>>
    /\ CanRead
    /\ IF Whole(target) /\ Added(Head(queue))
       THEN NextItem /\ UNCHANGED loaded
       ELSE /\ step' = "truncate"
            /\ loaded' = [t \in Targets |-> Seen(t)]
            /\ UNCHANGED queue
    /\ UNCHANGED <<vars, conf, size, stage, needs, yes, target, runs, disturbed>>

AddTruncate ==
    /\ step = "truncate"
    /\ size' = [size EXCEPT ![FileOf(target)] = "empty"]
    /\ step' = "write"
    /\ UNCHANGED <<vars, conf, stage, queue, needs, yes, target, loaded, runs, disturbed>>

AddWrite ==
    /\ step = "write"
    /\ size' = [size EXCEPT ![FileOf(target)] = "whole"]
    /\ conf' = [t \in Targets |->
                   IF FileOf(t) # FileOf(target) THEN conf[t]
                   ELSE IF t = target THEN loaded[t] \cup {Head(queue)} ELSE loaded[t]]
    /\ loaded' = Nothing
    /\ NextItem
    /\ UNCHANGED <<vars, stage, needs, yes, target, runs, disturbed>>

-----------------------------------------------------------------------------
(* From one stage to the next.                                             *)

ToSecrets ==
    /\ stage = "filter"
    /\ stage' = "secrets"
    /\ step' = "next"
    /\ queue' = needs
    /\ needs' = <<>>

\* The setup counts as configured where its first variable is.
VertexKnown == "use" \in Seen("agent") \cup Seen("local")

ToVertex ==
    /\ stage = "secrets"
    /\ stage' = "vertex"
    /\ step' = "read"
    /\ \/ /\ Vertex = <<>> \/ VertexKnown \/ ~yes
          /\ queue' = <<>>
          /\ target' = "global"
       \/ /\ Vertex # <<>>
          /\ ~VertexKnown
          /\ queue' = Vertex
          /\ target' \in IF yes THEN {"agent"} ELSE {"agent", "local"}

ToHomes ==
    /\ stage = "vertex"
    /\ stage' = "homes"
    /\ step' = "next"
    /\ queue' = HomeFiles
    /\ target' = "global"

\* Features and ports are recorded in the local configuration only.
ToFeatures ==
    /\ stage = "homes"
    /\ stage' = "features"
    /\ step' = "next"
    /\ queue' = Features
    /\ target' = "local"

\* Every port once; the code has them in ascending order.
NewPorts == SetToSeq(Ports \ Seen("local"))

\* One question for all ports.
ToPorts ==
    /\ stage = "features"
    /\ stage' = "ports"
    /\ step' = "read"
    /\ target' = "local"
    /\ \/ queue' = NewPorts
       \/ queue' = <<>> /\ ~yes

Advance ==
    /\ queue = <<>>
    /\ step \in {"next", "read"}
    /\ \/ ToSecrets /\ UNCHANGED target
       \/ UNCHANGED needs /\ (ToVertex \/ ToHomes \/ ToFeatures \/ ToPorts)
    /\ UNCHANGED <<vars, conf, size, yes, loaded, runs, disturbed>>

\* The command returns without an error.
Complete ==
    /\ stage = "ports"
    /\ queue = <<>>
    /\ RunEnds
    /\ UNCHANGED <<vars, size>>

-----------------------------------------------------------------------------
(* Failures.                                                               *)

\* What becomes of the file when the write is cut off.
Torn ==
    IF step = "write" THEN \E s \in {"empty", "part"} : size' = [size EXCEPT ![FileOf(target)] = s]
                      ELSE UNCHANGED size

\* An updater cannot read, parse, create or write its file.
AddFails ==
    /\ step \in {"read", "truncate", "write"}
    /\ queue # <<>>
    /\ "io" \in Faults \/ (step = "read" /\ ~CanRead)
    /\ Torn
    /\ RunEnds
    /\ UNCHANGED vars

\* The process dies, in the store or outside.
Die ==
    /\ "crash" \in Faults
    /\ stage # "off"
    /\ IF pc[Runner] = "idle" THEN UNCHANGED vars
                              ELSE Crash(Runner) /\ UNCHANGED raced
    /\ Torn
    /\ RunEnds

-----------------------------------------------------------------------------
(* The secret commands of other processes, and the store.                  *)

\* A Get of theirs changes nothing and is left out.
Others ==
    /\ \E p \in Procs \ {Runner} :
          \/ \E r \in Foreign : Call(p, "create", r)
          \/ \E n \in Names : Call(p, "remove", [name |-> n, for |-> AnyValue])
    /\ disturbed' = TRUE
    /\ UNCHANGED <<conf, size, stage, step, queue, needs, yes, target, loaded, runs>>

StoreStep ==
    /\ \/ \E p \in Procs : Step(p) /\ UNCHANGED raced
       \/ \E p \in Procs \ {Runner} : Crash(p) /\ UNCHANGED raced
    /\ UNCHANGED autoVars

Idle ==
    /\ stage = "off"
    /\ runs = 0 \/ ~Readable
    /\ \A p \in Procs : pc[p] = "idle"
    /\ UNCHANGED allVars

RunStep ==
    \/ RunBegin
    \/ FilterGet
    \/ FilterDone
    \/ SecretGet
    \/ SecretFound
    \/ SecretCreate
    \/ SecretCreated
    \/ Skip
    \/ Confirm
    \/ SelectTarget
    \/ AddRead
    \/ AddTruncate
    \/ AddWrite
    \/ Advance
    \/ Complete
    \/ AddFails
    \/ Die

AutoconfNext ==
    \/ RunStep
    \/ Others
    \/ StoreStep
    \/ Idle

AutoconfSpec == AutoconfInit /\ [][AutoconfNext]_allVars

-----------------------------------------------------------------------------
(* Correctness.                                                            *)

\* A run with --yes is about to return without an error.
Successful == stage = "ports" /\ queue = <<>> /\ yes

\* A secret that the store gives out: a torn file has none.
Stored(n) == ~torn /\ n \in NamesIn(secrets) /\ keychain[n] # NoValue

\* Whatever earlier runs did and wherever they failed, a run with --yes that
\* returns without an error leaves every dot file, feature and port recorded,
\* and every secret it found stored and referenced, unless another process used
\* the store meanwhile (README.md:702).
RunConfigures ==
    Successful =>
        /\ ~disturbed => \A n \in Range(Secrets) : Stored(n) /\ Referenced(n)
        /\ \A x \in Range(HomeFiles) : \E t \in Targets : x \in conf[t]
        /\ Range(Features) \cup Ports \subseteq conf["local"]

\* The same for the Vertex AI setup: the variables and the credentials mount
\* are in the claude agent configuration or in the local one
\* (autoconfclaudevertex.go:78-81, "adds env vars and an ADC file mount").
VertexConfigured ==
    Successful =>
        Range(Vertex) \subseteq conf["agent"] \/ Range(Vertex) \subseteq conf["local"]

\* A configuration file that is whole has all it ever recorded: one that a dying
\* run left empty is not taken for one without items and written anew.  (What a
\* torn file held is in conf still; only a user who repairs it can know it.)
NothingForgotten == [][\A t \in Targets : conf[t] \subseteq conf'[t]]_allVars

\* However the user answers in several runs, a dot file is mounted from one
\* configuration only: the merged one has no two mounts with one target.
MountedOnce ==
    \A x \in Range(HomeFiles) : \A s, t \in Targets :
        x \in conf[s] /\ x \in conf[t] => s = t
=============================================================================
