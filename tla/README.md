# kdn in TLA+

kdn runs AI coding agents in sandboxed *workspaces*. It has no daemon: each `kdn`
command is a process of its own, and everything that outlives it is in files
under one storage directory, in the system keychain, in a container runtime
(podman) or in a gateway (OpenShell). Any number of commands may run at once,
each can die between two steps, and each talks to programs that fail. The code
is sequential Go that a unit test covers well; what a test hardly reaches is two
commands in an unlucky order, a step that fails half way, and the command that
comes *after* such a failure. That is what these modules are about.

Line numbers below refer to `src/`; a path without a directory is in
`src/pkg/instances/` or in the directory the section is about.

## 1. The system

### Components

| Component | Where | State it keeps | Operations |
|---|---|---|---|
| Instance manager | `pkg/instances/manager.go`, `instance.go` | the registry `instances.json`; an `RWMutex` per process | `Add`, `Start`, `Stop`, `Terminal`, `Delete`, `Reconcile`, `migrateTimestamps`; reads `List`, `Get` |
| Storage file and locks | `pkg/instances/savefile_*.go`, `filelock_*.go` | the bytes of `instances.json`, temporary files, `flock` on `instances.json.lock` | load, lock, reload, save |
| Runtime contract | `pkg/runtime/*.go` | none | `Create`, `Start`, `Stop`, `Remove`, `Info` |
| Podman runtime | `pkg/runtime/podman` | pods, firewall rules, OneCLI rules, `config.json` of the approval-handler, `pods/<id>`, certificates, credentials | the same five |
| OpenShell runtime | `pkg/runtime/openshell` | the gateway process, `gateway-state.json`, `config.json`, state overrides, sandboxes, port forwards | the same five |
| Fake runtime | `pkg/runtime/fake` | instances in memory | the same five |
| Secret store | `pkg/secret` | `secrets.json`, values in the keychain | `Create`, `List`, `Get`, `Remove` |
| Autoconf | `pkg/autoconf`, `pkg/cmd/autoconf.go` | none of its own; writes secrets and configuration files | detect, filter, apply |
| Configuration files | `pkg/config` | `projects.json`, `agents.json`, `workspace.json` | load, validate, merge, add an item |
| OneCLI client | `pkg/onecli` | secrets and rules in the OneCLI service of a pod | map, create or update, connect an app |
| Secret services | `pkg/secretservice` | none; a table | hosts, header and variables of a type of secret |
| Credential detectors | `pkg/credential` | none; they read the user's files | detect, fake, configure, hosts |
| Devcontainer features | `pkg/devcontainers` | a directory with downloaded features | select, download, order, merge options |
| Agents | `pkg/agent` | none; they edit settings documents | onboarding, model, MCP servers, skills |
| Creation of a workspace | `pkg/cmd/init.go`, `Add` in `manager.go`, `create.go` of both runtimes | what the container or the sandbox is created with | the steps of `kdn init` |
| Project detection | `pkg/project`, `pkg/git` | none | pure functions |
| Command line | `cmd`, `pkg/cmd` | none | the sequences of calls behind each command |
| Support | `pkg/logger`, `pkg/steplogger`, `pkg/system`, … | none | |

### How they interact

    kdn command --> instance manager --> storage file (load, lock, reload, save)
                         |
                         +--> runtime (podman | openshell | fake) --> podman / gateway
                         +--> configuration files, secrets, agents (read, in Add)
    runtime Create ------+--> features, credentials, OneCLI or OpenShell providers
    kdn secret   --> secret store --> keychain, secrets.json
    kdn autoconf --> autoconf --> secret store, configuration files

A manager method has one shape throughout: take the `RWMutex`, load the list
*without* the file lock, call the runtime, then enter `withStorageLock`
(`manager.go:1033-1051`), which locks the file, reloads the list, changes it and
saves it. The `RWMutex` orders the threads of one process across the runtime
call; between processes only the last part is ordered.

### What is hard, and what has to hold

- **Manager.** Everything decided before the file lock may be stale when it is
  used. No registration may be lost or undone, ids must identify, the stored
  state should follow the runtime, locks must not deadlock around the runtime
  calls that `Terminal` makes.
- **Storage file.** Readers take no lock; a save is several system calls. A load
  must return a list that was stored, and a save must keep all of them.
- **Podman.** A start is some fifteen steps across podman, nftables, OneCLI and
  files. The agent must never run ahead of its network policy, a leftover of an
  earlier start in another mode must not survive, a create that fails must not
  leave a pod nobody knows.
- **OpenShell.** Workspaces share one gateway and one record of it. The driver
  must not be switched away from sandboxes that exist; "stopped" is only a line
  in a file; port forwards live on their own.
- **Secrets.** Two stores, no lock. A value must not be overwritten, detached
  from its metadata, or left where no command finds it.
- **Autoconf.** A run that fails half way is followed by another one, which has
  to do what is missing and nothing else.
- **Creation.** One command reads four levels of configuration, the secret store,
  settings, credentials and features, one after the other and some of them twice,
  and makes one workspace of them. What the levels say must survive three pairwise
  merges and three edits of the agent's documents; the real secret must be where
  the placeholder is exchanged and nowhere else; and the files may have changed
  between two reads.

`PROJECT.json` lists these hazards one by one, each at its line with the
properties that guard it.

## 2. The modules

| Module | Models | Checked by |
|---|---|---|
| `InstanceManager` | the manager's methods, locks and the runtime contract | `MCInstanceManager`: 2 runs |
| `InstanceRegistry` | what the manager promises: an atomic registry | refined by `InstanceManager` |
| `InstanceManagerProofs` | six theorems about `InstanceManager` | TLAPS |
| `InstanceManagerPairing` | six more, about ids and the registry and the runtimes | TLAPS |
| `StorageFile` | the system calls under "load" and "save" | `MCStorageFile`: 1 run |
| `StorageFileProofs` | four theorems about `StorageFile` | TLAPS |
| `SecretStore` | `pkg/secret` | `MCSecretStore`: 1 run, and the runs of `Autoconf` |
| `SecretStoreProofs` | six theorems about `SecretStore` | TLAPS |
| `Autoconf` | `kdn autoconf`; extends `SecretStore` by a process | `MCAutoconf`: 2 runs |
| `AutoconfProofs` | six theorems about `Autoconf` | TLAPS |
| `PodmanWorkspace` | the Podman runtime step by step | `MCPodmanWorkspace`: 2 runs |
| `PodmanWorkspaceProofs` | six theorems about `PodmanWorkspace` | TLAPS |
| `OpenShell` | the OpenShell runtime and the commands that drive it | `MCOpenShell`: 2 runs |
| `OpenShellProofs` | six theorems about `OpenShell` | TLAPS |
| `ConfigMerge` | loaders, validation and merger of `pkg/config` | as part of `Creation` |
| `AgentSettings` | the five agents of `pkg/agent` | as part of `Creation` |
| `OneCLI` | mapper and provisioner of `pkg/onecli`, the table of `pkg/secretservice` | as part of `Creation` |
| `Credentials` | the gcloud and kubeconfig credentials | as part of `Creation` |
| `Features` | `pkg/devcontainers/features` | as part of `Creation` |
| `WorkspaceAdd` | `kdn init` and the manager's `Add` up to `Create` | as part of `Creation` |
| `PodmanCreate` | what the Podman runtime creates | as part of `Creation` |
| `SandboxCreate` | what the OpenShell runtime creates | as part of `Creation` |
| `Creation` | the three above composed, and the properties | `MCCreation`: 2 runs |
| `CreationProofs` | twenty-one theorems about the merge and `Creation` | TLAPS |

The `MC` modules only declare model values and the functions and scenarios given
to constants. Who extends whom: `Autoconf` extends `SecretStore`; `Creation`
extends `PodmanCreate` and `SandboxCreate`, both of which extend `WorkspaceAdd`, and
that `AgentSettings`, `Credentials` (over `OneCLI` and `ConfigMerge`) and `Features`;
`InstanceManager` has `InstanceRegistry` as an instance.

### InstanceManager

`file` is the content of `instances.json` as a set of records (id, name, runtime,
runtime id, state, whether `CreatedAt` and `StartedAt` are set); `pods` are the
runtime instances; `issued` the ids generated so far; `flock` the holders of the
file lock; `mode[t]` how a thread holds the `RWMutex` of its manager; `pc`,
`kind`, `rec`, `cur` are the local state of a method: its next step, which method
it is, the record it found (later the one it will store) and the list reloaded
under the lock. `ProcOf` says which threads share a process and so an `RWMutex`.
A runtime call may fail with no effect; what else may go wrong is a constant, `Faults`:
a Create that leaves an instance behind (`leftover`), as OpenShell's does when a step after
`sandbox create` fails (`openshell/create.go:92-150`), another runtime call that fails
after its effect (`partial`), a generator that returns an id again (`collision`),
failing saves, crashes, and changes behind kdn's back.

| Action | Code |
|---|---|
| `NewManager`, `SaveMigrate` | `newManagerWithFactory`, `migrateTimestamps` |
| `AddBegin`, `AddCreate`, `SaveAdd` | `Add`: unlocked load, id and name; `rt.Create`; append under the lock |
| `StartBegin`, `StartRuntime`, `SaveUpdate` | `Start`: load; `rt.Start`; replace by id under the lock |
| `StopBegin`, `StopRuntime`, `StopInfo`, `SaveUpdate` | `Stop`: load; `rt.Stop`; `rt.Info`; replace |
| `DeleteBegin`, `DeleteRuntime`, `DeleteLock`, `SaveDelete` | `Delete`: read lock; `rt.Remove`; write lock; filter |
| `Terminal…`, `SaveAutoStart` | `Terminal`: check, start if stopped, session under the read lock |
| `ReconcileBegin`, `SaveReconcile` | `Reconcile` |
| `Acquire`, `Reload`, `SaveFails` | `withStorageLock`, `loadInstances`, `saveInstances` |
| `Crash`, `External` | a process dies; somebody uses podman directly |

`InstanceRegistry` has the same registry without locks or steps: reserve an id,
register it or give up, update state and start time, unregister, fill in creation
times. The refinement maps `registry` to `file`, `pending` to the ids of the
Adds in progress and `used` to `issued`.

### StorageFile

Opens the two steps of `InstanceManager` that it takes as atomic. Files are
inodes, since a file stays readable after a rename replaced it: `path` is the
inode `instances.json` names, `disk` what each inode holds (nothing, a part, or
all of a list), `temps` the temporary names, `holder` the lock. A load is `Stat`,
`Open`, `Read`, `Rest`; a save is `CreateTemp`, `Write`, `Close`, `Rename` on
POSIX and `Truncate`, `Write`, `Close` on Windows.

### SecretStore and Autoconf

`secrets` is what the file held when it was last whole, `torn` says it does not
parse now, `keychain` maps names to values; `stored` is what commands reported as
created and nobody removed since. `Create` and `Remove` load the list,
change the keychain, then truncate and write. The metadata of a secret is known by
the value it is meant for, which makes "metadata and value belong together" a
property of the model.

`Autoconf` adds one process, `Runner`, that goes through the stages of the
command (filter and apply secrets, the Vertex AI setup, dot files, features,
ports) item by item; `conf[t]` is what each of the four targets (global, project,
agent, local) recorded, `size[f]` whether a file is whole, cut off or empty. Its
store operations *are* actions of `SecretStore`, and the commands of the other processes
may fall between any two of its steps; `disturbed` says that one did during this run. The filter that decides what is
missing and the updater that writes are separate, as in the code, because their
disagreement is where things go wrong.

### ConfigMerge to Creation

What `kdn init` does is mostly computation, and the modules say it as operators
named after the functions of the code. `ConfigMerge` has the configuration as a
record of lists, `validate`, the loaders of the levels and `Merge`; each loop of the
merger is a fold over a list, whose step (`SetByName`, `AppendNew`, `SetMount`) is an operator.
`AgentSettings` flattens a settings document to a function from field paths to values,
so that "this edit leaves the others' fields alone" can be said. `OneCLI` has the
mapping of a secret and the store of a pod's OneCLI as a function from names to
what it injects: a creation that conflicts becomes an update. `Credentials` reads
`files` anew in each of its four operations, as the code does. `Features` describes a
feature by what its registry or directory answers, then downloads, unpacks, sorts
and merges options.

`WorkspaceAdd`, `PodmanCreate` and `SandboxCreate` are the state machines that call
these operators, one action per file read, command or request. `pc` is the place in
the command. `AddFails`, `PodmanFails` and `SandboxFails` end it where a step's
conditions do not hold or a command fails, with the
cleanup of the code: the sandbox stays; the pod is taken down, unless that fails, which the code
ignores, or `kube play` made it and failed, which no cleanup follows.

| Variable | Meaning |
|---|---|
| `world` | what is outside of the command: the configuration files, the secret store, settings, credentials, images, providers |
| `edits` | changes of `world` by others that are still to come; `EditWorld` (external) applies the next one between any two steps |
| `req` | the arguments: project, agent, model, runtime, `--dump`, driver |
| `levels`, `cfg` | the configurations loaded, in ascending precedence, and their merge |
| `used` | the secrets read and mapped |
| `given`, `settings` | the agent's settings as found and as edited |
| `active` | the credentials that are intercepted |
| `image`, `onecli`, `container`, `podUp` | what the Podman runtime made |
| `listed`, `attached`, `sandbox` | what the OpenShell runtime saw and made |

| Action | Code |
|---|---|
| the actions of `WorkspaceAdd` | `init.go` (registration of the runtimes, the workspace's own file, `--dump`), `Add` in `manager.go:196-460` (merge, `TransformConfig`, secrets, onboarding, model, MCP servers, skills) |
| the actions of `PodmanCreate` | `create.go` of Podman: download and order of features, image, pod, detection and faking of credentials, OneCLI secrets and apps, arguments of the container |
| the actions of `SandboxCreate` | `create.go`, `providers.go`, `network.go` of OpenShell: credentials, providers, sandbox, uploads, environment, policy |

### PodmanWorkspace

`pod[n]` has the containers that run, whether the firewall and the OneCLI rule are
set, and the hosts the approval-handler holds, which are those it read when *it*
started; `conf[n]` is the file it reads; `dirs` and `files` are what kdn keeps per
workspace, `known` the container id the manager has. Each method is its sequence
of podman commands, requests and file operations, to the manager's save of the record (`save`)
or of the list without it (`drop`), and each step can fail, or be
the last of its process. Errors the code ignores are steps that succeed with less: `Undo` may
leave the pod, `CleanupPodFiles` and `CleanupTempDirs` any of the files. `applied[n]` is the plan of the last start that
succeeded and was not followed by another call; it and the sets `raced`,
`broken` and `littered`, which collect the names on which calls overlapped, on which one died
or could not undo or save what it did, and of which a file could not be removed, exist for
the properties only. One step of `Start` starts at most what the code starts with
one podman command, so a restart or a stop may fall between any two.

### OpenShell

`gateway` is the process that listens, `spawned` those that were started and do not
listen yet, `recorded` is `gateway-state.json`, `config` is `config.json`, `boxes[d]`
the database of each driver, `stopped` and `torn` the override file, `forwards`
the port forwards, `known` what the manager stored. The commands `init`, `start`,
`stop` and `remove` call one or two methods in one process, which matters for
what the process has initialised (`call[p].ready`). A gateway that cannot be recorded and
sandbox data that cannot be read are ignored by the code: `Spawn` and `Found` go on with the
old record and without ports. `mishaps` collects the kinds
of faults that happened; a property says under which of them it makes a claim.

## 3. The runs

### Runs that pass

| Run | Instance | What it shows |
|---|---|---|
| `manager_registry` | 3 threads in 2 processes, one call each; a record from before timestamps; crashes, failing saves, runtime calls that fail after their effect (Creates included), pods changed from outside | The lock protects what is saved (`SnapshotIsCurrent`), ids stay unique, no registration is lost or resurrected, and the manager implements `InstanceRegistry`. |
| `manager_one_process` | 2 threads of one process, two calls each, two runtimes; runtime calls that fail, of which a Create may leave an instance behind; weak fairness | Within a process the mutex, held across the runtime call, keeps names unique, stored states and start times in step with the runtime; no instance that kdn knows becomes one it does not know, and no record loses its instance; and every call returns, unless a terminal session of the process stays open. |
| `storage` | 2 processes, 2 ids, 4 inodes; POSIX with crashes and errors, Windows without | A load without a lock returns a list that was stored while it ran (POSIX), no registered instance is lost, only a dead process leaves a temporary file. |
| `autoconf` | 2 runs beside another process that uses the store, 2 names; every step may fail or be the last | A `--yes` run that succeeds has configured all it found, whatever earlier runs left; nothing recorded is forgotten; no dot file is mounted by two files. In the store names are unique whatever overlaps, here the runner and the other process; as long as no two commands overlapped, values match their metadata, are not overwritten and are gone when the secret is, and a file that parses lists every secret that was created and not removed. |
| `podman` | 2 processes on one workspace; 2 container ids; every step may fail or be the last; restarts; two stop orders | The agent runs only under the policy its start read, at every moment of every start; failed creates whose undo works leave no unknown pod; only what is stopped is removed, and completely but for the errors that the code ignores. |
| `openshell` | 2 processes, 2 workspaces (one with two ports), 2 drivers, three commands; one kind of fault per history | Unless the mishaps the property names happened: the recorded driver is the one that runs, no switch hides sandboxes, a workspace stored as running has its ports, only a stopped one is deleted and it stays stopped. |
| `creation` | 427 scenarios (request, files and stores, changes by others), on both runtimes | The merged configuration is valid, has of every variable, MCP name and feature what the highest level says and loses nothing; three edits set the agent up and leave the user's settings alone; features come after those they follow; secrets, credentials, environment and network policy of the container or sandbox are complete. |

The scenarios of `creation` are: each of the 256 combinations of four different
contents of the four levels, which `--dump` shows; 17 configurations, files and
arguments that are refused; six agents (one unknown) with seven kinds of model on both
runtimes; 14 sets of features (cycles, two versions of one feature, archives that
leave their directory, registries that refuse, options of each type); one workspace that
uses everything, without changes and with each of seven lists of changes by others, applied
between any two steps, on podman and, for two agents, on OpenShell; ten settings files that have another value where kdn needs an object, or an object
where it sets a value; and 22 corner cases of credentials, providers and variables.
Every command of `PodmanCreate` and `SandboxCreate` may also fail.

**Bounds.** Two processes are enough for the interleavings these properties speak
of: a thread of a third one only adds another writer in the same critical
section, and the theorems of section 5 hold for any number. `manager_registry`
has one call per thread so that each combination of three methods runs, from a
registry that is not empty; `manager_one_process` has four calls in two threads, which is
what add, start, stop and delete of one workspace need, beside the old record that can be
started, stopped or deleted at once. Two ids besides the old
record let an Add and a Delete concern different records. Names are bounded by
`MaxSuffix`, which exceeds the workspaces that can exist. `manager_one_process` has
two runtimes, since a runtime refuses a second instance of a name by itself, and only the
manager keeps a name unique across runtimes. In `autoconf` the
other process runs one command, on the secret that autoconf finds or on another one
(`Foreign`), at any point of either run, and the four Vertex AI items are the first and
the last (`ShortVertex`). In `podman` nothing
bounds the number of calls: a workspace can be created, started, stopped and
removed for ever. Only the overlap is bounded: once two calls overlapped on
a name no further call on it follows, in the run as in the theorems, since most properties claim nothing from then on. Two stop orders (agent first, agent last) cover the cases a
property can tell apart. In `openshell` three commands (such as init, init with
another driver, remove) are enough for each property to be broken by a fault in the
code; four commands were checked as well, which takes minutes. In `creation` the inputs
are chosen, not enumerated: the three contents of a level besides none disagree in each
field (a variable that is a value in one and a secret in another, an MCP name that is a
command in one and a server in another, lists in different orders), so that 4^4
combinations decide the merge; the other scenarios were chosen by going through the
branches of the code, and each mutant in `PROJECT.json` falls to one of them. Constants in the
configurations that reduce histories are `MaxOps`, `MaxRuns`, `MaxCalls`,
`MaxKinds` and `MaxSuffix`; each appears only in a guard.

**Deadlock** is checked in all runs but the two of `Creation`, where the
command simply ends. Where calls are bounded, `Finished` is the
stutter of a history whose budget is used up, and it is enabled only when every
call has returned. Symmetry is used for processes, inodes and ids in runs without
liveness properties. The type invariants and `MutexExcludes` are not among the
properties of the runs: those of all modules but `Creation` are
proved (section 5), that of `Creation` tells the reader what the variables hold
(what the proofs need of it is in `Inv`).

**Fairness.** Only `manager_one_process` has a liveness property. (`FairSpec` of
`PodmanWorkspace`, under which `podman_edits` finds its counterexample, asks that a call that
has begun goes on: the violation does not come from a call that stops.) `FairSpec` of the manager asks weak fairness of `Proceed(t)`, each thread's next
step: Go runs a runnable goroutine, `flock` is granted when it is free, runtime
calls return. Nothing is assumed about users: a session may last for ever, and
nobody has to call anything. Weak fairness suffices because a finite number of
calls is made; a caller that retries for ever could starve a waiter, since neither
`flock` nor the model is first-come-first-served.

### Runs that show a disagreement

| Run | Claim | What happens |
|---|---|---|
| `secrets_lost` (`ListedAreKept`) | `secret.go:55-56`: Create persists the metadata of a secret | two commands load the same list; the later write drops what the earlier one added |
| `autoconf_vertex` (`VertexConfigured`) | `autoconfclaudevertex.go:78-81`: variables and mount are added | the setup is four writes and the first stands for all of it; a run that fails after it is never completed |
| `podman_edits` (`StartAsCommented`) | `start.go:92-93`: edits take effect with each start; `start.go:90-91` and `README.md:2045`: deny is the default, unless the mode is allow | a handler that still runs keeps the hosts it read, and the start succeeds; a start without a mode sets no rule (`start.go:127-130`) |
| `network_policy` (`MergeAsDocumented`) | `README.md:2567-2571`: the lower-precedence policy is dominant, "overrides cannot loosen the policy"; `README.md:2557-2558`: of equal mounts the "first occurrence wins" | `mergeNetwork` (`merger.go:452`) takes the mode of the override, so an agent's or a project's `allow` replaces the workspace's `deny`; `mergeMounts` (`merger.go:167`) puts the override's mount in the place of the base's |
| `openshell_forwards` (`StoppedIsQuiet`) | `stop.go:38`, `TestStop_StopsPortForwards`: stop ends the forwards | the executor is nil in a `kdn stop` process, so no forward is stopped, and the next start finds its port in use |

Two of these runs are about two claims each. Their property is the disjunction of both,
so that the one counterexample contradicts both.

### Limits found while modelling

These follow from the code and are written here rather than run.

- `NamesUnique`, `StateAgrees` and `StartTimeAgrees` do not hold between two
  processes: the name and the new state are computed before the file lock is taken. So is the
  id: that two processes choose different ones is left to the generator (`manager.go:257-272`).
- A Create of OpenShell that fails after `sandbox create`, or a process that dies before the
  save, leaves an instance that no workspace refers to. `NoOrphanPods` says that no other one
  gets lost, not that there is none.
- `NoDanglingRecords` does not hold for a runtime whose ids are made from names
  (OpenShell) when two deletes and an add of one name overlap.
- `SavesAreKept` does not hold on Windows when a process dies between truncation
  and write: the empty file is read as an empty list (`manager.go:1064-1066`) and
  the next save makes it final. `savefile_windows.go:24-26` considers writers only.
- A process that dies between the truncation and the write of `secrets.json` leaves a file
  that does not parse, and every later command fails: `ReadableIsComplete` excepts it (`torn`).
- `RunConfigures` claims nothing of the secrets of a run during which another process changed
  the store (`disturbed`): what the filter saw may be gone when the run ends.
- `NothingForgotten` is about one `kdn autoconf` at a time. Two of them, or one and
  an editor, read and write `projects.json` without a lock (`projectsupdater.go:66`).
- `NoOverwrite`, `ValueMatches` and `RemovedAreGone` need secret commands that do not overlap.
- `RecordedDriver`, `NoHiddenSandboxes` and `RemovesStopped` of OpenShell need a
  gateway that answers: no answer to a list counts as "no sandboxes" and as "not
  running". `RecordedDriver` also needs a record that can be written (`gateway.go:197`
  ignores when it cannot), and `RunningIsForwarded` sandbox data that can be read
  (`start.go:52-60`; `stop.go:39` reads it as well). An override file that does not parse counts as one without overrides.
- A Podman start, stop or remove that overlaps another one on the same workspace is
  not protected: no file lock is held while a runtime works.
- Podman's Remove succeeds when certificates, credentials or `pods/<id>` could not be deleted
  (`remove.go:94`, `podman.go:212`), and Create ignores when its own pod could not (`create.go:565`).
- Without a network mode OpenShell neither denies nor allows everything: it opens the hosts of
  all services (`network.go:153-178`), as in allow mode. `README.md:2045` calls deny the default.
  `PolicyComplete` is therefore about deny mode only.
- `stop.go:52` of the Podman runtime says that `podman pod stop` does nothing
  before the containers run, which is the state in which `create.go:776-778` uses it.
- `network.go:221` of the OpenShell runtime says that the policy is applied from
  both Create and Start; only `create.go:142` does. `loadNetworkConfig` (45-77) is never
  called. `configureNetworkPolicy` removes the rule `kdn-network`, but the
  endpoints it adds do not carry that name.
- OpenShell in allow mode opens the hosts of all services, but not those of
  secrets of the type "other"; in deny mode it opens those of the listed secrets.
- In an OpenShell sandbox the placeholder of a secret replaces a variable of the
  workspace with the same name; in a Podman container the workspace's value stays, and only
  OneCLI's own variables replace it. OpenShell leaves out variables with an empty or
  secret value, and every mount that is not a credential.
- An OpenShell provider that exists is attached as it is, with the value of the
  secret when it was made. Two secrets whose names give one provider name make the
  creation fail. `SecretsInjected` does not compare the value of a provider that was found.
- Two secrets may map to one OneCLI name (`s` for host `b`, and `s-b`): the second
  conflicts and replaces the first. `SecretsInjected` excludes what a later secret replaces.

- Option keys of a feature that differ only in spelling are applied in the order of a Go
  map: `FeaturesInOrder` allows either value.
- A mount of a credential that cannot be faked stays a mount of the real file; of
  several mounts of one credential only the first is intercepted, and podman gets
  both that one's placeholder and the others (what it makes of two mounts of one
  target is not modelled). A second spelling of a credential's path is not recognised at all.
- `claude` and `openclaw` panic on a settings file that holds `null`
  (`claude.go:68`): the command ends there, like one that fails.

## 4. How faults are modelled

A crash ends a call between any two of its steps and releases what the kernel
releases (locks, not files). A step that fails returns the error the way the code
does, with the code's own cleanup as steps that may fail too. The process memory
is lost with the process; files, keychain, pods and gateways stay. Unsynced data
lost in a power failure is not modelled. Where a fault makes a property
meaningless, the property names it (`raced`, `broken`, `Without(...)`) instead of
the run leaving it out, so that one run shows both the claim and its condition. An error
that the code ignores is such a fault too: the step goes on with what is there.

## 5. What is proved

### The manager

`InstanceManagerProofs` proves, for every number of processes, threads, ids, names
and runtimes and every combination of faults:

| Theorem | Statement |
|---|---|
| `TypeCorrect` | `Spec => []TypeOK` |
| `SnapshotCorrect` | `Spec => []SnapshotIsCurrent` |
| `MutexCorrect` | `Spec => []MutexExcludes` |

| `RegistrationsKept` | `Spec => NoLostRegistration` |
| `NothingResurrected` | `Spec => NoResurrection` |
| `ManagerImplementsRegistry` | `Spec => RegistrySpec`, if no id is generated twice (`FreshIds`) |

Assumptions: `ConstantsAssumption` (every thread has a process; bounds are
naturals), `LegacyAssumption` (the old records have distinct ids) and
`NoRecAssumption`. Nothing is assumed to be finite.

The argument is the inductive invariant `Inv == TypeInv /\ LockInv /\ IdInv`, where `IdInv` supposes
`FreshIds`: the code compares a new id only with the list it has loaded without the file lock, so that no other process
has a method in progress with it is up to the generator. `TypeCorrect`, `SnapshotCorrect` and `MutexCorrect` do without.

- `TypeInv` adds to `TypeOK` that a thread in the middle of a method on an instance
  has a record and that its label belongs to its method; without it the type of
  what a save stores is unknown.
- `LockInv` says that the threads at "reload" and "write" are exactly the holders
  of the file lock, that there is at most one, and that at "write" the list it
  reloaded is the file. `SnapshotIsCurrent` is its consequence; as it stands it
  would not be inductive, since it says nothing of a thread that is about to reload.
- `IdInv` carries the identity of records through the unlocked part of a method:
  stored ids were issued; the id of an Add in progress is issued, not stored, and no
  other thread's; the record that a Start or Stop is going to store has the id,
  name, runtime and creation time of the stored record with its id, *if there is
  one still*; and once a process has booted, every record has a creation time. The last
  clause is what makes a save of a stale record harmless: the migration
  that could have changed the record in between happened before any method began.

Each part has one lemma per kind of step (outside the lock, taking it, saving,
crashing), and the step theorem cites them action by action. The refinement
takes one more case split: every action either leaves `file`, `Pending` and
`issued` alone or is one action of `InstanceRegistry`; a crash of a process is
`Abandon` of the ids its threads had pending.

### The registry and the runtimes

`InstanceManagerPairing` proves how the registry and the instances of the runtimes
stay together, with `BaseInv`: the invariant above, `MutexExcludes`, and which threads
hold the `RWMutex` at which step (`ModeInv`). Each theorem names the conditions it
needs, as ASSUME; every other fault may happen.

| Theorem | Statement | Assumes |
|---|---|---|
| `IdsUnique` | `Spec => []UniqueIds` | one process, *or* no id is generated twice |
| `NamesAreUnique` | `Spec => []NamesUnique` | one process; the names of the old records are unique; no id is generated twice |
| `NoInstanceIsOrphaned` | `Spec => NoOrphanPods` | one process and unique old names, *or* no runtime that makes its ids from names; no crash, no save that fails, no `Reconcile`, no id generated twice |
| `NoRecordDangles` | `Spec => []NoDanglingRecords` | no runtime that makes its ids from names; no fault but runtime calls that fail without effect, and Creates that leave an instance |
| `StartTimesAgree` | `Spec => []StartTimeAgrees` | one process; nobody changes an instance behind kdn's back; no id is generated twice |
| `StatesAgree` | `Spec => []StateAgrees` | one process, faults as in `NoRecordDangles`; unique old names |

Beside that, each theorem about what is stored assumes what it claims of the old records. The conditions are those
of the code. Between two processes a name and a state are computed before the
file lock is taken. A crash or a save that fails between the runtime call and the
file separates the two for good, and `Reconcile` takes the records of workspaces whose
directories are gone out of the file, but not their instances out of the runtime. A runtime that makes its ids from names gives an
instance the id of an earlier one: two deletes and an add of that name, even in one process, let the second
delete take the new instance.

- `ChosenInv` is all that `IdsUnique` needs in one process: the id an Add has chosen is not
  stored, since the mutex is held from the load to the save. `NameInv` adds to `NamesUnique` that the name an Add has chosen stays free until it
  is stored, since the mutex is held from the load to the save.
- `PairInv` says that a record and its instance share an id, and that the id an Add
  is about to use has no instance yet; `DeleteInv` that the record a Delete read
  before it released the mutex is still that of its id, and no Add makes that id again.
- `GoneInv`: from the moment a Delete has removed an instance until it has removed the
  record, the record has no instance. This is what `NoInstanceIsOrphaned` rests on, and the
  one place where several processes and names as ids do not go together.
- `DangleInv` is its mirror: what an Add has created is there until it is stored.
- `SetInv`, `FoundInv` and `AgreeInv` follow a Start or a Stop from the runtime call
  to the save: the state it is going to store is the one its instance has, the workspace is
  still registered, and only the record of the thread at work may be behind.

### The storage file

`StorageFileProofs` proves, for every number of processes, ids and inodes:

| Theorem | Statement |
|---|---|
| `TypeCorrect` | `Spec => []TypeOK` |
| `LoadsReturnStored` | `Spec => []LoadsAreStored` |
| `OnlyDeathsLitter` | `Spec => []NoLitter` |
| `RegistrationsAreKept` | `Spec => []SavesAreKept`, where Windows has no faults |

The layers of the invariant follow the code. `LockInv`: a save holds the lock, with a list it
has loaded. `FileInv`: the temporary file of a save is its own; no reader has it
open, and it never becomes `instances.json` but by its rename. `LoadInv` says of
POSIX that what `instances.json` names is whole, and that a reader holds an inode with
a list that was stored since the reader began; it survives a rename because the reader
keeps the inode, not the name. `SaveInv` says that what was registered is in the file
and in the list the save under way has loaded. On Windows it has to except the moment between truncation
and write; a fault there makes the exception permanent, hence the condition.

### The secret store

`SecretStoreProofs` proves, for every number of processes, names and values, with
crashes and failures at every step:

| Theorem | Statement |
|---|---|
| `StoreTypeCorrect` | `Spec => []TypeOK` |
| `NamesAreUnique` | `Spec => []UniqueNames` |
| `ValuesMatch` | `Spec => []ValueMatches` |
| `NothingOverwritten` | `Spec => NoOverwrite` |
| `RemovedHaveGone` | `Spec => RemovedAreGone` |
| `ReadableComplete` | `Spec => []ReadableIsComplete` |

The assumption is `StoreAssumption`: there is a name and a value, `NoValue` is not a
value, the numbers of calls are naturals. The invariant is `TypeOK /\ NamesInv /\ TurnInv`. `NamesInv` says that the file and
every list in the memory of a command have one record per name: a command adds a
record only to a list it found without that name, so even the wrong list that
wins a race has no name twice. The other four hold as long as no two commands
overlapped, and then `TurnInv` gives `Alone` (at most one command is in the store, and
its list is the file's, with the record it creates or without the one it removes),
`Matching` (the keychain has for each record of the file the value it is meant
for, or none) and `StoredListed` (what was reported as created and nobody asked to remove
since is in the file's content; a Remove under way is not among it). None is a consequence of the properties:
they say nothing of a command between its two stores. A death inside a write loses every record,
and `ReadableIsComplete` does not hide that: it speaks of `stored`, which no failure changes, and
claims it of every file that can be read. It rests on `store.go:212-214`, by which a torn file is
an error to every later command and not an empty list that the next Create would write back.

### Autoconf

`AutoconfProofs` proves, for every number of other processes, secrets, dot files,
features, ports and runs, with failures and deaths at every step:

| Theorem | Statement |
|---|---|
| `AutoconfTypeCorrect` | `AutoconfSpec => []AutoconfTypeOK` |
| `AutoconfUsesSecretStore` | `AutoconfSpec => Spec` of `SecretStore` |
| `StoreBesideAutoconf` | the five properties of the store hold in `AutoconfSpec`, whatever commands of other processes run between the steps of autoconf |
| `ConfigurationIsKept` | `AutoconfSpec => NothingForgotten` |
| `DotFilesMountedOnce` | `AutoconfSpec => []MountedOnce` |
| `RunsConfigure` | `AutoconfSpec => []RunConfigures` |

Assumptions: `StoreAssumption`, `AutoconfAssumption` (types of the constants; the
ports are finitely many) and `ItemsAssumption` (a dot file is not also a secret, a
variable, a feature or a port). The argument composes the two modules. A step of
autoconf is a step of `SecretStore` or leaves the store alone, because the name it
asks for is one of `Secrets` (`StageInv`); so the theorems about the store carry over. In
the other direction, while a run lasts that no other process disturbs (`~disturbed`), only the runner
is in the store (`StoreInv`), hence what it found stored is still stored when it records the reference.
`FilesInv` says that, while a run lasts, the files the filter read are whole except for the one that is
being written, and that what will be written contains what the file had: with it no
write forgets anything. `SecretsInv` and `ItemsInv` carry the progress of a `--yes` run:
each item is either configured or still in the queue of its stage, a secret only as long as the run is not disturbed. `MountInv` adds to
`MountedOnce` that a dot file that is being recorded is recorded nowhere yet.

`VertexConfigured` cannot be proved: the run `autoconf_vertex` refutes it.

### Podman

`PodmanWorkspaceProofs` proves, for every number of processes, workspaces, containers and
hosts, with a failure or a death at every step, and restarts of the machine. Calls on different
workspaces overlap freely; of the calls on one workspace, the first two that overlap are followed to their end:

| Theorem | Statement |
|---|---|
| `TypeCorrect` | `Spec => []TypeOK` |
| `PodsAreOnRecord` | `Spec => []NoOrphanPods` |
| `RemovesOnlyStopped` | `Spec => RemovesStopped` |
| `RemoveIsComplete` | `Spec => RemoveLeavesNothing` |
| `PolicyStaysInForce` | `Spec => []PolicyInForce` |
| `AgentRunsUnderPolicy` | `Spec => AgentUnderPolicy` |

Nothing is assumed but that the markers for "none" are not values and that an order
of stopping names all containers (`NamesAssumption`, `OrdersAssumption`). `BaseInv` is
shown first. `TypeInv` says which locals a call has at each step. `OwnInv` says that a
container id belongs to one workspace wherever it is noted: in the manager's record, in
the pod, in `pods/<id>`, in the locals of a call. `KnownInv` says that calls which overlap on a workspace are all
creations or none is, because a Create takes a name nobody has, and that the record does
not change under a call that is alone. `PodInv` says that the pod of a workspace is
either on record, with its `pods/<id>` file, or in the hands of the one Create that
made it, up to the manager's save; a Create that fails between `kube play` and that save leads to `undo` with the pod still
its own. Nothing is claimed for the names in `broken`: a process died on them, or kube play,
the undo or the save of the record failed, and the code leaves a pod there that nobody knows.
The four other invariants follow one method each. `PolicyInv` describes how far a Start that
is alone has come: after which step which rule, file or container is there (`Applied`). It had to
be stated from the step "read" on, since a Start that reads the policy does not look
whether its pod exists. `StoppedInv` carries the check of
Remove to the removal; `CleanInv` says what a Remove has already deleted at each of its steps. The code ignores
the errors of `os.RemoveAll`, so a Remove succeeds with what could not be deleted left behind; those names are `littered`, and
`RemoveIsComplete` claims of them only that the pod is gone.

### OpenShell

`OpenShellProofs` proves, for every number of processes, workspaces, drivers, ports and
commands, and for *any* kinds of faults in one history (the runs allow one):

| Theorem | Statement |
|---|---|
| `TypeCorrect` | `Spec => []TypeOK` |
| `RecordMatchesGateway` | `Spec => []RecordedDriver` |
| `SandboxesAreSeen` | `Spec => []NoHiddenSandboxes` |
| `DeletesOnlyStopped` | `Spec => RemovesStopped` |
| `OverridesAreKept` | `Spec => StoppedStays` |
| `RunningHasForwards` | `Spec => []RunningIsForwarded` |

The assumption is `OpenShellAssumption`. Each property names the mishaps under which it claims nothing
(`Without`), and each invariant does so with the same ones. `SoloInv` turns "no two commands overlapped" into
"one process at most is in a command"; `PidInv` says that process ids identify gateways.
`GatewayInv` adds to `RecordedDriver` that a command which spawns a gateway has found
none, and one which waits has recorded the gateway it waits for, unless a write of the record failed, which the
code ignores (the mishap "record"). `SandboxInv`: all sandboxes are in the database of the
gateway that listens, and there are none when a gateway is about to be
killed; the check that establishes it is several steps earlier. `OverrideInv`: what a command
writes are the overrides as they are, with its own change. `ForwardInv`: a Start in progress
has forwarded all ports but those it has left, unless the data of a sandbox could not be read (the mishap "data":
the code then starts without ports), and a Stop that stores its state has set
the override first.

### The creation of a workspace

`CreationProofs` proves, for configurations of any length and content, any arguments, any
number of changes by others between any two steps, and both runtimes:

| Theorem | Statement |
|---|---|
| `ByName` | what `mergeByName` returns: every name of either list once (if the base names nothing twice), an entry of the base only if the override has none of its name |
| `Slices` | what `mergeStringSlices` returns: every item of either list once, in the order of the two lists joined |
| `Mounts` | what `mergeMounts` returns: every (host, target) pair of either list once, a mount of the base only if the override has none of its pair |
| `MergeIsValid` | two valid configurations make a valid one |
| `Invariance` | `Spec => []Inv` |
| `MergedValid` | `Spec => []MergedIsValid` |
| `MergeStands` | what the merge of two configurations says that stand for some levels each: what all these levels say together |
| `LevelsInvariance` | `Spec => []LevelsInv` |
| `HighestWins` | `Spec => []HighestLevelWins` |
| `CreateInvariance` | `Spec => [](UsedInv /\ HostsInv /\ BoxInv)` |
| `PolicyIsComplete` | `Spec => []PolicyComplete` |
| `EnvironmentIsComplete` | `Spec => []EnvironmentComplete` |
| `Provisioned` | what `ProvisionSecrets` leaves in OneCLI: of each name the last input that has it |
| `SecretsInvariance` | `Spec => [](PodInv /\ ProvidersInv)` |
| `SecretsAreInjected` | `Spec => []SecretsInjected` |
| `FakesInvariance` | `Spec => []FakesInv` |
| `CredentialsAreFaked` | `Spec => []CredentialsFaked` |
| `OrderIsSound` | what `Order` places: features in their order, and all of them unless some depend on one another in a cycle |
| `InstallInvariance` | `Spec => [](KnownInv /\ InstallInv)` |
| `FeaturesAreInOrder` | `Spec => []FeaturesInOrder` |
| `AgentsAreSetUp` | `Spec => []AgentIsSetUp` |

The code validates each file it loads and never what it makes of them: the merge of up to four
levels, with commands' URLs rewritten, skills mounted, the mounts of intercepted credentials
taken out and their hosts added. `MergedValid` says that this is sound: each of these
steps keeps a configuration valid. The delicate one is the merge of MCP entries, where
commands and servers are merged apart and yet may share no name.

The assumptions are `ScenariosAssumption` (the files hold documents of the schema, with finitely many
features of the catalog, or are broken; so do the changes by others; the store has its secrets under their own names; each
field of a settings file is the list of its keys),
`NoURLAssumption`, `ServicesAssumption` (a secret's name has at least one segment, a service a list of hosts) and
`CatalogAssumption` (the place of a feature's ID in the order of the strings is a number). `Inv` says the same of the files at every
step (`WorldInv`), that what will be changed is of the schema too, and that from the
project's level on there is a configuration, of the schema and valid (`ConfigInv`).
`MergedIsValid` alone is not inductive: it does not say what others may put into the files that
are still to be read, nor that a command which has no configuration has not got past loading.

`HighestLevelWins` speaks of all levels at once, the code merges them pair by pair, and in pairs
of which the first, or none, may be missing. The invariant `LevelsInv` therefore says at each point of
the loading that the configuration stands for the levels read so far (`StandsFor`). For what one
level decides, `Stands` says: the keys (names, pairs, features, the mode) are those of all the
levels, and each item is in a level above which none has its key. For what the levels list
together, `JoinOf` says: the elements are those of all levels, and x is listed with no
y before it exactly if a level lists x with no y before it and no lower level lists y. Both are
kept by a merge: `MergeStands`, from `ByName`, `Slices` and `Mounts`. A command and a server of one name are two values of one
key, which is how the merge's two directions of claiming a name come out; of a command only
the name is an item, since its URL is rewritten. The second part of `LevelsInv`, that nothing is
listed twice (`OnceEach`), holds only after the last merge: a workspace with a single
level takes it as it is, and validation does not refuse a skill that is listed twice. It is the merge
with the agent's level, or with the empty configuration if there is none, that removes it.

`PolicyComplete` relates the end of the command to what was read at five earlier points: the levels, the
secrets, the files of the credentials (when their hosts are added) and the store again, when the
policy is made. `UsedInv`: the i-th secret that was used is what the store has of the i-th name the
configuration lists, until others change the store. `HostsInv`: the hosts of the
configuration are those of the levels (from `LevelsInv`, at the moment the last level is merged) and, in OpenShell,
those of the credentials intercepted so far, each expanded on its own, until others change the files. Both
have to survive the changes of others and the steps that touch the mounts and the providers
(`SandboxKeeps`). `BoxInv` carries the sandbox from its creation to its policy. `EnvironmentComplete` needs
besides that the configuration is still valid: with two variables of one name, no value
could be the one that is set.

`SecretsInjected` says of the end what happened secret by secret. For OneCLI, the inputs of all secrets
are joined and provisioned one by one, and an input whose name exists replaces the value and the
host: `Provisioned` shows by induction over the inputs that the last of each name stays, `LastsFlattened`
that an input no later secret repeats is such a last one, and `MapIs` that one
secret has no two inputs of a name (two hosts of one secret that give one name are
refused, `HostsFail`). `PodInv` keeps it while the credentials are configured, whose secrets
have names of their own (`ConfigureKeeps`). For OpenShell, `ProvidersInv` says at each turn of the loop
that what is pending are the last of the configuration's secrets, and that each one before them is
served (`Served`); a later secret with the same provider's name cannot replace the value, since the
creation of a provider that exists fails.

`CredentialsFaked` speaks of the end, when the loops over the credentials are done; it says nothing
of the way there. `FakesInv` does. `ActiveInv`: the intercepted credentials are of different
kinds, each has a mount at its own path, and a placeholder names the server of the file as it was read.
`DetectInv`: those that were looked for are intercepted if they can be (`Wanted`); in OpenShell
the mount of one is taken out of the configuration before the other is looked for, and
`OtherRemoved` shows that the first mount Detect takes for the other stays the same. `GivenInv`:
what is pending are the last of the intercepted credentials (`Suffix`), and OneCLI or the sandbox
has what the ones before them need; since each kind is there once, kubeconfig's input is not
replaced. That a mount which is left is not the credential's own rests on `PathsApart`: a
path belongs to one credential, and the mount of the sources to none.

`FeaturesInOrder` is about Kahn's algorithm, which counts the predecessors left and sorts the queue after each
insertion. `InOrder` is the invariant of its loop: no feature is placed twice, each one after those it waits
for, and one with a smaller ID that is not yet placed waits for one that is not either. That nothing is left
out (`OrderIsSound`) follows from a set that the last turn leaves unplaced with no feature ready: each of it waits for
another of it, which is a cycle, and the code refuses the workspace. `InstallInv` carries the order through
the turns of the installation: the configuration must not change after the order was computed
(`InstallStays`), and the options of each feature are merged from the user's, the spelling of a key aside.

`AgentIsSetUp` is about up to three edits one after the other, each of which reads a file, replaces some of its
fields and writes it, of files the user may have filled with anything. A document is flattened, so what an
edit replaces besides its own fields are those in conflict with them (`Conflict`): a field that is in one of them, and a
value that stands where one of them needs an object. `Keeps(W, doc, new)` says that nothing else of `doc` is
lost; it holds of each edit, with the fields it writes (`PutAllIs`), and of several with the union of theirs
(`KeepsBoth`). That the last edit leaves what the first one wrote (`KeepsOthers`) is shown where the fields
begin with different keys (`KeysConflict`), which is why `HasMCP` needs that no command has a server's name: those are
under one key, and the validity of the configuration (`Inv`) gives it. OpenCode's provider block is the one edit
that looks before it writes: the model the user describes is no field of it (`DescribedIn`), and it stays so after the
edit before it. `SettingsInv` says of the state before the set-up that the settings are those that were read. Which
edits fail matters too: the theorem needs that a file which does not parse ends the command (`EditsSucceed`).

What a loop computes is shown in three stages. `NatSetInduction` gives induction over numbers, for
sets (the library's theorem is about an operator, which the backends cannot instantiate), from the
library's minimum of a non-empty set of numbers (`WFMin`). `IterExists` shows by it that the
function which the community modules' folds define by recursion exists. The lemma `...Loop` of
each fold then has the intermediate results of the loop, and the theorem about the merge is a loop
invariant over them (`Seen(k)`: what the first k items were).

### What the proofs found

The type invariants of `StorageFile` and `PodmanWorkspace` said less than was
meant, since `SUBSET` binds tighter than `\cup`; the runs do not check type
invariants, and the proofs could not use them until that was put right.
`PolicyInv`, first checked by TLC, was not inductive at "read" (above). What `HighestLevelWins` said of
mounts in an earlier form took the mount of a pair at the highest level to be *the* mount of that
pair, but `validate` accepts a level that has one pair twice (`config.go:198`), and which of
them wins depends on the side of the merge it is on (the first of the base's, the last of the
override's, `merger.go:160-168`); the property now speaks of each mount and its pair (`MountsAreJoined`), leaves open which mount of a pair stays, and a
scenario has such a level. `PolicyComplete` took
the wildcard of Vertex AI never to be in a policy; it is, unexpanded, if a level itself lists it, because only the
hosts of credentials are expanded (`openshell/credentials.go:44`); it is now stated as an equation, and
a scenario has such a level too. `SecretsInjected` took a provider that was made to be still there
when the creation ends; others may delete it in between, and kdn attaches it by name without
another look. What it says of a provider's value now supposes that others left the providers alone, and a scenario in
which they do not was added. `CredentialsFaked` took it that a credential's own files are not mounted besides its
placeholder. Podman compares the mounts as they are spelled (`podman/create.go:323-325`), so a second mount of the same
files under another spelling (`$HOME/.kube` and its absolute path) stays beside the placeholder; the property now excepts
exactly that (`MountedAnyway`), and a scenario has it. The model kept gcloud's credential in OneCLI under a name that a secret of
the type "other" can have (`app`, with a host `vertex-ai`); the service keeps apps apart from secrets
(`client.go:211`), and so does the model now. `AgentIsSetUp` took it that the user's settings have an object wherever an edit
needs one; a value that is none (`"projects": 5`) is replaced without a word (`claude.go`, `openclaw.go`, `opencode.go`), so the
property speaks of conflicts in both directions, and scenarios have such files. The same proof showed
that `GooseOnboarded` replaced a telemetry key that holds an object; the code leaves any value
(`goose.go:83`), and so does the model now. In return the property got sharper: what the user says of providers
other than the model's, and of a model of the provider, has to stay, and the entries of MCP servers are compared. TLC also checked
each inductive invariant on the instance of its component's run before it was proved.

### Only model-checked

- *Liveness*: `CallsReturn`, under weak fairness, which the prover's backends cannot treat.

What the assumptions of a theorem exclude is not left to TLC: it fails, as section 3 says.

## 6. What is not modelled, and why

- **The text of what is generated**: Containerfile, kube YAML, Envoy and policy
  documents are modelled by what they contain where a property is about it (features, environment,
  mounts, ports, hosts), never as text. `containerEnv` of features, the CA certificate and
  the build of the base image are left out.
- **The table of secret services** is a constant; loading it from the embedded
  JSON is left out, and so are the API key and the encoding of OneCLI requests.
- **Project detection**: pure functions over the output of git; their result is the
  argument `project` of `WorkspaceAdd`.
- **`Terminal` and the dashboard inside the runtimes, the download of OpenShell's
  binaries**: a process that is executed, or one download without shared state.
  The manager's part of `Terminal` is modelled.
- **Two `kdn init` at once**: the registry they share is `InstanceManager`'s part; in
  `Creation` others change files and stores but create no workspace.
- **Support code** (logging, progress, execution of commands): nothing relies on state of theirs.
- **Read-only methods, output, flags, logging, website**: no state.

## 7. The plan

Done, in this order: the manager and its registry with the proofs; the file under
it; the secret store; autoconf on top of the store; the two real runtimes; the
creation of a workspace, from the configuration to the container or the sandbox, with
configuration merge, agents, OneCLI, credentials and features; the proofs about the
secret store and autoconf; those about the file, the registry and its runtimes, the two
runtimes, the merge of configurations, of any number of levels, and each property of what is
created: policy, environment, secrets, credentials, features and the settings of the agent.

Left: the manager over the detailed runtimes, that is, that `PodmanWorkspace`, seen
through the state of the workspace container, keeps the runtime contract
that `InstanceManager` assumes, and `StorageFile` the atomic load and save.

## 8. Running it

    tlc -config manager_registry.cfg MCInstanceManager
    tlapm InstanceManagerProofs.tla
    tlapm InstanceManagerPairing.tla
    tlapm StorageFileProofs.tla
    tlapm SecretStoreProofs.tla
    tlapm AutoconfProofs.tla
    tlapm PodmanWorkspaceProofs.tla
    tlapm OpenShellProofs.tla
    tlapm CreationProofs.tla

The other runs are started the same way: each `.cfg` belongs to the `MC` module of
its component, and `PROJECT.json` lists them with the properties they check.
