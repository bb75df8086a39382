---------------------------- MODULE WorkspaceAdd ----------------------------
(***************************************************************************)
(* "kdn init" up to the call of the runtime's Create: the command          *)
(* (pkg/cmd/init.go) registers the runtimes and loads the workspace's own  *)
(* configuration; the manager's Add (pkg/instances/manager.go) merges it   *)
(* with those of the project and of the agent, has the runtime transform   *)
(* the result, maps the secrets it lists and prepares the settings of the  *)
(* agent.  The registry of instances is InstanceManager's part.            *)
(*                                                                         *)
(* Every file and store is read in a step of its own, and other processes  *)
(* and the user may change them in between: EditWorld.                     *)
(***************************************************************************)
EXTENDS AgentSettings, Credentials, Features

CONSTANT Scenarios    \* a sequence of [world, edits, req]

\* What others may change: see world.
WorldParts == {"workspace", "projects", "agents", "secrets", "settings", "files",
               "images", "providers"}

\* A secret of the store, under its own name.
IsSecret(secret, n) ==
  secret.item.name = n /\ n \in DOMAIN Segments /\ IsList(secret.item.hosts)

\* A document of the schema, its features among those of the Catalog.
IsDocument(c) ==
  /\ IsConfig(c)
  /\ IsFiniteSet(DOMAIN c.features) /\ DOMAIN c.features \subseteq DOMAIN Catalog

\* The settings of an agent: each field of a file is the list of its keys.
IsSettings(files) ==
  \A path \in DOMAIN files :
    files[path] \in {Broken, NullDoc} \/ \A f \in DOMAIN files[path] : IsList(f) /\ f # <<>>

\* The configuration files hold documents, or are Broken.
IsPart(part, value) ==
  CASE part = "workspace" -> value \in {Broken, NoConfig} \/ IsDocument(value)
    [] part \in {"projects", "agents"} ->
         value = Broken \/ \A k \in DOMAIN value : IsDocument(value[k])
    [] part = "secrets" -> \A n \in DOMAIN value : IsSecret(value[n], n)
    [] part = "settings" -> \A a \in DOMAIN value : value[a] = Broken \/ IsSettings(value[a])
    [] OTHER -> TRUE

ASSUME ScenariosAssumption ==
  \A i \in DOMAIN Scenarios :
    LET s == Scenarios[i]
    IN /\ DOMAIN s.world = WorldParts \cup {"edited"}
       /\ \A part \in WorldParts : IsPart(part, s.world[part])
       /\ IsList(s.edits)
       /\ \A e \in ToSet(s.edits) : e.part \in WorldParts /\ IsPart(e.part, e.value)

VARIABLES
  world,     \* what is outside of the command:
             \*   workspace  the configuration in the workspace, see ConfigMerge
             \*   projects, agents  the files of the other levels, by key
             \*   secrets    the secret store, name -> [item, value]
             \*   settings   the agents' settings directories, agent -> files
             \*   files      the files of the host, path -> content
             \*   images     podman's image files, name -> environment
             \*   providers  OpenShell's providers, name -> [type, envs, value]
             \*   edited     the parts that were changed meanwhile
  edits,     \* the changes still to come, a sequence of [part, value]
  req,       \* the arguments: [project, agent, model, runtime, dump, driver]
  pc,        \* where the command is
  levels,    \* the configurations loaded, in ascending precedence
  cfg,       \* the configuration, merged so far
  used,      \* the secrets read and mapped so far, a sequence of [item, value]
  given,     \* the agent's settings as they were read
  settings,  \* and with kdn's changes
  pending,   \* what the current loop of Create has still to go through
  detected,  \* the credential that is being handled, at most one
  active     \* the intercepted credentials: [cred, path, mount, fake]

addVars == <<world, edits, req, pc, levels, cfg, used, given, settings>>

loopVars == <<pending, detected, active>>

Ended == {"dumped", "created", "failed"}

Nothing == <<>>

Init ==
  /\ \E i \in DOMAIN Scenarios : /\ world = Scenarios[i].world
                                 /\ edits = Scenarios[i].edits
                                 /\ req = Scenarios[i].req
  /\ pc = "start"
  /\ levels = <<>> /\ cfg = NoConfig /\ used = <<>>
  /\ given = Nothing /\ settings = Nothing
  /\ pending = <<>> /\ detected = <<>> /\ active = <<>>

Step(from, to) == pc = from /\ pc' = to

-----------------------------------------------------------------------------

\* Another process or the user changes a file, the secret store or OpenShell.
EditWorld ==
  /\ pc \notin Ended /\ edits # <<>>
  /\ LET e == Head(edits)
     IN world' = [world EXCEPT ![e.part] = e.value, !.edited = @ \cup {e.part}]
  /\ edits' = Tail(edits)
  /\ UNCHANGED <<req, pc, levels, cfg, used, given, settings, loopVars>>

\* Podman's default image files, each with its environment.
DefaultImages ==
  [f \in {"image"} \cup Agents |->
     IF f = "openclaw" THEN [OPENCLAW_PROXY_ACTIVE |-> "1", NODE_NO_WARNINGS |-> "1"]
     ELSE Nothing]

\* Initialising podman writes the image files that do not exist yet.
RegisterRuntimes ==
  /\ Step("start", "workspace")
  /\ world' = [world EXCEPT !.images = @ @@ DefaultImages]
  /\ UNCHANGED <<edits, req, levels, cfg, used, given, settings, loopVars>>

LoadWorkspace ==
  /\ Step("workspace", "project")
  /\ WorkspaceLoads(world.workspace)
  /\ cfg' = world.workspace
  /\ levels' = IF cfg' = NoConfig THEN <<>> ELSE <<cfg'>>
  /\ UNCHANGED <<world, edits, req, used, given, settings, loopVars>>

LoadProjectConfig ==
  /\ Step("project", "agent")
  /\ ProjectLoads(world.projects, req.project)
  /\ cfg' = NextLevel(cfg, LoadProject(world.projects, req.project))
  /\ levels' = levels \o Level(world.projects, "") \o Level(world.projects, req.project)
  /\ UNCHANGED <<world, edits, req, used, given, settings, loopVars>>

ContainerHostname ==
  IF req.runtime = "podman" THEN "host.containers.internal" ELSE "host.openshell.internal"

TransformConfig(c) == [c EXCEPT !.cmds = RewriteArgs(@, ContainerHostname)]

\* The last level; a dump of the configuration ends here.
LoadAgentConfig ==
  /\ pc = "agent"
  /\ AgentLoads(world.agents, req.agent)
  /\ LET merged == NextLevel(cfg, LoadAgent(world.agents, req.agent))
     IN IF req.dump THEN pc' = "dumped" /\ cfg' = merged
        ELSE pc' = "secrets" /\ cfg' = TransformConfig(merged)
  /\ levels' = levels \o Level(world.agents, req.agent)
  /\ UNCHANGED <<world, edits, req, used, given, settings, loopVars>>

-----------------------------------------------------------------------------
(* Secrets and agent settings.                                             *)

NextSecret == cfg.secrets[Len(used) + 1]

SecretMaps(name) ==
  name \in DOMAIN world.secrets /\ ~MapFails(world.secrets[name].item)

MapSecret ==
  /\ pc = "secrets" /\ Len(used) < Len(cfg.secrets)
  /\ SecretMaps(NextSecret)
  /\ used' = Append(used, world.secrets[NextSecret])
  /\ UNCHANGED <<world, edits, req, pc, levels, cfg, given, settings, loopVars>>

onecliSecrets == FlattenSeq([i \in DOMAIN used |-> Map(used[i].item, used[i].value)])

secretEnvVars == UNION {PlaceholderEnvs(used[i].item) : i \in DOMAIN used}

SettingsReadable ==
  req.agent \in DOMAIN world.settings => world.settings[req.agent] # Broken

ReadAgentSettings ==
  /\ Step("secrets", "setup")
  /\ Len(used) = Len(cfg.secrets)
  /\ SettingsReadable
  /\ settings' = IF req.agent \in DOMAIN world.settings THEN world.settings[req.agent] ELSE Nothing
  /\ given' = settings'
  /\ UNCHANGED <<world, edits, req, levels, cfg, used, loopVars>>

approvedKeys == IF secretEnvVars = {} THEN {} ELSE {"placeholder"}

Onboarded == SkipOnboarding(req.agent, settings, approvedKeys)

Modelled ==
  IF req.model = <<>> THEN Onboarded
  ELSE SetModel(req.agent, Onboarded, ParseModelID(req.model), ContainerHostname)

\* Each skill is mounted, read-only, under its own name.
SkillTarget(skill) ==
  [root |-> "HOME", up |-> 0, name |-> Append(SkillsDir(req.agent), Last(skill.name))]

SkillMounts ==
  [i \in DOMAIN cfg.skills |->
     [host |-> cfg.skills[i], target |-> SkillTarget(cfg.skills[i]), ro |-> TRUE]]

SetUpFails ==
  /\ req.agent \in Agents
  /\ \/ SkipOnboardingFails(req.agent, settings)
     \/ req.model # <<>> /\ SetModelFails(req.agent, Onboarded, ParseModelID(req.model))
     \/ \E i, j \in DOMAIN cfg.skills :
          i # j /\ SkillTarget(cfg.skills[i]) = SkillTarget(cfg.skills[j])

\* The settings of an agent kdn does not know are used as they are.
SetUpAgent ==
  /\ Step("setup", "create")
  /\ ~SetUpFails
  /\ IF req.agent \in Agents
     THEN /\ settings' = SetMCPServers(req.agent, Modelled, cfg.cmds, cfg.srvs)
          /\ cfg' = [cfg EXCEPT !.mounts = @ \o SkillMounts]
     ELSE UNCHANGED <<settings, cfg>>
  /\ UNCHANGED <<world, edits, req, levels, used, given, loopVars>>

-----------------------------------------------------------------------------
(* What both runtimes' Create do with the credentials.                     *)

\* In the order of their registration.
CredentialList == <<"gcloud", "kubeconfig">>

\* The credential of the mount Detect finds, whose file exists.
Found(c) ==
  LET i == Detect(c, cfg.mounts, world.files)
      path == CandidateFile(c, cfg.mounts[i])
  IN IF i # 0 /\ path \in DOMAIN world.files
     THEN <<[cred |-> c, path |-> path, mount |-> cfg.mounts[i]]>> ELSE <<>>

-----------------------------------------------------------------------------

\* What the steps above need in order not to return an error.
AddAccepts ==
  /\ pc = "workspace" => WorkspaceLoads(world.workspace)
  /\ pc = "project" => ProjectLoads(world.projects, req.project)
  /\ pc = "agent" => AgentLoads(world.agents, req.agent)
  /\ pc = "secrets" => IF Len(used) < Len(cfg.secrets) THEN SecretMaps(NextSecret)
                       ELSE SettingsReadable
  /\ pc = "setup" => ~SetUpFails

AddFails ==
  /\ ~AddAccepts
  /\ pc' = "failed"
  /\ UNCHANGED <<world, edits, req, levels, cfg, used, given, settings, loopVars>>

AddNext ==
  \/ EditWorld
  \/ RegisterRuntimes
  \/ LoadWorkspace
  \/ LoadProjectConfig
  \/ LoadAgentConfig
  \/ MapSecret
  \/ ReadAgentSettings
  \/ SetUpAgent
  \/ AddFails
=============================================================================
