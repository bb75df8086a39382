---------------------------- MODULE ConfigMerge ----------------------------
(***************************************************************************)
(* The workspace configuration: what makes one valid, how the levels are   *)
(* loaded from their files, and how two levels are merged (pkg/config).    *)
(*                                                                         *)
(* A configuration is a record of lists.  An absent list and an empty one  *)
(* are the same value here, as they are for every reader in the code.      *)
(*   env     [name, set \subseteq {"value", "secret"}, val]                *)
(*   mounts  [host, target, ro]; a path is [root, up, name], root one of   *)
(*           "/", "SOURCES", "HOME" and "rel", up the number of levels the *)
(*           cleaned path climbs above its root                            *)
(*   cmds, srvs  MCP commands and servers, [name, val], val a URL: that of *)
(*           the server, or the one among the command's arguments          *)
(*   mode    "allow", "deny", "unset" or a value the schema does not know  *)
(*   features  a function from feature IDs to options                      *)
(* "" is the empty string.                                                 *)
(***************************************************************************)
EXTENDS Naturals, Sequences, FiniteSets, SequencesExt

CONSTANTS Broken,  \* the content of a file that cannot be read or parsed
          NoURL    \* no URL, and the command of an MCP entry without one

\* The nil configuration: the workspace has no file.
NoConfig == <<>>

\* How a container reaches its host.
ContainerHosts == {"host.containers.internal", "host.openshell.internal"}

\* The prover does not know that a literal is in STRING: hence the union.
URLs == [host : STRING \cup ContainerHosts, rest : STRING]

ASSUME NoURLAssumption == NoURL \notin URLs

EmptyConfig ==
  [env |-> <<>>, mounts |-> <<>>, skills |-> <<>>, secrets |-> <<>>,
   cmds |-> <<>>, srvs |-> <<>>, mode |-> "unset", hosts |-> <<>>,
   ports |-> <<>>, features |-> <<>>]

\* What a document of the schema holds, valid or not.
IsList(list) == list \in Seq(ToSet(list))

IsConfig(c) ==
  /\ c = [env |-> c.env, mounts |-> c.mounts, skills |-> c.skills, secrets |-> c.secrets,
          cmds |-> c.cmds, srvs |-> c.srvs, mode |-> c.mode, hosts |-> c.hosts,
          ports |-> c.ports, features |-> c.features]
  /\ IsList(c.env) /\ IsList(c.mounts) /\ IsList(c.skills) /\ IsList(c.secrets)
  /\ IsList(c.cmds) /\ IsList(c.srvs) /\ IsList(c.hosts) /\ IsList(c.ports)
  /\ \A e \in ToSet(c.cmds) \cup ToSet(c.srvs) :
       e = [name |-> e.name, val |-> e.val] /\ e.val \in URLs \cup {NoURL}

NamesOf(list) == {list[i].name : i \in DOMAIN list}

Entry(list, n) == CHOOSE e \in ToSet(list) : e.name = n

NoRepeat(list) == \A i, j \in DOMAIN list : i # j => list[i].name # list[j].name

-----------------------------------------------------------------------------
(* Validation.                                                             *)

\* envVarNamePattern, on the names in use here.
ValidName(n) == n \notin {"", "0bad"}

isValidHostPath(p, variables) == p.root \in {"/"} \cup variables

isValidTargetPath(p) == p.root \in {"/", "SOURCES", "HOME"}

\* $SOURCES is /workspace/sources and may reach /workspace; $HOME is its own
\* limit.
checkTargetEscape(p) ==
  /\ p.root = "SOURCES" => p.up <= 1
  /\ p.root = "HOME" => p.up = 0

ValidEnvironment(env) ==
  /\ NoRepeat(env)
  /\ \A e \in ToSet(env) : /\ ValidName(e.name)
                           /\ Cardinality(e.set) = 1
                           /\ "secret" \in e.set => e.val # ""

\* One flat map of names for commands and servers together.
ValidMCP(cmds, srvs) ==
  /\ NoRepeat(cmds \o srvs)
  /\ \A e \in ToSet(cmds \o srvs) : e.name # "" /\ e.val # NoURL

ValidMounts(mounts) ==
  \A m \in ToSet(mounts) : /\ isValidHostPath(m.host, {"SOURCES", "HOME"})
                           /\ isValidTargetPath(m.target)
                           /\ checkTargetEscape(m.target)

validate(cfg) ==
  /\ ValidEnvironment(cfg.env)
  /\ ValidMCP(cfg.cmds, cfg.srvs)
  /\ ValidMounts(cfg.mounts)
  /\ "" \notin ToSet(cfg.secrets) /\ IsInjective(cfg.secrets)
  /\ cfg.mode \in {"allow", "deny", "unset"} /\ "" \notin ToSet(cfg.hosts)
  /\ \A s \in ToSet(cfg.skills) : isValidHostPath(s, {"HOME"})

-----------------------------------------------------------------------------
(* Merging: override takes precedence, the base's order comes first.       *)

\* Replaces the entry of the same name where it stands, or appends.
SetByName(list, e) ==
  IF e.name \in NamesOf(list)
  THEN [i \in DOMAIN list |-> IF list[i].name = e.name THEN e ELSE list[i]]
  ELSE Append(list, e)

mergeByName(base, override) == FoldLeft(SetByName, base, override)

AppendNew(list, s) == IF s \in ToSet(list) THEN list ELSE Append(list, s)

AppendAllNew(list, new) == FoldLeft(AppendNew, list, new)

mergeStringSlices(base, override) == AppendAllNew(<<>>, base \o override)

mergeEnvironment(base, override) == mergeByName(base, override)

SameMount(m, n) == m.host = n.host /\ m.target = n.target

AppendMount(list, m) ==
  IF \E x \in ToSet(list) : SameMount(x, m) THEN list ELSE Append(list, m)

SetMount(list, m) ==
  IF \E x \in ToSet(list) : SameMount(x, m)
  THEN [i \in DOMAIN list |-> IF SameMount(list[i], m) THEN m ELSE list[i]]
  ELSE Append(list, m)

AppendMounts(list, mounts) == FoldLeft(AppendMount, list, mounts)

SetMounts(list, mounts) == FoldLeft(SetMount, list, mounts)

\* Mutant: mounts are compared as a whole, options included.
mergeMounts_whole(base, override) == AppendAllNew(<<>>, base \o override)

\* The first mount of a (host, target) pair stays within the base; one of the
\* override replaces it in place.
mergeMounts(base, override) == SetMounts(AppendMounts(<<>>, base), override)

mergeSkills(base, override) == mergeStringSlices(base, override)

mergeSecrets(base, override) == mergeStringSlices(base, override)

mergePorts(base, override) == mergeStringSlices(base, override)

mergeMCPCommands(base, override) == mergeByName(base, override)

mergeMCPServers(base, override) == mergeByName(base, override)

\* Mutant: commands and servers are merged without regard to each other.
mergeMCP_apart(base, override) ==
  [cmds |-> mergeMCPCommands(base.cmds, override.cmds),
   srvs |-> mergeMCPServers(base.srvs, override.srvs)]

Unclaimed(list, names) ==
  FoldLeft(LAMBDA kept, e : IF e.name \in names THEN kept ELSE Append(kept, e), <<>>, list)

\* A name the override claims for one kind is dropped from the other kind.
mergeMCP(base, override) ==
  [cmds |-> Unclaimed(mergeMCPCommands(base.cmds, override.cmds), NamesOf(override.srvs)),
   srvs |-> Unclaimed(mergeMCPServers(base.srvs, override.srvs), NamesOf(override.cmds))]

mergeNetwork(base, override) ==
  [mode |-> IF override.mode # "unset" THEN override.mode ELSE base.mode,
   hosts |-> mergeStringSlices(base.hosts, override.hosts)]

\* f, and g for what f says nothing of: f @@ g, which the provers cannot expand.
Over(f, g) ==
  [x \in DOMAIN f \cup DOMAIN g |-> IF x \in DOMAIN f THEN f[x] ELSE g[x]]

mergeFeatures(base, override) == Over(override, base)

Merge(base, override) ==
  LET mcp == mergeMCP(base, override)
      net == mergeNetwork(base, override)
  IN [env |-> mergeEnvironment(base.env, override.env),
      mounts |-> mergeMounts(base.mounts, override.mounts),
      skills |-> mergeSkills(base.skills, override.skills),
      secrets |-> mergeSecrets(base.secrets, override.secrets),
      cmds |-> mcp.cmds, srvs |-> mcp.srvs,
      mode |-> net.mode, hosts |-> net.hosts,
      ports |-> mergePorts(base.ports, override.ports),
      features |-> mergeFeatures(base.features, override.features)]

-----------------------------------------------------------------------------
(* The levels.  A file is Broken or a function from keys to configurations;*)
(* a file that does not exist is the empty function.  Every level is       *)
(* validated when it is loaded, the merged result is not.                  *)

WorkspaceLoads(cfg) == cfg # Broken /\ (cfg # NoConfig => validate(cfg))

Level(file, key) == IF key \in DOMAIN file THEN <<file[key]>> ELSE <<>>

ProjectLoads(file, project) ==
  file # Broken /\ \A k \in {"", project} \cap DOMAIN file : validate(file[k])

LoadProject(file, project) ==
  LET levels == Level(file, "") \o Level(file, project)
  IN CASE levels = <<>> -> EmptyConfig
       [] Len(levels) = 1 -> levels[1]
       [] OTHER -> Merge(levels[1], levels[2])

\* The merge of what was loaded so far with the next level; a workspace
\* without a file takes the project's configuration as it is.
NextLevel(cfg, level) == IF cfg = NoConfig THEN level ELSE Merge(cfg, level)

AgentLoads(file, agent) ==
  file # Broken /\ \A k \in {agent} \cap DOMAIN file : validate(file[k])

LoadAgent(file, agent) ==
  IF agent \in DOMAIN file THEN file[agent] ELSE EmptyConfig
=============================================================================
