------------------------------ MODULE Creation ------------------------------
(***************************************************************************)
(* The creation of a workspace, from the command line to the container or  *)
(* the sandbox: WorkspaceAdd composed with the Create of the runtime that  *)
(* was asked for, and what must be true of the result.                     *)
(***************************************************************************)
EXTENDS PodmanCreate, SandboxCreate

vars == <<addVars, loopVars, podVars, sandboxVars>>

CreationInit == Init /\ PodmanInit /\ SandboxInit

\* The system stops when the command has ended.
Next ==
  \/ AddNext /\ UNCHANGED <<podVars, sandboxVars>>
  \/ PodmanNext /\ UNCHANGED sandboxVars
  \/ SandboxNext /\ UNCHANGED podVars

Spec == CreationInit /\ [][Next]_vars

-----------------------------------------------------------------------------
(* The configuration.                                                      *)

\* Every level is validated alone, when it is loaded; the merged configuration,
\* and what the runtimes make of it, never are, and are valid all the same.
MergedIsValid == cfg # NoConfig => validate(cfg)

\* The configuration of the highest level of which P holds.
Winner(P(_)) ==
  LET S == {i \in DOMAIN levels : P(levels[i])}
  IN IF S = {} THEN EmptyConfig ELSE levels[Max(S)]

MCPNames(c) == NamesOf(c.cmds) \cup NamesOf(c.srvs)

Pairs(c) == {[host |-> m.host, target |-> m.target] : m \in ToSet(c.mounts)}

EnvironmentWins ==
  /\ NamesOf(cfg.env) = UNION {NamesOf(levels[i].env) : i \in DOMAIN levels}
  /\ \A e \in ToSet(cfg.env) :
       e = Entry(Winner(LAMBDA c : e.name \in NamesOf(c.env)).env, e.name)

\* Every pair a level mounts is mounted, once and as one of the levels has it.
MountsAreJoined ==
  /\ Pairs(cfg) = UNION {Pairs(levels[i]) : i \in DOMAIN levels}
  /\ \A m \in ToSet(cfg.mounts) : \E i \in DOMAIN levels : m \in ToSet(levels[i].mounts)
  /\ \A i, j \in DOMAIN cfg.mounts : SameMount(cfg.mounts[i], cfg.mounts[j]) => i = j

\* A name is a command or a server, whichever the highest level makes it.
MCPWins ==
  /\ MCPNames(cfg) = UNION {MCPNames(levels[i]) : i \in DOMAIN levels}
  /\ \A n \in MCPNames(cfg) :
       LET w == Winner(LAMBDA c : n \in MCPNames(c))
       IN IF n \in NamesOf(w.srvs)
          THEN n \notin NamesOf(cfg.cmds) /\ Entry(cfg.srvs, n) = Entry(w.srvs, n)
          ELSE n \in NamesOf(cfg.cmds) /\ n \notin NamesOf(cfg.srvs)

FeaturesWin ==
  /\ DOMAIN cfg.features = UNION {DOMAIN levels[i].features : i \in DOMAIN levels}
  /\ \A f \in DOMAIN cfg.features :
       cfg.features[f] = Winner(LAMBDA c : f \in DOMAIN c.features).features[f]

\* Nothing of a list is lost or listed twice, and it keeps the order in which
\* the levels first name its elements.
ListsAreJoined ==
  \A field \in {"skills", "secrets", "hosts", "ports"} :
    LET all == FlattenSeq([i \in DOMAIN levels |-> levels[i][field]])
        first(x) == Min({i \in DOMAIN all : all[i] = x})
    IN /\ ToSet(cfg[field]) = ToSet(all) /\ IsInjective(cfg[field])
       /\ \A i, j \in DOMAIN cfg[field] :
            i < j => first(cfg[field][i]) < first(cfg[field][j])

\* After all the pairwise merges, the variables, MCP entries and features several
\* levels define are as the highest of them has them, and nothing any level adds
\* is lost or doubled.  Which mount and which mode win is MergeAsDocumented's.
HighestLevelWins ==
  pc \in {"secrets", "dumped"} =>
    EnvironmentWins /\ MountsAreJoined /\ MCPWins /\ FeaturesWin /\ ListsAreJoined

\* README.md:2564-2571: the base's network policy is dominant, "overrides
\* cannot loosen the policy".
NetworkPolicyDominant ==
  pc \in {"secrets", "dumped"} /\ (\E i \in DOMAIN levels : levels[i].mode = "deny")
    => cfg.mode = "deny"

\* README.md:2557-2558: of mounts of one host and target pair the "first
\* occurrence wins".
FirstMountWins ==
  LET all == FlattenSeq([i \in DOMAIN levels |-> levels[i].mounts])
  IN pc \in {"secrets", "dumped"} =>
       \A m \in ToSet(cfg.mounts) : m = all[Min({i \in DOMAIN all : SameMount(all[i], m)})]

\* At least one of what README.md says of the merge of mounts and of network
\* policies: a state that violates this contradicts both.
MergeAsDocumented == NetworkPolicyDominant \/ FirstMountWins

-----------------------------------------------------------------------------
(* The agent's settings.                                                   *)

ModelFile == Parsed(given, ModelPath(req.agent))

\* The provider of a model, under its own name or as the agent calls it.
Providers ==
  {ParseModelID(req.model).provider, "google", "anthropic-vertex", "local",
   "google-vertex-anthropic", "custom"}

\* The model of an OpenCode provider, unless the user describes it.
Described(provider) ==
  LET entry == ProviderField(provider, <<"models", ParseModelID(req.model).name>>)
  IN IF \E f \in DOMAIN ModelFile : IsPrefix(entry, f) THEN {} ELSE {entry}

\* The fields the agent's model is written to.
ModelFields ==
  IF req.model = <<>> THEN {}
  ELSE CASE req.agent = "claude" -> {<<"model">>}
         [] req.agent = "cursor" -> {<<"model">>, <<"hasChangedDefaultModel">>}
         [] req.agent = "goose" ->
              {<<"GOOSE_MODEL">>, <<"GOOSE_PROVIDER">>, <<"OPENAI_BASE_URL">>}
         [] req.agent = "openclaw" ->
              {<<"agents", "defaults", "model">>} \cup {<<"models", "providers", p>> : p \in Providers}
         [] req.agent = "opencode" ->
              {<<"model">>}
                \cup UNION {{ProviderField(p, <<"name">>), ProviderField(p, <<"npm">>),
                            ProviderField(p, <<"options", "baseURL">>)} \cup Described(p)
                             : p \in Providers}

\* Those of its onboarding and MCP servers.
OtherFields ==
  CASE req.agent = "claude" ->
         {<<"hasCompletedOnboarding">>, <<"customApiKeyResponses", "approved">>,
          <<"projects", "sources", "hasTrustDialogAccepted">>}
           \cup {<<"mcpServers", n>> : n \in MCPNames(cfg)}
    [] req.agent = "cursor" -> {<<>>}
    [] req.agent = "openclaw" ->
         {<<"gateway", "auth">>, <<"gateway", "bind">>, <<"gateway", "mode">>,
          <<"gateway", "controlUi", "enabled">>, <<"gateway", "controlUi", "allowedOrigins">>}
           \cup {<<"mcp", "servers", n>> : n \in MCPNames(cfg)}
    [] OTHER -> {}

\* The fields of a file that kdn sets.
Written(path) ==
  (IF path = ModelPath(req.agent) THEN ModelFields ELSE {})
    \cup (IF path = OnboardingPath(req.agent) THEN OtherFields ELSE {})

HasField(doc, field) == \E f \in DOMAIN doc : IsPrefix(field, f)

Onboarding ==
  CASE req.agent = "claude" -> {<<"hasCompletedOnboarding">>}
    [] req.agent = "openclaw" -> {<<"gateway", "mode">>}
    [] req.agent = "goose" -> {<<"GOOSE_TELEMETRY_ENABLED">>}
    [] req.agent = "cursor" -> {<<"workspacePath">>}
    [] OTHER -> {}

ModelField ==
  IF req.agent = "goose" THEN <<"GOOSE_MODEL">>
  ELSE IF req.agent = "openclaw" THEN <<"agents", "defaults", "model">> ELSE <<"model">>

\* Every MCP command and server of the configuration is under the prefix.
HasMCP(doc, prefix, stdio, remote) ==
  LET has(e, kind) == LET f == Append(prefix, e.name)
                      IN f \in DOMAIN doc /\ doc[f] = <<kind, e.val>>
  IN /\ \A e \in ToSet(cfg.cmds) : has(e, stdio)
     /\ \A e \in ToSet(cfg.srvs) : has(e, remote)

\* All of the user's files and fields are as they were, but for what kdn writes, what
\* that is in and what is in it.
UserFieldsKept ==
  \A path \in DOMAIN given :
    /\ path \in DOMAIN settings
    /\ given[path] \notin {Broken, NullDoc} =>
         \A f \in DOMAIN given[path] :
           (\A w \in Written(path) : ~Conflict(f, w))
             => f \in DOMAIN settings[path] /\ settings[path][f] = given[path][f]

\* Claude asks about none of the keys, those the user approved included.
KeysApproved ==
  LET doc == settings[ClaudeJSONPath]
      approved == <<"customApiKeyResponses", "approved">>
  IN /\ secretEnvVars # {} => approved \in DOMAIN doc /\ "placeholder" \in doc[approved]
     /\ ClaudeJSONPath \in DOMAIN given =>
          LET old == Parsed(given, ClaudeJSONPath)
          IN approved \in DOMAIN old => approved \in DOMAIN doc /\ old[approved] \subseteq doc[approved]

\* The up to three edits of the settings leave the user's fields alone, and none of
\* them undoes what another one wrote: onboarding, API keys, model and MCP servers
\* are all there.
AgentIsSetUp ==
  pc = "create" /\ req.agent \in Agents =>
    /\ UserFieldsKept
    /\ \A f \in Onboarding : HasField(GetContent(settings, OnboardingPath(req.agent)), f)
    /\ req.model # <<>> => ModelField \in DOMAIN GetContent(settings, ModelPath(req.agent))
    /\ req.agent = "claude" =>
         KeysApproved /\ HasMCP(settings[ClaudeJSONPath], <<"mcpServers">>, "stdio", "sse")
    /\ req.agent = "openclaw" =>
         HasMCP(settings[OpenclawConfigPath], <<"mcp", "servers">>, "command", "streamable-http")

-----------------------------------------------------------------------------
(* What was created.                                                       *)

PodmanCreated == pc = "created" /\ req.runtime = "podman"

SandboxCreated == pc = "created" /\ req.runtime = "openshell"

\* Every feature is installed once, after the features it depends on; among
\* those that could be next the one with the smallest ID is.  An option the
\* user gives has that value, whatever the spelling of its key.
FeaturesInOrder ==
  PodmanCreated =>
    LET f == image.features
        before(i) == {d \in FeatureIDs : featureBaseID(d) \in Metadata[f[i].id].after}
    IN /\ Len(f) = Cardinality(FeatureIDs) /\ {f[i].id : i \in DOMAIN f} = FeatureIDs
       /\ \A i, j \in DOMAIN f : f[i].id \in before(j) => i < j
       /\ \A i, j \in DOMAIN f :
            i < j /\ Catalog[f[j].id].rank < Catalog[f[i].id].rank
              => \E d \in before(j) : d \notin {f[k].id : k \in 1..(i - 1)}
       /\ \A i \in DOMAIN f :
            LET user == cfg.features[f[i].id]
            IN \A k \in DOMAIN user :
                 \E x \in DOMAIN user :
                   /\ NormKey[x] = NormKey[k]
                   /\ f[i].options[NormKey[k]] = optionValue(Metadata[f[i].id].options[x], user[x])

\* The inputs of the i-th secret that no later secret or credential replaces.
Kept(i) ==
  LET later == UNION {{m.name : m \in ToSet(Map(used[j].item, used[j].value))} : j \in (i + 1)..Len(used)}
  IN {m \in ToSet(Map(used[i].item, used[i].value)) :
        m.name \notin later /\ Head(m.name) # "kubeconfig"}

\* The real value of every secret the workspace lists is where it has to be:
\* in OneCLI for each of its hosts, or in a provider that is attached to the
\* sandbox.  An OpenShell provider that is found is not compared, and only a
\* change of the store meanwhile can leave a secret out.
SecretsInjected ==
  /\ PodmanCreated =>
       \A i \in DOMAIN used : \A m \in Kept(i) :
         /\ podUp /\ m.name \in DOMAIN onecli
         /\ onecli[m.name].value = m.value /\ onecli[m.name].host = m.host
  /\ SandboxCreated /\ "secrets" \notin world.edited =>
       \A i \in DOMAIN used :
         LET provider == ProviderName[used[i].item.name]
         IN PlaceholderEnvs(used[i].item) # {} =>
              /\ provider \in ToSet(attached)
              /\ "providers" \notin world.edited =>
                   /\ provider \in DOMAIN world.providers
                   /\ \/ world.providers[provider].value = used[i].value
                      \/ provider \in listed.providers

\* A mount of the container, but for its options.
MountsTo(host, target) ==
  \E m \in container.mounts : m.host = host /\ m.target = target

\* The mount of a credential: of its paths as they are resolved.
MountsReal(a) == MountsTo(resolveHostPath(a.mount.host), resolveTargetPath(a.mount.target))

\* The workspace mounts the same again, spelled differently, or kdn's placeholder
\* itself is what it mounts.
MountedAnyway(a) ==
  \/ resolveHostPath(a.mount.host) = FakePath(a.cred)
  \/ \E m \in ToSet(cfg.mounts) :
       /\ ~SameMount(m, a.mount)
       /\ resolveHostPath(m.host) = resolveHostPath(a.mount.host)
       /\ resolveTargetPath(m.target) = resolveTargetPath(a.mount.target)

\* Podman: an intercepted credential is not mounted itself, its placeholder
\* is, and, unless the host's file changed meanwhile, OneCLI has the real token
\* for the very server the placeholder names.  OpenShell gets the file itself.
CredentialsFaked ==
  /\ PodmanCreated =>
       \A a \in ToSet(active) :
         /\ MountsTo(FakePath(a.cred), ContainerFilePath(a.cred))
         /\ MountsReal(a) => MountedAnyway(a)
         /\ a.fake.token = "placeholder"
         /\ "files" \notin world.edited /\ a.cred = "kubeconfig" =>
              \E n \in DOMAIN onecli : /\ onecli[n].host = a.fake.host
                                       /\ onecli[n].value = token(world.files[a.path])
  /\ PodmanCreated /\ "files" \notin world.edited =>
       \A c \in CredentialNames :
         Found(c) # <<>> /\ ~FakeFileFails(c, world.files, Head(Found(c)).path)
           => \E a \in ToSet(active) : a.cred = c
  /\ SandboxCreated =>
       /\ \A a \in ToSet(active) :
            remapContainerPath(ContainerFilePath(a.cred)) \in DOMAIN sandbox.files
       /\ \A c \in CredentialNames :
            Found(c) # <<>> /\ "files" \notin world.edited
              => \E a \in ToSet(active) : a.cred = c

\* Every variable the workspace sets and every one a secret needs is in podman's
\* environment; the workspace's value is replaced by OneCLI alone, and local
\* addresses bypass its proxy.  OpenShell's has what a secret needs and the
\* workspace's plain values that are not empty.
EnvironmentComplete ==
  /\ PodmanCreated =>
       /\ NamesOf(cfg.env) \cup secretEnvVars \cup DOMAIN OnecliEnv \cup DOMAIN image.env
            \subseteq DOMAIN container.env
       /\ \A e \in ToSet(cfg.env) :
            e.name \notin DOMAIN OnecliEnv => container.env[e.name] = e.val
       /\ DOMAIN container.env \cap DOMAIN noProxy # {}
  /\ SandboxCreated =>
       /\ secretEnvVars \subseteq DOMAIN sandbox.env
       /\ \A e \in ToSet(cfg.env) :
            "value" \in e.set /\ e.val # "" /\ e.name \notin secretEnvVars
              => e.name \in DOMAIN sandbox.env /\ sandbox.env[e.name] = e.val

LevelHosts == UNION {ToSet(levels[i].hosts) : i \in DOMAIN levels}

CredentialHosts ==
  UNION {HostPatterns(a.cred, world.files, a.path) : a \in ToSet(active)}

\* In deny mode OpenShell's policy allows the hosts any level lists, those of the
\* credentials that were intercepted, with the wildcard spelled out, and those of
\* the secrets, and no others.
PolicyComplete ==
  /\ SandboxCreated /\ sandbox.restricted
  /\ cfg.mode = "deny" /\ world.edited \cap {"files", "secrets"} = {}
  =>
    LET wildcard == "*-aiplatform.googleapis.com"
        regions == IF wildcard \in CredentialHosts THEN RegionHosts \cup extraVertexAIHosts ELSE {}
        injected == UNION {SecretHosts(used[i].item) : i \in DOMAIN used}
    IN sandbox.policy = LevelHosts \cup (CredentialHosts \ {wildcard}) \cup regions \cup injected
=============================================================================
