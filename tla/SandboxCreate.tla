---------------------------- MODULE SandboxCreate ----------------------------
(***************************************************************************)
(* Create of the OpenShell runtime (pkg/runtime/openshell/create.go): the  *)
(* credentials are taken out of the mounts and their hosts allowed, a      *)
(* provider is made for each secret, and the sandbox is created, filled    *)
(* and given its network policy.  A failure leaves the sandbox behind.     *)
(* OpenShell has the gateway and what happens to the sandbox afterwards.   *)
(***************************************************************************)
EXTENDS WorkspaceAdd

CONSTANT ProviderName    \* the provider's name for a secret's name

VARIABLES
  listed,    \* the names of the providers and the secrets, when last listed
  attached,  \* the providers to attach
  sandbox    \* [files, settings, env, ports, restricted, policy, endpoints]

sandboxVars == <<listed, attached, sandbox>>

SandboxInit ==
  /\ listed = [providers |-> {}, secrets |-> Nothing]
  /\ attached = <<>> /\ sandbox = Nothing

SandboxStep(from, to) == req.runtime = "openshell" /\ Step(from, to)

\* All but cfg and the providers of the gateway stay what they are.
SandboxUnchanged ==
  UNCHANGED <<edits, req, levels, used, given, settings>>

-----------------------------------------------------------------------------
(* Credentials.                                                            *)

\* The gateway runs: OpenShell has how it is started.
SandboxGateway ==
  /\ SandboxStep("create", "intercept")
  /\ pending' = CredentialList
  /\ UNCHANGED <<world, cfg, detected, active, sandboxVars>> /\ SandboxUnchanged

removeMountFromConfig(c, m) ==
  [c EXCEPT !.mounts = RemoveAt(@, CHOOSE i \in DOMAIN @ : @[i] = m)]

InterceptCredential ==
  /\ req.runtime = "openshell" /\ pc = "intercept" /\ pending # <<>>
  /\ detected' = Found(Head(pending))
  /\ IF detected' = <<>> THEN pc' = pc /\ pending' = Tail(pending) /\ cfg' = cfg
     ELSE /\ pc' = "hosts" /\ pending' = pending
          /\ cfg' = removeMountFromConfig(cfg, Head(detected').mount)
  /\ UNCHANGED <<world, active, sandboxVars>> /\ SandboxUnchanged

\* The endpoints of vertexAIRegions, two of them.
RegionHosts ==
  {"us-central1-aiplatform.googleapis.com", "europe-west1-aiplatform.googleapis.com"}

extraVertexAIHosts == {"storage.googleapis.com"}

\* OpenShell knows no "*-" wildcard.
expandVertexAIWildcards(hosts) ==
  LET wildcard == "*-aiplatform.googleapis.com"
  IN IF wildcard \notin hosts THEN hosts
     ELSE (hosts \ {wildcard}) \cup RegionHosts \cup extraVertexAIHosts

addHostsToNetworkConfig(c, hosts) ==
  [c EXCEPT !.hosts = @ \o SetToSeq(hosts \ ToSet(@))]

\* The file is read again for its hosts.
AddCredentialHosts ==
  /\ SandboxStep("hosts", "intercept")
  /\ LET d == Head(detected)
         hosts == expandVertexAIWildcards(HostPatterns(d.cred, world.files, d.path))
     IN /\ cfg' = addHostsToNetworkConfig(cfg, hosts)
        /\ active' = Append(active, d)
  /\ pending' = Tail(pending) /\ detected' = <<>>
  /\ UNCHANGED <<world, sandboxVars>> /\ SandboxUnchanged

-----------------------------------------------------------------------------
(* Providers.                                                              *)

ListProviders ==
  /\ SandboxStep("intercept", "providers")
  /\ pending = <<>>
  /\ listed' = [providers |-> DOMAIN world.providers,
                secrets |-> [n \in DOMAIN world.secrets |-> world.secrets[n].item]]
  /\ pending' = cfg.secrets
  /\ UNCHANGED <<world, cfg, detected, active, attached, sandbox>> /\ SandboxUnchanged

providerType(t) == IF t \in {"github", "anthropic"} THEN t ELSE "generic"

Reused(name) == ProviderName[name] \in listed.providers

\* A secret that was not listed, or whose type is unknown or sets no variable,
\* gets no provider.
Skipped(name) ==
  \/ name \notin DOMAIN listed.secrets
  \/ ~Reused(name) /\ PlaceholderEnvs(listed.secrets[name]) = {}

ProviderFails(name) ==
  /\ name \in DOMAIN listed.secrets /\ ~Reused(name)
  /\ \/ name \notin DOMAIN world.secrets
     \/ ~Skipped(name) /\ ProviderName[name] \in DOMAIN world.providers

\* A provider that exists is attached as it is; a new one gets the secret's
\* present value.
EnsureProvider ==
  /\ SandboxStep("providers", "providers")
  /\ pending # <<>>
  /\ LET name == Head(pending)
         provider == ProviderName[name]
         item == listed.secrets[name]
     IN /\ ~ProviderFails(name)
        /\ attached' = IF Skipped(name) THEN attached ELSE Append(attached, provider)
        /\ world' = IF Skipped(name) \/ Reused(name) THEN world
                    ELSE [world EXCEPT !.providers =
                            Updated(@, provider, [type |-> providerType(item.type),
                                                  envs |-> PlaceholderEnvs(item),
                                                  value |-> world.secrets[name].value])]
  /\ pending' = Tail(pending)
  /\ UNCHANGED <<cfg, detected, active, listed, sandbox>> /\ SandboxUnchanged

-----------------------------------------------------------------------------
(* The sandbox.                                                            *)

sandboxImageFails(agent) == 
  agent \notin {"claude", "opencode", "openclaw", "codex", "copilot", "gemini", "ollama"}

CreateRefused == req.driver # "vm" /\ sandboxImageFails(req.agent)

CreateSandbox ==
  /\ SandboxStep("providers", "upload")
  /\ pending = <<>> /\ ~CreateRefused
  /\ sandbox' = [files |-> Nothing, settings |-> Nothing, env |-> Nothing, ports |-> {},
                 policy |-> {}, endpoints |-> {}, restricted |-> FALSE]
  /\ pending' = active
  /\ UNCHANGED <<world, cfg, detected, active, listed, attached>> /\ SandboxUnchanged

remapContainerPath(p) ==
  IF IsPrefix(ContainerHome, p)
  THEN <<"sandbox">> \o SubSeq(p, Len(ContainerHome) + 1, Len(p)) ELSE p

UploadFails(a) == a.path \notin DOMAIN world.files

\* The file as it is now.
UploadCredential ==
  /\ SandboxStep("upload", "upload")
  /\ pending # <<>>
  /\ ~UploadFails(Head(pending))
  /\ LET a == Head(pending)
     IN sandbox' = [sandbox EXCEPT !.files =
                      Updated(@, remapContainerPath(ContainerFilePath(a.cred)), world.files[a.path])]
  /\ pending' = Tail(pending)
  /\ UNCHANGED <<world, cfg, detected, active, listed, attached>> /\ SandboxUnchanged

\* Only plain values, and the placeholders after them.
SandboxEnv ==
  LET plain == {n \in NamesOf(cfg.env) : /\ "value" \in Entry(cfg.env, n).set
                                         /\ Entry(cfg.env, n).val # ""}
  IN Over([n \in secretEnvVars |-> "placeholder"], [n \in plain |-> Entry(cfg.env, n).val])

collectPorts == ToSet(cfg.ports) \cup DefaultPorts(req.agent)

WriteSandboxFiles ==
  /\ SandboxStep("upload", "policy")
  /\ pending = <<>>
  /\ sandbox' = [sandbox EXCEPT !.settings = settings, !.env = SandboxEnv, !.ports = collectPorts]
  /\ UNCHANGED <<world, cfg, loopVars, listed, attached>> /\ SandboxUnchanged

SecretHosts(item) ==
  IF item.type = TypeOther THEN ToSet(item.hosts)
  ELSE IF item.type \in DOMAIN Services THEN ToSet(Services[item.type].patterns) ELSE {}

\* The store is listed again.
collectSecretHosts ==
  UNION {SecretHosts(world.secrets[n].item) : n \in ToSet(cfg.secrets) \cap DOMAIN world.secrets}

collectAllRegistryHosts == UNION {ToSet(Services[t].patterns) : t \in DOMAIN Services}

\* Mutant: the hosts of all services are added whatever the mode is.
mergeHosts_anyMode == ToSet(cfg.hosts) \cup collectAllRegistryHosts

mergeHosts ==
  ToSet(cfg.hosts) \cup
    (IF cfg.mode = "deny" THEN collectSecretHosts ELSE collectAllRegistryHosts)

\* The host of the model's URL, if it can be resolved in the sandbox.
collectModelEndpoints ==
  LET url == IF req.model = <<>> THEN NoURL
             ELSE RewriteURLWithHost(ParseModelID(req.model).url, ContainerHostname)
  IN IF url = NoURL THEN {} ELSE {url.host}

\* A sandbox without a spec takes no policy, which is not an error.
ApplyNetworkPolicy ==
  /\ SandboxStep("policy", "created")
  /\ \E supported, resolved \in BOOLEAN :
       sandbox' = [sandbox EXCEPT
                     !.restricted = supported,
                     !.policy = IF supported THEN mergeHosts ELSE {},
                     !.endpoints = IF supported /\ resolved THEN collectModelEndpoints ELSE {}]
  /\ UNCHANGED <<world, cfg, loopVars, listed, attached>> /\ SandboxUnchanged

\* No secret and no credential has gone, and there is an image for the agent.
SandboxAccepts ==
  /\ pc = "providers" /\ pending # <<>> => ~ProviderFails(Head(pending))
  /\ pc = "providers" /\ pending = <<>> => ~CreateRefused
  /\ pc = "upload" /\ pending # <<>> => ~UploadFails(Head(pending))

\* Where a command of OpenShell is run.
RunsOpenShell ==
  \/ pc \in {"create", "policy"}
  \/ pc \in {"intercept", "providers", "upload"} /\ pending = <<>>

\* A command for one secret or one credential may fail as well.
RunsInLoop ==
  \/ pc = "upload" /\ pending # <<>>
  \/ pc = "providers" /\ pending # <<>> /\ ~Skipped(Head(pending)) /\ ~Reused(Head(pending))

SandboxFails ==
  /\ req.runtime = "openshell"
  /\ ~SandboxAccepts \/ RunsOpenShell \/ RunsInLoop
  /\ pc' = "failed"
  /\ UNCHANGED <<world, cfg, loopVars, sandboxVars>> /\ SandboxUnchanged

SandboxNext ==
  \/ SandboxGateway
  \/ InterceptCredential
  \/ AddCredentialHosts
  \/ ListProviders
  \/ EnsureProvider
  \/ CreateSandbox
  \/ UploadCredential
  \/ WriteSandboxFiles
  \/ ApplyNetworkPolicy
  \/ SandboxFails
=============================================================================
