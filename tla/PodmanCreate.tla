---------------------------- MODULE PodmanCreate ----------------------------
(***************************************************************************)
(* Create of the podman runtime (pkg/runtime/podman/create.go), one action *)
(* per command it runs or file it reads: the image with its devcontainer   *)
(* features, the pod of OneCLI, the credentials that are intercepted and   *)
(* handed to OneCLI with the secrets, and the workspace container.         *)
(* PodmanWorkspace has what happens to the pod afterwards.                 *)
(***************************************************************************)
EXTENDS WorkspaceAdd

CONSTANT OnecliEnv    \* the environment OneCLI gives the container

VARIABLES
  image,      \* what the image holds: [env, features, settings]
  podUp,      \* the pod exists
  onecli,     \* the store of the pod's OneCLI
  container   \* the workspace container: [env, mounts, ports]

podVars == <<image, podUp, onecli, container>>

PodmanInit ==
  /\ image = [env |-> Nothing, features |-> <<>>, settings |-> Nothing]
  /\ podUp = FALSE /\ onecli = Nothing /\ container = Nothing

PodmanStep(from, to) == req.runtime = "podman" /\ Step(from, to)

PodmanUnchanged ==
  UNCHANGED <<world, edits, req, levels, cfg, used, given, settings>>

-----------------------------------------------------------------------------
(* The image.                                                              *)

ImageLoads(name) == name \in DOMAIN world.images /\ world.images[name] # Broken

PodmanLoadConfig ==
  /\ PodmanStep("create", "features")
  /\ ImageLoads("image") /\ ImageLoads(req.agent)
  /\ image' = [image EXCEPT !.env = world.images[req.agent]]
  /\ UNCHANGED <<podUp, onecli, container, loopVars>> /\ PodmanUnchanged

FeatureIDs == DOMAIN cfg.features

Metadata == [id \in FeatureIDs |-> parseMetadata(id)]

FetchFails ==
  FromMapFails(FeatureIDs) \/ \E id \in FeatureIDs : DownloadFails(id)

\* All are fetched, then ordered.
PrepareFeatures ==
  /\ PodmanStep("features", "options")
  /\ ~FetchFails /\ ~OrderFails(FeatureIDs, Metadata)
  /\ pending' = Ordered(FeatureIDs, Metadata)
  /\ UNCHANGED <<podVars, detected, active>> /\ PodmanUnchanged

\* The options of the next feature, in the order of installation.
MergeFeatureOptions ==
  /\ PodmanStep("options", "options")
  /\ pending # <<>>
  /\ LET id == Head(pending)
         specs == Metadata[id].options
     IN /\ ~MergeOptionsFails(specs, cfg.features[id])
        /\ \E o \in MergeOptions(specs, cfg.features[id]) :
             image' = [image EXCEPT !.features = Append(@, [id |-> id, options |-> o])]
  /\ pending' = Tail(pending)
  /\ UNCHANGED <<podUp, onecli, container, detected, active>> /\ PodmanUnchanged

\* The Containerfile: features as root in their order, then the settings.
BuildImage ==
  /\ PodmanStep("options", "pod")
  /\ pending = <<>>
  /\ image' = [image EXCEPT !.settings = settings]
  /\ UNCHANGED <<podUp, onecli, container, loopVars>> /\ PodmanUnchanged

-----------------------------------------------------------------------------
(* The pod, the credentials and OneCLI.                                    *)

KubePlay ==
  /\ PodmanStep("pod", "detect")
  /\ podUp' = TRUE
  /\ pending' = CredentialList
  /\ UNCHANGED <<image, onecli, container, detected, active>> /\ PodmanUnchanged

DetectCredential ==
  /\ req.runtime = "podman" /\ pc = "detect" /\ pending # <<>>
  /\ detected' = Found(Head(pending))
  /\ IF detected' = <<>> THEN pc' = pc /\ pending' = Tail(pending)
     ELSE pc' = "fake" /\ pending' = pending
  /\ UNCHANGED <<podVars, active>> /\ PodmanUnchanged

\* The file is read again; if that fails the credential is skipped.
FakeCredential ==
  /\ PodmanStep("fake", "detect")
  /\ LET d == Head(detected)
         fake == FakeFile(d.cred, world.files, d.path)
     IN active' = IF FakeFileFails(d.cred, world.files, d.path) THEN active
                  ELSE Append(active, [cred |-> d.cred, path |-> d.path,
                                       mount |-> d.mount, fake |-> fake])
  /\ pending' = Tail(pending) /\ detected' = <<>>
  /\ UNCHANGED podVars /\ PodmanUnchanged

SetupOnecli ==
  /\ PodmanStep("detect", "configure")
  /\ pending = <<>>
  /\ onecli' = ProvisionSecrets(onecli, onecliSecrets)
  /\ pending' = active
  /\ UNCHANGED <<image, podUp, container, detected, active>> /\ PodmanUnchanged

\* The file is read once more.
ConfigureCredential ==
  /\ PodmanStep("configure", "configure")
  /\ pending # <<>>
  /\ LET a == Head(pending)
     IN /\ ~ConfigureFails(a.cred, world.files, a.path)
        /\ onecli' = Configure(onecli, a.cred, world.files, a.path)
  /\ pending' = Tail(pending)
  /\ UNCHANGED <<image, podUp, container, detected, active>> /\ PodmanUnchanged

-----------------------------------------------------------------------------
(* The container.                                                          *)

\* The workspace's variables with a value; a later argument wins.
WorkspaceEnv == [n \in NamesOf(cfg.env) |-> Entry(cfg.env, n).val]

noProxy == [NO_PROXY |-> "local", no_proxy |-> "local"]

\* Mutant: the placeholders come last, over the workspace's own values.
ContainerEnv_placeholdersWin ==
  Over([n \in secretEnvVars |-> "placeholder"],
       Over(OnecliEnv, Over(WorkspaceEnv, Over(image.env, noProxy))))

\* OneCLI overrides the workspace; a placeholder is added unless the workspace
\* sets the variable, whether OneCLI does or not.
ContainerEnv ==
  LET placeholders == [n \in secretEnvVars \ DOMAIN WorkspaceEnv |-> "placeholder"]
      set == Over(OnecliEnv, WorkspaceEnv)
      bypass == IF DOMAIN set \cap DOMAIN noProxy = {} THEN noProxy ELSE Nothing
  IN Over(placeholders, Over(set, Over(image.env, bypass)))

resolveHostPath(h) ==
  CASE h.root = "SOURCES" -> Under(<<"src">>, h)
    [] h.root = "HOME" -> Under(HomeDir, h)
    [] OTHER -> h.name

resolveTargetPath(t) ==
  CASE t.root = "SOURCES" -> Under(<<"workspace", "sources">>, t)
    [] t.root = "HOME" -> Under(ContainerHome, t)
    [] OTHER -> t.name

mountVolumeArg(m) ==
  [host |-> resolveHostPath(m.host), target |-> resolveTargetPath(m.target), ro |-> m.ro]

FakePath(c) == <<"storage", "credentials", c>>

\* Mutant: only mounts of the file itself are recognized.
Intercepted_file(m) ==
  \E a \in ToSet(active) : resolveTargetPath(m.target) = ContainerFilePath(a.cred)

Intercepted(m) ==
  \E a \in ToSet(active) : a.mount.host = m.host /\ a.mount.target = m.target

ContainerMounts ==
  {[host |-> FakePath(a.cred), target |-> ContainerFilePath(a.cred), ro |-> TRUE] : a \in ToSet(active)}
    \cup {[host |-> <<"src">>, target |-> <<"workspace", "sources">>, ro |-> FALSE]}
    \cup {mountVolumeArg(m) : m \in {x \in ToSet(cfg.mounts) : ~Intercepted(x)}}

CollectPorts == ToSet(cfg.ports) \cup DefaultPorts(req.agent)

CreateContainer ==
  /\ PodmanStep("configure", "created")
  /\ pending = <<>>
  /\ container' = [env |-> ContainerEnv, mounts |-> ContainerMounts, ports |-> CollectPorts]
  /\ UNCHANGED <<image, podUp, onecli, loopVars>> /\ PodmanUnchanged

\* The configuration files, the features and the credentials are as they
\* have to be.
PodmanAccepts ==
  /\ pc = "create" => ImageLoads("image") /\ ImageLoads(req.agent)
  /\ pc = "features" => ~FetchFails /\ ~OrderFails(FeatureIDs, Metadata)
  /\ pc = "options" /\ pending # <<>> =>
       ~MergeOptionsFails(Metadata[Head(pending)].options, cfg.features[Head(pending)])
  /\ pc = "configure" /\ pending # <<>> =>
       ~ConfigureFails(Head(pending).cred, world.files, Head(pending).path)

\* Where a command of podman is run or a request is made to OneCLI.
RunsCommand == pc = "pod" \/ (pc \in {"options", "detect", "configure"} /\ pending = <<>>)

\* A pod is left when its removal is refused, which is ignored, or when kube
\* play failed after creating it: its removal is not yet deferred.
PodmanFails ==
  /\ req.runtime = "podman"
  /\ ~PodmanAccepts \/ RunsCommand
  /\ pc' = "failed"
  /\ podUp' \in {FALSE, podUp \/ pc = "pod"}
  /\ UNCHANGED <<image, onecli, container, loopVars>> /\ PodmanUnchanged

PodmanNext ==
  \/ PodmanLoadConfig
  \/ PrepareFeatures
  \/ MergeFeatureOptions
  \/ BuildImage
  \/ KubePlay
  \/ DetectCredential
  \/ FakeCredential
  \/ SetupOnecli
  \/ ConfigureCredential
  \/ CreateContainer
  \/ PodmanFails
=============================================================================
