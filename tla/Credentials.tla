---------------------------- MODULE Credentials ----------------------------
(***************************************************************************)
(* The file credentials that are intercepted when a workspace mounts them  *)
(* (pkg/credential): gcloud's application default credentials and a        *)
(* token-based kubeconfig.  Detect finds the mount, FakeFile gives the     *)
(* placeholder that is mounted instead, Configure hands the real           *)
(* credential to OneCLI and HostPatterns names the hosts it needs.  Each   *)
(* of them reads the host's file again.                                    *)
(*                                                                         *)
(* A path is [root, up, name] with name a sequence of elements.  files is  *)
(* a function from resolved host paths to contents; a kubeconfig is        *)
(* [current, contexts, clusters, users], the last three functions from     *)
(* names to [cluster, user], to the server's host and to the token ("" if  *)
(* the user has none).                                                     *)
(***************************************************************************)
EXTENDS OneCLI, ConfigMerge

CONSTANT HomeDir

CredentialNames == {"gcloud", "kubeconfig"}

ContainerHome == <<"home", "agent">>

\* The path under one of its roots, some levels up.
Under(root, p) == SubSeq(root, 1, Len(root) - p.up) \o p.name

\* Only $HOME is resolved; a path under $SOURCES stays what it is.
resolveTarget(t) ==
  CASE t.root = "HOME" -> Under(ContainerHome, t)
    [] t.root = "/" -> t.name
    [] OTHER -> <<t.root, t.up, t.name>>

resolveHost(h) ==
  CASE h.root = "HOME" -> Under(HomeDir, h)
    [] h.root = "/" -> h.name
    [] OTHER -> <<h.root>> \o h.name

ContainerDir(c) ==
  ContainerHome \o (IF c = "gcloud" THEN <<".config", "gcloud">> ELSE <<".kube">>)

FileName(c) ==
  IF c = "gcloud" THEN "application_default_credentials.json" ELSE "config"

ContainerFilePath(c) == Append(ContainerDir(c), FileName(c))

-----------------------------------------------------------------------------
(* The kubeconfig.                                                         *)

loads(files, path) == path \in DOMAIN files /\ files[path] # Broken

hasCluster(k) ==
  /\ k.current \in DOMAIN k.contexts
  /\ k.contexts[k.current].cluster \in DOMAIN k.clusters

hasUser(k) ==
  /\ k.current \in DOMAIN k.contexts
  /\ k.contexts[k.current].user \in DOMAIN k.users

serverHost(k) == k.clusters[k.contexts[k.current].cluster]

token(k) == k.users[k.contexts[k.current].user]

isTokenBased(k) == hasUser(k) /\ token(k) # ""

-----------------------------------------------------------------------------
(* The Credential interface.  Mounts are a sequence; a detection is the    *)
(* index of the intercepted mount, 0 if there is none.                     *)

CandidateFile(c, m) ==
  IF resolveTarget(m.target) = ContainerDir(c)
  THEN Append(resolveHost(m.host), FileName(c)) ELSE resolveHost(m.host)

Candidates(c, mounts) ==
  {i \in DOMAIN mounts :
     resolveTarget(mounts[i].target) \in {ContainerDir(c), ContainerFilePath(c)}}

\* gcloud takes the first candidate unread; kubeconfig the first one that
\* loads, and nothing if that one does not use a token.
Detect(c, mounts, files) ==
  LET usable == IF c = "gcloud" THEN Candidates(c, mounts)
                ELSE {i \in Candidates(c, mounts) : loads(files, CandidateFile(c, mounts[i]))}
      first == CHOOSE i \in usable : \A j \in usable : i <= j
  IN IF usable = {} THEN 0
     ELSE IF c = "kubeconfig" /\ ~isTokenBased(files[CandidateFile(c, mounts[first])]) THEN 0
     ELSE first

FakeFileFails(c, files, path) ==
  c = "kubeconfig" /\ (~loads(files, path) \/ ~hasCluster(files[path]))

\* The current context alone, its user's token replaced.
FakeFile(c, files, path) ==
  IF c = "gcloud" THEN [token |-> "placeholder", host |-> ""]
  ELSE [token |-> "placeholder", host |-> serverHost(files[path])]

ConfigureFails(c, files, path) ==
  \/ ~loads(files, path)
  \/ c = "kubeconfig" /\ \/ ~hasCluster(files[path]) \/ ~hasUser(files[path])
                         \/ serverHost(files[path]) = ""

\* gcloud connects the vertex-ai app; kubeconfig registers a secret for the
\* API server, whatever the current user's token then is.
Configure(db, c, files, path) ==
  IF c = "gcloud" THEN ConnectApp(db, "vertex-ai", files[path])
  ELSE ProvisionOne(db, Input(<<"kubeconfig", files[path].current>>, token(files[path]),
                              serverHost(files[path]), "", "Authorization"))

vertexAIHosts ==
  {"oauth2.googleapis.com", "aiplatform.googleapis.com", "*-aiplatform.googleapis.com"}

HostPatterns(c, files, path) ==
  IF c = "gcloud" THEN vertexAIHosts
  ELSE IF loads(files, path) /\ hasCluster(files[path]) THEN {serverHost(files[path])} \ {""}
  ELSE {}
=============================================================================
