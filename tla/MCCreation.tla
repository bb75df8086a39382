----------------------------- MODULE MCCreation -----------------------------
(***************************************************************************)
(* Instances of Creation for TLC: what the files, the stores and the       *)
(* arguments of each command are.                                          *)
(***************************************************************************)
EXTENDS Creation

-----------------------------------------------------------------------------
(* Secrets.                                                                *)

Service(patterns, header, vars_) ==
  [patterns |-> patterns, path |-> "", header |-> header, envs |-> vars_]

ServiceTable ==
  [github |-> Service(<<"api.github.com">>, "Authorization", {"GH_TOKEN", "GITHUB_TOKEN"}),
   anthropic |-> Service(<<"api.anthropic.com">>, "x-api-key", {"ANTHROPIC_API_KEY"})]

SegmentTable ==
  [s |-> <<"s">>, sa |-> <<"s", "a">>, t |-> <<"t">>, T |-> <<"T">>, bad |-> <<"bad">>,
   bare |-> <<"bare">>, odd |-> <<"odd">>]

SanitizedTable ==
  ("a" :> "a") @@ ("b" :> "b") @@ ("*" :> "") @@ ("a." :> "a")
    @@ ("api.github.com" :> "api-github-com") @@ ("api.anthropic.com" :> "api-anthropic-com")

\* "t" and "T" have one provider.
ProviderTable ==
  [s |-> "kdn-s", sa |-> "kdn-s-a", t |-> "kdn-t", T |-> "kdn-t", bad |-> "kdn-bad",
   bare |-> "kdn-bare", odd |-> "kdn-odd"]

Item(name, type, hosts, vars_) ==
  [name |-> name, type |-> type, hosts |-> hosts, path |-> "", header |-> "h", envs |-> vars_]

Stored(name, type, hosts, vars_, value) ==
  name :> [item |-> Item(name, type, hosts, vars_), value |-> value]

\* The inputs of "s" for its hosts and of "sa" have one name.
SecretFile ==
  Stored("s", "other", <<"a", "b">>, {"S_TOKEN"}, "v1")
    @@ Stored("sa", "other", <<"b">>, {"S_TOKEN"}, "v2")
    @@ Stored("t", "github", <<>>, {}, "v3") @@ Stored("T", "anthropic", <<>>, {}, "v4")
    @@ Stored("bare", "other", <<>>, {}, "v5")
    @@ Stored("bad", "other", <<"a", "a.">>, {}, "v6") @@ Stored("odd", "gone", <<>>, {}, "v7")

Renewed == Stored("t", "github", <<>>, {}, "new") @@ Stored("s", "other", <<"b">>, {"S_TOKEN"}, "new")

ProxyEnv == [HTTPS_PROXY |-> "onecli", USER_VAR |-> "onecli"]

-----------------------------------------------------------------------------
(* Features.                                                               *)

File(path, content) == [path |-> path, type |-> "file", up |-> 0, content |-> content]

Dir(path) == [path |-> path, type |-> "dir", up |-> 0, content |-> NoDefault]

Meta(after, options) == File(MetadataFile, [after |-> after, options |-> options])

Text(v) == [type |-> "string", val |-> v]

String(default, enum) == [type |-> "string", default |-> default, enum |-> enum]

\* A blob stands for its digest.
Layer(entries, digest, blob) ==
  [algorithm |-> "sha256", digest |-> digest, blob |-> blob, entries |-> entries]

Remote(anonymous, challenge, granted, authorized, layers) ==
  [anonymous |-> anonymous, challenge |-> challenge, granted |-> granted,
   authorized |-> authorized, layers |-> layers]

Public(entries) == Remote(200, FALSE, FALSE, 401, <<Layer(entries, "d1", "d1")>>)

OCI(base, rank, remote) ==
  [kind |-> "oci", base |-> base, rank |-> rank, remote |-> remote, entries |-> <<>>]

Local(base, rank, entries) ==
  [kind |-> "local", base |-> base, rank |-> rank, remote |-> NoDefault, entries |-> entries]

KeyNames == [version |-> "VERSION", Version |-> "VERSION", extra |-> "EXTRA"]

Versioned == [version |-> String(Text("latest"), {}), extra |-> String(NoDefault, {"x", "y"})]

\* The digest and the base of an ID are not part of the dependencies' names.
FeatureTable ==
  ("go" :> OCI("go", 1, Public(<<Dir("d"), Meta({"node", "absent"}, Versioned)>>)))
    @@ ("node:1" :> OCI("node", 2, Remote(401, TRUE, TRUE, 200,
         <<Layer(<<File("install.sh", "i"), Meta({}, <<>>)>>, "d1", "d1"),
           Layer(<<Meta({"tool"}, Versioned)>>, "d2", "d2")>>)))
    @@ ("node:2" :> OCI("node", 3, Public(<<Meta({}, <<>>)>>)))
    @@ ("rust" :> OCI("rust", 4, Public(<<Meta({}, [version |-> String(Text("latest"), {}),
                                                  Version |-> String(Text("one"), {})])>>)))
    @@ ("tool" :> Local("tool", 5, <<Dir("d"), Meta({}, <<>>)>>))
    @@ ("loop" :> Local("loop", 6, <<Meta({"pool"}, <<>>)>>))
    @@ ("pool" :> Local("pool", 7, <<Meta({"loop"}, <<>>)>>))
    @@ ("http" :> [kind |-> "http", base |-> "http", rank |-> 8, remote |-> NoDefault, entries |-> <<>>])
    @@ ("torn" :> OCI("torn", 9, Remote(200, FALSE, FALSE, 401, <<Layer(<<Meta({}, <<>>)>>, "d1", "d0")>>)))
    @@ ("shut" :> OCI("shut", 10, Remote(401, TRUE, FALSE, 200, <<>>)))
    @@ ("slip" :> OCI("slip", 11, Public(<<[Meta({}, <<>>) EXCEPT !.up = 1]>>)))
    @@ ("link" :> Local("link", 12, <<[Dir("l") EXCEPT !.type = "link"], Meta({}, <<>>)>>))
    @@ ("void" :> Local("void", 13, <<Dir("d")>>))
    @@ ("flag" :> Local("flag", 14, <<Meta({}, [version |-> [type |-> "boolean", default |-> [type |-> "boolean", val |-> "true"], enum |-> {}]])>>))

-----------------------------------------------------------------------------
(* Configurations and files.                                               *)

Path(root, name) == [root |-> root, up |-> 0, name |-> name]

Home == <<"home", "user">>

Mount(host, target) == [host |-> host, target |-> target, ro |-> FALSE]

GcloudDir == Path("HOME", <<".config", "gcloud">>)

KubeDir == Path("HOME", <<".kube">>)

KubeFile == Path("/", <<"home", "user", "alt">>)

Value(name, v) == [name |-> name, set |-> {"value"}, val |-> v]

FromSecret(name, v) == [name |-> name, set |-> {"secret"}, val |-> v]

LocalURL == [host |-> "localhost", rest |-> "x"]

RemoteURL == [host |-> "example.com", rest |-> "y"]

MCP(name, url) == [name |-> name, val |-> url]

Kube(server, tok) ==
  [current |-> "ctx", contexts |-> [ctx |-> [cluster |-> "c", user |-> "u"]],
   clusters |-> [c |-> server], users |-> [u |-> tok]]

GcloudPath == Home \o <<".config", "gcloud", "application_default_credentials.json">>

KubePath == Home \o <<".kube", "config">>

AltPath == Home \o <<"alt">>

HostFiles == (GcloudPath :> "adc") @@ (KubePath :> Kube("k8s", "tok"))

Empty ==
  [workspace |-> NoConfig, projects |-> <<>>, agents |-> <<>>, secrets |-> SecretFile,
   settings |-> <<>>, files |-> <<>>, images |-> <<>>, providers |-> <<>>, edited |-> {}]

With(c) == [Empty EXCEPT !.workspace = c]

Req(agent, model, runtime) ==
  [project |-> "proj", agent |-> agent, model |-> model, runtime |-> runtime,
   dump |-> FALSE, driver |-> "podman"]

Case(world_, edits_, req_) == [world |-> world_, edits |-> edits_, req |-> req_]

Edit(part, value) == [part |-> part, value |-> value]

\* A workspace that uses everything.
Rich ==
  [EmptyConfig EXCEPT
     !.env = <<Value("USER_VAR", "mine"), FromSecret("S_TOKEN", "sec"), Value("EMPTY", "")>>,
     !.mounts = <<Mount(GcloudDir, GcloudDir), Mount(KubeDir, KubeDir),
                  Mount([root |-> "SOURCES", up |-> 1, name |-> <<"lib">>],
                        [root |-> "SOURCES", up |-> 1, name |-> <<"lib">>])>>,
     !.skills = <<Path("HOME", <<"skills", "one">>), Path("/", <<"two">>)>>,
     !.secrets = <<"s", "t">>,
     !.cmds = <<MCP("m", LocalURL)>>, !.srvs = <<MCP("n", RemoteURL)>>,
     !.mode = "deny", !.hosts = <<"a", "*-aiplatform.googleapis.com">>, !.ports = <<8080, 18789>>,
     !.features = ("go" :> [version |-> Text("1")]) @@ ("node:1" :> [extra |-> Text("y")]) @@ ("tool" :> <<>>)]

RichWorld ==
  [With(Rich) EXCEPT
     !.projects = ("" :> [EmptyConfig EXCEPT !.env = <<Value("GITHUB_TOKEN", "own")>>, !.secrets = <<"bare">>]),
     !.files = HostFiles,
     !.settings = [claude |-> (ClaudeJSONPath :>
        ((<<"customApiKeyResponses", "approved">> :> {"key"}) @@ (<<"theme">> :> "dark")
           @@ (<<"mcpServers", "own">> :> "entry")))]]

-----------------------------------------------------------------------------
(* All combinations of levels, dumped.  One has a pair of paths twice.     *)

LevelChoices ==
  <<NoConfig,
    [EmptyConfig EXCEPT !.env = <<Value("A", "1"), FromSecret("B", "s")>>,
       !.mounts = <<Mount(KubeDir, KubeDir)>>, !.cmds = <<MCP("m", LocalURL)>>,
       !.mode = "deny", !.hosts = <<"a">>, !.ports = <<1, 2>>, !.secrets = <<"s">>,
       !.features = "go" :> [version |-> Text("1")]],
    [EmptyConfig EXCEPT !.env = <<FromSecret("B", "t"), Value("C", "")>>,
       !.mounts = <<[Mount(KubeDir, KubeDir) EXCEPT !.ro = TRUE], Mount(KubeFile, KubeDir),
                    Mount(KubeDir, KubeDir)>>,
       !.srvs = <<MCP("m", RemoteURL), MCP("n", RemoteURL)>>,
       !.mode = "allow", !.hosts = <<"b", "a">>, !.ports = <<2, 1>>, !.secrets = <<"t", "s">>,
       !.skills = <<Path("/", <<"one">>)>>, !.features = "go" :> [version |-> Text("2")]],
    [EmptyConfig EXCEPT !.env = <<Value("A", "3")>>,
       !.cmds = <<MCP("n", LocalURL), MCP("o", LocalURL)>>, !.srvs = <<MCP("m", LocalURL)>>,
       !.skills = <<Path("/", <<"two">>), Path("/", <<"one">>)>>,
       !.features = "tool" :> <<>>]>>

\* The choice of the k-th level of the i-th combination.
Choice(i, k) == LevelChoices[((i \div (4 ^ k)) % 4) + 1]

AsFile(key, c) == IF c = NoConfig THEN <<>> ELSE key :> c

Dumps ==
  [n \in 1..256 |->
     LET i == n - 1
     IN Case([With(Choice(i, 0)) EXCEPT
                !.projects = AsFile("", Choice(i, 1)) @@ AsFile("proj", Choice(i, 2)),
                !.agents = AsFile("claude", Choice(i, 3))],
             <<>>, [Req("claude", <<>>, "podman") EXCEPT !.dump = TRUE])]

\* A configuration, a file or an argument that is refused.
Invalid == [EmptyConfig EXCEPT !.env = <<Value("A", "1"), Value("A", "2")>>]

Refused ==
  LET p == Req("claude", <<>>, "podman")
      secrets(list) == With([EmptyConfig EXCEPT !.secrets = list])
  IN <<Case(With(Broken), <<>>, p), Case(With(Invalid), <<>>, p),
       Case(With([EmptyConfig EXCEPT !.mounts = <<Mount(KubeDir, [KubeDir EXCEPT !.up = 1])>>]), <<>>, p),
       Case([Empty EXCEPT !.projects = Broken], <<>>, p),
       Case([Empty EXCEPT !.projects = "proj" :> Invalid], <<>>, p),
       Case([Empty EXCEPT !.agents = "claude" :> Invalid], <<>>, p),
       Case(secrets(<<"none">>), <<>>, p), Case(secrets(<<"s", "bad">>), <<>>, p),
       Case(secrets(<<"odd">>), <<>>, p),
       Case([Empty EXCEPT !.settings = [claude |-> Broken]], <<>>, p),
       Case([Empty EXCEPT !.settings = [claude |-> ClaudeJSONPath :> NullDoc]], <<>>, p),
       Case([Empty EXCEPT !.settings = [goose |-> GooseConfigPath :> Broken]], <<>>, Req("goose", <<>>, "podman")),
       Case(Empty, <<>>, Req("opencode", <<"openai", "">>, "podman")),
       Case(With([EmptyConfig EXCEPT !.skills = <<Path("/", <<"a", "one">>), Path("/", <<"b", "one">>)>>]), <<>>, p),
       Case([Empty EXCEPT !.images = [claude |-> Broken]], <<>>, p),
       Case(Empty, <<>>, Req("custom", <<>>, "podman")),
       Case(Empty, <<>>, Req("cursor", <<>>, "openshell"))>>

\* Every agent, with every kind of model and with settings of its own.
AgentList == <<"claude", "cursor", "goose", "openclaw", "opencode", "custom">>

Models ==
  <<<<>>, <<"big">>, <<"gemini", "g">>, <<"vertexai", "g">>, <<"ollama", "q">>,
    <<"openai", "o", LocalURL>>, <<"openai", "o", [host |-> "api.openai.com", rest |-> "y"]>>>>

OwnSettings(agent) ==
  IF agent \notin Agents THEN "any" :> (<<"k">> :> "v")
  ELSE (ModelPath(agent) :> ((<<"model">> :> "old") @@ (<<"own">> :> "kept")
          @@ (<<"mcp", "servers", "own">> :> "kept") @@ (<<"provider", "custom", "models", "o">> :> "kept")))
       @@ ("other" :> (<<"k">> :> "v"))

AgentCases ==
  [n \in 1..84 |->
     LET i == n - 1
         agent == AgentList[(i % 6) + 1]
         runtime == IF i < 42 THEN "podman" ELSE "openshell"
     IN Case([With([EmptyConfig EXCEPT !.cmds = <<MCP("m", LocalURL)>>, !.srvs = <<MCP("n", RemoteURL)>>,
                                       !.secrets = <<"sa">>]) EXCEPT
                !.settings = agent :> OwnSettings(agent),
                !.images = [custom |-> [USER_VAR |-> "img", NO_PROXY |-> "img"]]],
             <<>>,
             [Req(agent, Models[((i \div 6) % 7) + 1], runtime) EXCEPT !.driver = "vm"])]

\* What the user has where kdn needs an object, or an object where it sets a value.
OddSettings ==
  <<<<"claude", ClaudeJSONPath,
      At(<<"projects">>, "none") @@ At(<<"customApiKeyResponses">>, "none")
        @@ At(<<"mcpServers", "m", "type">>, "own") @@ At(<<"mcpServers", "own">>, "kept")>>,
    <<"claude", ClaudeJSONPath,
      At(<<"mcpServers">>, "none") @@ At(<<"projects", "sources", "k">>, "kept")>>,
    <<"goose", GooseConfigPath, At(<<"GOOSE_TELEMETRY_ENABLED", "k">>, "kept") @@ At(<<"GOOSE_MODEL", "k">>, "v")>>,
    <<"goose", GooseConfigPath, NullDoc>>,
    <<"openclaw", OpenclawConfigPath, At(<<"models">>, "none") @@ At(<<"gateway", "auth", "k">>, "v")>>,
    <<"openclaw", OpenclawConfigPath, At(<<"models", "providers", "x">>, "kept") @@ At(<<"gateway", "k">>, "kept")>>,
    <<"opencode", OpenCodeConfigPath, At(<<"provider">>, "none")>>,
    <<"opencode", OpenCodeConfigPath, NullDoc>>,
    <<"opencode", OpenCodeConfigPath,
      At(<<"provider", "custom", "models", "o", "name">>, "kept") @@ At(<<"provider", "x", "name">>, "kept")>>,
    <<"cursor", CursorTrustPath, At(<<"k">>, "v")>>>>

OddCases ==
  [i \in DOMAIN OddSettings |->
     Case([With([EmptyConfig EXCEPT !.cmds = <<MCP("m", LocalURL)>>, !.srvs = <<MCP("n", RemoteURL)>>,
                                    !.secrets = <<"sa">>]) EXCEPT
             !.settings = OddSettings[i][1] :> (OddSettings[i][2] :> OddSettings[i][3])],
          <<>>, Req(OddSettings[i][1], <<"openai", "o", LocalURL>>, "podman"))]

FeatureSets ==
  <<("go" :> <<>>) @@ ("node:1" :> [version |-> Text("3")]) @@ ("rust" :> <<>>) @@ ("tool" :> <<>>),
    ("rust" :> [version |-> Text("u"), Version |-> Text("w")]) @@ ("go" :> <<>>),
    ("node:1" :> <<>>) @@ ("node:2" :> <<>>), ("loop" :> <<>>) @@ ("pool" :> <<>>) @@ ("go" :> <<>>),
    "http" :> <<>>, "torn" :> <<>>, "shut" :> <<>>, "slip" :> <<>>, "link" :> <<>>, "void" :> <<>>,
    "flag" :> [version |-> Text("True")], "flag" :> [version |-> Text("yes")], "go" :> [extra |-> Text("z")], "go" :> [unknown |-> Text("z")]>>

FeatureCases ==
  [i \in DOMAIN FeatureSets |->
     Case(With([EmptyConfig EXCEPT !.features = FeatureSets[i]]), <<>>, Req("claude", <<>>, "podman"))]

\* Everything at once, and what others change meanwhile.
Mounted(list) == [EmptyConfig EXCEPT !.mounts = list]

Rotated == (GcloudPath :> "adc2") @@ (KubePath :> Kube("k8s", "tok2"))

Moved == (GcloudPath :> "adc") @@ (KubePath :> Kube("elsewhere", "tok2"))

Lists ==
  <<<<>>, <<Edit("files", Moved), Edit("files", <<>>)>>,
    <<Edit("files", GcloudPath :> "adc")>>,
    <<Edit("secrets", Renewed), Edit("providers", "kdn-s" :> [type |-> "generic", envs |-> {}, value |-> "old"])>>,
    <<Edit("files", (KubePath :> [Kube("k8s", "tok") EXCEPT !.contexts = <<>>]))>>,
    <<Edit("files", Rotated), Edit("workspace", Broken), Edit("projects", <<>>)>>,
    <<Edit("secrets", <<>>), Edit("secrets", SecretFile)>>, <<Edit("providers", <<>>)>>>>

Rich2 == [RichWorld EXCEPT !.workspace.secrets = <<"s", "sa", "t">>]

Concurrent ==
  FlattenSeq([i \in DOMAIN Lists |->
    <<Case(RichWorld, Lists[i], Req("claude", <<"big">>, "podman")),
      Case(RichWorld, Lists[i], Req("claude", <<"openai", "o", LocalURL>>, "openshell")),
      Case([Rich2 EXCEPT !.workspace.mode = "unset"], Lists[i], Req("openclaw", <<>>, "openshell"))>>])

\* Credentials that are not detected, or mounted twice; providers that exist or clash.
Corners ==
  LET mountsIn(mounts, files) == [With(Mounted(mounts)) EXCEPT !.files = files]
      both == <<Mount(KubeFile, Path("HOME", <<".kube", "config">>)), Mount(KubeDir, KubeDir)>>
      worlds == <<mountsIn(both, HostFiles), mountsIn(both, (AltPath :> Kube("alt", "tok")) @@ HostFiles),
                  mountsIn(both, AltPath :> Kube("alt", "")), mountsIn(both, AltPath :> Broken),
                  mountsIn(<<Mount(KubeDir, KubeDir)>>, KubePath :> [Kube("k", "tok") EXCEPT !.clusters = <<>>]),
                  mountsIn(<<Mount(KubeDir, KubeDir)>>, KubePath :> Kube("", "tok")),
                  mountsIn(<<Mount(GcloudDir, GcloudDir)>>, <<>>),
                  mountsIn(<<Mount(KubeDir, KubeDir),
                             Mount(Path("/", Home \o <<".kube">>), Path("/", ContainerHome \o <<".kube">>))>>,
                           HostFiles),
                  [With([EmptyConfig EXCEPT !.secrets = <<"t", "T">>]) EXCEPT
                     !.secrets = SecretFile],
                  [With([EmptyConfig EXCEPT !.secrets = <<"t">>]) EXCEPT
                     !.providers = "kdn-t" :> [type |-> "github", envs |-> {}, value |-> "old"]],
                  With([EmptyConfig EXCEPT !.secrets = <<"sa", "s", "bare">>, !.mode = "deny",
                          !.env = <<Value("NO_PROXY", "me")>>])>>
  IN FlattenSeq([i \in DOMAIN worlds |->
       <<Case(worlds[i], <<>>, Req("claude", <<>>, "podman")),
         Case(worlds[i], <<>>, Req("claude", <<>>, "openshell"))>>])

AllScenarios == Dumps \o Refused \o AgentCases \o OddCases \o FeatureCases \o Concurrent \o Corners

\* The workspace denies, the agent allows; both mount one pair, with other options.
LooseAgent ==
  [n \in 1..3 |->
     Case([With([EmptyConfig EXCEPT !.mode = "deny", !.hosts = <<"a">>,
                                    !.mounts = <<Mount(KubeDir, KubeDir)>>]) EXCEPT
             !.agents = "claude" :> [EmptyConfig EXCEPT
                !.mode = <<"unset", "deny", "allow">>[n],
                !.mounts = <<[Mount(KubeDir, KubeDir) EXCEPT !.ro = TRUE]>>]],
          <<>>, Req("claude", <<>>, "podman"))]
=============================================================================
