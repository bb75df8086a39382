--------------------------- MODULE AgentSettings ---------------------------
(***************************************************************************)
(* What kdn writes into the settings files of the agent it installs        *)
(* (pkg/agent): five agents, each with its own files and fields.           *)
(*                                                                         *)
(* Settings are a function from file paths to documents, and a document is *)
(* a function from field paths (sequences of keys) to values: nested       *)
(* objects are flattened.  Broken is a file that does not parse, or holds  *)
(* another value than an object or null.  A URL is a record [host, rest]   *)
(* or NoURL; a model ID is the sequence of its parts.                      *)
(* "sources" is the path of the sources in the workspace, which the        *)
(* runtime says: /workspace/sources or /sandbox/workspace/sources.         *)
(***************************************************************************)
EXTENDS ConfigMerge, TLC

Agents == {"claude", "cursor", "goose", "openclaw", "opencode"}

\* The path of the file each agent's onboarding, model and MCP servers are
\* written to.
ClaudeJSONPath == ".claude.json"
ClaudeSettingsPath == ".claude/settings.json"
CursorCLIConfigPath == ".cursor/cli-config.json"
CursorTrustPath == ".cursor/projects/sources/.workspace-trusted"
GooseConfigPath == ".config/goose/config.yaml"
OpenclawConfigPath == ".openclaw/openclaw.json"
OpenCodeConfigPath == ".config/opencode/opencode.json"

At(field, value) == [x \in {field} |-> value]

EmptyDoc == <<>>

\* The JSON value null: under no key.
NullDoc == At(<<>>, "null")

GetContent(settings, path) ==
  IF path \in DOMAIN settings THEN settings[path] ELSE EmptyDoc

SetContent(settings, path, doc) == Over(At(path, doc), settings)

\* One is the other or in the other: no document has both, but as the same field.
Conflict(f, g) == IsPrefix(f, g) \/ IsPrefix(g, f)

\* Sets fields of which none is in another; a value standing where a path needs an
\* object is replaced, and so is an object the field's value replaces.
PutAll(doc, fields) ==
  LET kept == {f \in DOMAIN doc : \A g \in DOMAIN fields : ~Conflict(f, g)}
  IN Over(fields, [f \in kept |-> doc[f]])

Put(doc, field, value) == PutAll(doc, At(field, value))

-----------------------------------------------------------------------------
(* Model IDs and URLs.                                                     *)

\* provider::model::baseURL, provider::model or model.
ParseModelID(id) ==
  [provider |-> IF Len(id) = 1 THEN "" ELSE id[1],
   name |-> IF Len(id) = 1 THEN id[1] ELSE id[2],
   url |-> IF Len(id) = 3 THEN id[3] ELSE NoURL]

RewriteURLWithHost(url, containerHost) ==
  IF url # NoURL /\ url.host \in {"localhost", "127.0.0.1", "0.0.0.0", "::1"}
  THEN [url EXCEPT !.host = containerHost] ELSE url

\* An alias of a provider, or the provider itself.
Alias(table, provider) ==
  IF provider \in DOMAIN table THEN table[provider] ELSE provider

-----------------------------------------------------------------------------
(* Claude Code.                                                            *)

\* Mutant: the approved keys replace the user's.
ClaudeOnboarded_replaces(doc, approvedKeys) ==
  Put(PutAll(doc, Over(At(<<"hasCompletedOnboarding">>, TRUE),
                       At(<<"projects", "sources", "hasTrustDialogAccepted">>, TRUE))),
      <<"customApiKeyResponses", "approved">>, approvedKeys)

ClaudeOnboarded(doc, approvedKeys) ==
  LET approved == <<"customApiKeyResponses", "approved">>
      old == IF approved \in DOMAIN doc THEN doc[approved] ELSE {}
      trusted == PutAll(doc, Over(At(<<"hasCompletedOnboarding">>, TRUE),
                                  At(<<"projects", "sources", "hasTrustDialogAccepted">>,
                                     TRUE)))
  IN IF approvedKeys = {} THEN trusted
     ELSE Put(trusted, approved, old \cup approvedKeys)

\* The entries of the commands or of the servers, by name, under the given object.
McpEntries(prefix, list, kind) ==
  [f \in {Append(prefix, n) : n \in NamesOf(list)} |-> <<kind, Entry(list, Last(f)).val>>]

\* A flat map: a server replaces the command of its name.
PutMCP(doc, prefix, cmds, srvs, stdio, remote) ==
  PutAll(doc, Over(McpEntries(prefix, srvs, remote), McpEntries(prefix, cmds, stdio)))

ClaudeMCP(doc, cmds, srvs) == PutMCP(doc, <<"mcpServers">>, cmds, srvs, "stdio", "sse")

ClaudeModel(doc, model) == Put(doc, <<"model">>, model.name)

-----------------------------------------------------------------------------
(* Cursor, Goose.                                                          *)

CursorTrust == At(<<"workspacePath">>, "sources")

CursorModel(doc, model) ==
  PutAll(doc, Over(At(<<"model">>, model.name), At(<<"hasChangedDefaultModel">>, TRUE)))

\* A value the user gave stays, an object too.
GooseOnboarded(doc) ==
  LET key == <<"GOOSE_TELEMETRY_ENABLED">>
  IN IF \E f \in DOMAIN doc : IsPrefix(key, f) THEN doc ELSE Put(doc, key, FALSE)

\* Every provider's custom host goes to the key of OpenAI.
GooseModel(doc, model, containerHost) ==
  LET provider == IF model.provider = "" THEN "openai"
                  ELSE Alias([gemini |-> "google"], model.provider)
      named == PutAll(doc, Over(At(<<"GOOSE_MODEL">>, model.name), At(<<"GOOSE_PROVIDER">>, provider)))
  IN IF model.url = NoURL THEN named
     ELSE Put(named, <<"OPENAI_BASE_URL">>, RewriteURLWithHost(model.url, containerHost))

-----------------------------------------------------------------------------
(* OpenClaw.                                                               *)

OpenclawOnboarded(doc) ==
  LET ui == Over(At(<<"gateway", "controlUi", "enabled">>, TRUE),
                 At(<<"gateway", "controlUi", "allowedOrigins">>, {"*"}))
      local == Over(At(<<"gateway", "bind">>, "lan"), At(<<"gateway", "mode">>, "local"))
  IN PutAll(doc, Over(At(<<"gateway", "auth">>, "token"), Over(ui, local)))

OpenclawMCP(doc, cmds, srvs) ==
  PutMCP(doc, <<"mcp", "servers">>, cmds, srvs, "command", "streamable-http")

configureOpenclawProvider(doc, provider, model, url) ==
  Put(doc, <<"models", "providers", provider>>, [baseUrl |-> url, model |-> model])

OpenclawModel(doc, model, containerHost) ==
  LET given == Alias([gemini |-> "google", vertexai |-> "anthropic-vertex"], model.provider)
      provider == IF given = "" /\ model.url # NoURL THEN "local" ELSE given
      named == Put(doc, <<"agents", "defaults", "model">>, <<provider, model.name>>)
  IN IF model.url = NoURL THEN named
     ELSE configureOpenclawProvider(named, provider, model.name,
                                    RewriteURLWithHost(model.url, containerHost))

-----------------------------------------------------------------------------
(* OpenCode.                                                               *)

nativeProviders == {"anthropic", "mistral", "google"}

vertexAIProviders == {"google-vertex-anthropic"}

isRealOpenAI(provider, url) ==
  provider = "openai" /\ (url = NoURL \/ url.host = "api.openai.com")

defaultProviderBaseURL(provider, containerHost) ==
  IF provider \in {"ollama", "ramalama"}
  THEN [host |-> containerHost, rest |-> provider] ELSE NoURL

ProviderField(provider, rest) == <<"provider", provider>> \o rest

\* The provider block; a model the user already describes is left alone.
configureProvider(doc, provider, providerName, model, url) ==
  LET entry == ProviderField(provider, <<"models", model>>)
      sdk == IF provider \in nativeProviders \cup vertexAIProviders THEN EmptyDoc
             ELSE Over(At(ProviderField(provider, <<"name">>), providerName),
                       At(ProviderField(provider, <<"npm">>), "openai-compatible"))
      base == IF url = NoURL THEN EmptyDoc
              ELSE At(ProviderField(provider, <<"options", "baseURL">>), url)
      described == IF \E f \in DOMAIN doc : IsPrefix(entry, f) THEN EmptyDoc
                   ELSE At(entry, IF provider \in vertexAIProviders THEN EmptyDoc ELSE model)
  IN PutAll(doc, Over(sdk, Over(base, described)))

OpenCodeModel(doc, model, containerHost) ==
  LET alias == Alias([gemini |-> "google", vertexai |-> "google-vertex-anthropic"], model.provider)
      url == IF model.url = NoURL THEN defaultProviderBaseURL(alias, containerHost)
             ELSE RewriteURLWithHost(model.url, containerHost)
      real == isRealOpenAI(alias, url)
      provider == IF alias = "openai" /\ ~real THEN "custom" ELSE alias
      named == Put(doc, <<"model">>, <<provider, model.name>>)
      block == ~real /\ (provider \notin nativeProviders \/ url # NoURL)
      shown == IF provider = "custom" /\ url # NoURL THEN url.host ELSE provider
  IN IF model.provider = "" \/ ~block THEN named
     ELSE configureProvider(named, provider, shown, model.name, url)

-----------------------------------------------------------------------------
(* The Agent interface: the three edits, each of one file.  RewriteArgs is *)
(* the rewriting of MCP commands that a runtime's TransformConfig does.    *)

RewriteArgs(cmds, containerHost) ==
  [i \in DOMAIN cmds |-> [cmds[i] EXCEPT !.val = RewriteURLWithHost(@, containerHost)]]

OnboardingPath(agent) ==
  CASE agent = "claude" -> ClaudeJSONPath
    [] agent = "cursor" -> CursorTrustPath
    [] agent = "goose" -> GooseConfigPath
    [] agent = "openclaw" -> OpenclawConfigPath
    [] agent = "opencode" -> OpenCodeConfigPath

ModelPath(agent) ==
  CASE agent = "claude" -> ClaudeSettingsPath
    [] agent = "cursor" -> CursorCLIConfigPath
    [] OTHER -> OnboardingPath(agent)

\* Unmarshalling null leaves the map nil, and an assignment to a nil map
\* panics: claude and openclaw do not guard against it, the others do.
EditFails(agent, settings, path) ==
  LET doc == GetContent(settings, path)
  IN doc = Broken \/ (doc = NullDoc /\ agent \in {"claude", "openclaw"})

Parsed(settings, path) ==
  LET doc == GetContent(settings, path) IN IF doc = NullDoc THEN EmptyDoc ELSE doc

\* opencode has no onboarding and cursor's marker is written unread.
SkipOnboardingFails(agent, settings) ==
  /\ agent \in {"claude", "goose", "openclaw"}
  /\ EditFails(agent, settings, OnboardingPath(agent))

SkipOnboarding(agent, settings, approvedKeys) ==
  LET path == OnboardingPath(agent)
      doc == Parsed(settings, path)
  IN CASE agent = "claude" -> SetContent(settings, path, ClaudeOnboarded(doc, approvedKeys))
       [] agent = "cursor" -> SetContent(settings, path, CursorTrust)
       [] agent = "goose" -> SetContent(settings, path, GooseOnboarded(doc))
       [] agent = "openclaw" -> SetContent(settings, path, OpenclawOnboarded(doc))
       [] agent = "opencode" -> settings

SetModelFails(agent, settings, model) ==
  \/ EditFails(agent, settings, ModelPath(agent))
  \/ agent = "opencode" /\ model.provider # "" /\ model.name = ""

SetModel(agent, settings, model, containerHost) ==
  LET path == ModelPath(agent)
      doc == Parsed(settings, path)
      new == CASE agent = "claude" -> ClaudeModel(doc, model)
               [] agent = "cursor" -> CursorModel(doc, model)
               [] agent = "goose" -> GooseModel(doc, model, containerHost)
               [] agent = "openclaw" -> OpenclawModel(doc, model, containerHost)
               [] agent = "opencode" -> OpenCodeModel(doc, model, containerHost)
  IN SetContent(settings, path, new)

\* Cursor, Goose and OpenCode take no MCP servers from their settings files.
SetMCPServers(agent, settings, cmds, srvs) ==
  CASE agent = "claude" ->
         SetContent(settings, ClaudeJSONPath,
                    ClaudeMCP(GetContent(settings, ClaudeJSONPath), cmds, srvs))
    [] agent = "openclaw" ->
         SetContent(settings, OpenclawConfigPath,
                    OpenclawMCP(GetContent(settings, OpenclawConfigPath), cmds, srvs))
    [] OTHER -> settings

\* Under the home directory of the agent.
SkillsDir(agent) ==
  [claude |-> <<".claude", "skills">>, cursor |-> <<".cursor", "skills">>,
   goose |-> <<".agents", "skills">>, openclaw |-> <<".openclaw", "skills">>,
   opencode |-> <<".opencode", "skills">>][agent]

DefaultPorts(agent) == IF agent = "openclaw" THEN {18789} ELSE {}
=============================================================================
