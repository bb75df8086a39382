\* Two runs of autoconf beside another process that uses the secret store.
SPECIFICATION AutoconfSpec
CONSTANTS
    p1 = p1
    p2 = p2
    github = github
    npm = npm
    v1 = v1
    v2 = v2
    gitconfig = gitconfig
    golang = golang
    port = port
    NoValue = NoValue
    Procs = {p1, p2}
    Names = {github, npm}
    Values = {v1, v2}
    MaxOps <- RunnerOps
    Faults = {"crash", "io", "keychain"}
    Runner = p1
    Env <- EnvValue
    Secrets <- OneSecret
    Vertex <- ShortVertex
    HomeFiles <- OneFile
    Features <- OneFeature
    Ports <- OnePort
    Foreign <- OtherSecrets
    MaxRuns = 2
INVARIANTS
    RunConfigures
    MountedOnce
    UniqueNames
    ValueMatches
    ReadableIsComplete
PROPERTIES
    NoOverwrite
    RemovedAreGone
    NothingForgotten
