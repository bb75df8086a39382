\* A run that fails between two variables, and a second one.
SPECIFICATION AutoconfSpec
CONSTANTS
    p1 = p1
    p2 = p2
    github = github
    npm = npm
    v1 = v1
    v2 = v2
    gitconfig = gitconfig
    golang = golang
    port = port
    NoValue = NoValue
    Procs = {p1, p2}
    Names = {github, npm}
    Values = {v1, v2}
    MaxOps <- RunnerOps
    Faults = {"crash", "io", "keychain"}
    Runner = p1
    Env <- EnvValue
    Secrets <- OneSecret
    Vertex <- VertexItems
    HomeFiles <- OneFile
    Features <- OneFeature
    Ports <- OnePort
    Foreign <- OtherSecrets
    MaxRuns = 2
INVARIANTS
    VertexConfigured
