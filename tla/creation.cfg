\* Every combination of the levels, every agent, features, credentials and
\* secrets on both runtimes, with changes by others in between.  The command
\* ends: that is no deadlock.
SPECIFICATION Spec
CONSTANTS
    Broken = Broken
    NoURL = NoURL
    NoDefault = NoDefault
    Services <- ServiceTable
    Segments <- SegmentTable
    Sanitized <- SanitizedTable
    ProviderName <- ProviderTable
    Catalog <- FeatureTable
    NormKey <- KeyNames
    HomeDir <- Home
    OnecliEnv <- ProxyEnv
    Scenarios <- AllScenarios
CHECK_DEADLOCK FALSE
INVARIANTS
    MergedIsValid
    HighestLevelWins
    AgentIsSetUp
    FeaturesInOrder
    SecretsInjected
    CredentialsFaked
    EnvironmentComplete
    PolicyComplete
