\* A workspace that denies, under an agent that allows and mounts the same pair.
SPECIFICATION Spec
CONSTANTS
    Broken = Broken
    NoURL = NoURL
    NoDefault = NoDefault
    Services <- ServiceTable
    Segments <- SegmentTable
    Sanitized <- SanitizedTable
    ProviderName <- ProviderTable
    Catalog <- FeatureTable
    NormKey <- KeyNames
    HomeDir <- Home
    OnecliEnv <- ProxyEnv
    Scenarios <- LooseAgent
CHECK_DEADLOCK FALSE
INVARIANTS
    MergeAsDocumented
