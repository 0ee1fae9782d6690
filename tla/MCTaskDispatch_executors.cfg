SPECIFICATION Spec
CONSTANTS
    Tasks = {1, 2}
    Stories = {1, 2}
    Files = {"a"}
    TargetFiles <- PairFiles
    StoryOf <- PairStory
    None = None
    Global = Global
    Orchs = {"o1", "o2"}
    StoryRun <- TwoRuns
    InitDeps <- PairDeps
    InitMaxRetries <- PairRetries
    Unplanned = {}
    Remedial = {}
    Concurrency = 1
    CfgMaxRetries = 1
    FallbackEnabled = FALSE
    GreenStart = FALSE
    WatchdogRetries = 0
    MaxCmds = 1
    Conditions <- PairConditions
INVARIANTS
    TypeOK
    ExclusionUnlessContended
    DependencyOrder
    RetriesBounded
    NoOrphanLock
PROPERTIES
    SuccessStable
