SPECIFICATION FairSpec
CONSTANTS
    Tasks = {1, 2, 3, 4, 5, 6}
    Stories = {1, 2}
    Files = {"a", "b", "c", "d"}
    TargetFiles <- TwoFiles
    StoryOf <- TwoStory
    None = None
    Global = Global
    Orchs = {"o1", "o2"}
    StoryRun <- TwoRuns
    InitDeps <- TwoDeps
    InitMaxRetries <- TwoRetries
    Unplanned = {4, 5}
    Remedial = {5}
    Concurrency = 2
    CfgMaxRetries = 1
    FallbackEnabled = TRUE
    GreenStart = TRUE
    WatchdogRetries = 0
    MaxCmds = 1
    Conditions <- TwoConditions
INVARIANTS
    MilestoneOrder
    ConcurrencyCap
    ExitSound
PROPERTIES
    Termination
