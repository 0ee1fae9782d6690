SPECIFICATION Spec
CONSTANTS
    Files = {"prod.go", "test.go"}
    TestFiles = {"test.go"}
    Excluded = {".git"}
    ForbiddenContent = {}
    Agents <- MCAgents
    StartWorkspaces <- MCWorkspaces
    Iterations = 2
    MaxTurnExtensions = 1
    Progress = 0
    AllowedCommands = {"go"}
    Seeded = {"test.go"}
INVARIANTS ConcludedOnGreen
PROPERTIES FailedCallChangesNothing RunEnds
