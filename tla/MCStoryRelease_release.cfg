SPECIFICATION Spec
CONSTANTS
    Stories = {1, 2}
    Policies <- MCPolicies
    Workspaces <- MCWorkspaces
    Answers <- MCAnswers
    Changes = {"breaking", "feature", "fix"}
    Faults = {"persist", "checkout", "version", "crash", "git"}
    MaxFaults = 1
INVARIANTS ReleasedGreen FinalReleaseSafe
PROPERTIES ReleasedOnce
CHECK_DEADLOCK FALSE
