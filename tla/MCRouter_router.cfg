SPECIFICATION Spec
CONSTANTS
    Clients <- MCClients
    Catalogs <- MCCatalogs
    Unrecognised = {"odd"}
    Callers = {"c1", "c2"}
    Names <- MCNames
    Modes <- MCModes
    EvictionTicks = 3
    EmergencyTicks = 2
    CooldownTicks = 2
    RateLimitTicks = 1
INVARIANTS BudgetBounded NobodyOverlooked AnswerKept
PROPERTIES RequestEnds
CHECK_DEADLOCK FALSE
