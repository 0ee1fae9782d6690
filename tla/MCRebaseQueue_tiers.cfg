SPECIFICATION FairSpec
CONSTANTS
    Branches = {"b1", "b2"}
    Overlap <- AllOverlap
    MarkerLines = {"b2"}
    HasResolver = TRUE
    Roadmap = "roadmap"
    QueueCap = 1
    MaxPushes = 2
    Faults = {"unreadable", "commit", "pop"}
INVARIANTS
    QueueTypeOK
    CleanStart
PROPERTIES
    NoStowaway
    PushReturns
