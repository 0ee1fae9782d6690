SPECIFICATION Spec
CONSTANTS
    Task <- MCTask
    Cfg <- MCCfg
    Host = {"build", "test", "e2e"}
    Logs <- MCLogs
    QA <- MCQA
    Proposals <- MCProposals
    QAFaults = {"artifact_changed"}
    Base <- MCBase
    Modes <- MCModes
    MaxRetries = 1
    MaxTurns = 2
    MaxTurnExtensions = 1
    Fallback <- MCFallback
    Escalation <- MCEscalation
PROPERTIES BuildTruthful MergedValidated QAPassReviewed AttemptEnds
