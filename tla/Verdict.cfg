CONSTANTS
    FailureStates = {"FAILED", "CANCELLED"}
    TerminalStates = {"COMPLETED", "FAILED", "CANCELLED", "BOOT_FAIL"}
    Outcomes = {"COMPLETED", "FAILED"}
    QueueShowsEnd = TRUE
    Faults = {"stats_down", "dropped"}
    MaxRestarts = 1
SPECIFICATION MCSpec
INVARIANTS TypeOK NoRecordMeansNotQueued CompletedMeansEnded ConfirmedAgrees
PROPERTIES VerdictStands FairSettlingResolves FairTruthPrevails
CHECK_DEADLOCK FALSE
