CONSTANTS
    FailureStates = {"FAILED"}
    TerminalStates = {"SUCCEEDED", "FAILED"}
    Outcomes = {"SUCCEEDED", "FAILED"}
    QueueShowsEnd = FALSE
    Faults = {}
    MaxRestarts = 0
SPECIFICATION FairSpec
PROPERTY SettlingResolves
