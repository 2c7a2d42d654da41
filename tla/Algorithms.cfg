CONSTANTS
    NumItems = 3
    Docs <- MCDocs
    GenDocs <- MCGenDocs
    MaxItems = 1
    Configs <- MCConfigs
    Names = {"g", "h"}
    Stacks = {}
    Protected = {"SCRIPTHUT_BACKEND"}
    build_seed <- MCSeed
SPECIFICATION AllSpec
INVARIANTS LoopIsFixpoint UncascadeUndoesCascade AcceptsExactlyTheOrderable RaisesExactlyOnCycles TaskHasLastWord
PROPERTY EveryAlgorithmEnds
CHECK_DEADLOCK FALSE
