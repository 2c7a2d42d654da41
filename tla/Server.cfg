CONSTANTS
    HashNames = {"c1"}
    AgentNames = {"a1"}
    Run = {"r1", "r2"}
    NumItems = 3
    RunOf <- MCRunOf
    Deps <- MCDeps
    Coro = {"c1"}
    NoRun = "no run"
    BackendMax = 1
    RunMax <- MCRunMax
    DispatchRequests = {"create"}
    Cached = {1}
    Faults = {"refuse"}
    Lossy = {1}
    MaxLost = 1
    PageRuns = {"r1"}
    Tasks = {"t1", "t2"}
    ListPages = {"list"}
    RunPages = {"run"}
    Callers = {"c1"}
    Terminals = {"t1"}
    Conns = {1, 2, 3}
    MaxSessions = 1
    MaxRefusals = 1
    Reqs = {"q1", "q2"}
    DiskRuns = {"r1"}
    RunShape <- MCRunShape
    Dirs <- MCDirs
    Edits <- MCEdits
    Configs <- MCConfigs
    Home <- MCHome
    PathLists <- MCPathLists
    MaxWorld = 4
    Jobs = {"m1"}
    Managed = {"m1"}
    Weeks = {1, 2}
    WeekOf <- MCWeekOf
    MaxCrashes = 1
SPECIFICATION Spec
INVARIANTS AnnouncedOnce OneMorePerRefusal SingleFlight
PROPERTIES EveryRunFinishes ListCatchesUp Reconnects PlanSparesActive DirtyWorkSurvives RunningSettles
CHECK_DEADLOCK FALSE
