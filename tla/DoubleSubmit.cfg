CONSTANTS
    r1 = r1  r2 = r2  c1 = c1  c2 = c2
    Run = {r1, r2}
    NumItems = 3
    RunOf <- SmallRunOf
    Deps <- SmallDeps
    Coro = {c1, c2}
    NoRun = NoRun
    BackendMax = 1
    RunMax <- NoRunMax
    Requests = {"create"}
    Cached = {}
    Faults = {}
    Lossy = {}
    MaxLost = 1
SPECIFICATION Spec
INVARIANT EveryJobTracked
CHECK_DEADLOCK FALSE
