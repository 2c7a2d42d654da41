CONSTANTS
    r1 = r1  r2 = r2  c1 = c1  c2 = c2
    Run = {r1, r2}
    NumItems = 3
    RunOf <- SmallRunOf
    Deps <- SmallDeps
    Coro = {c1, c2}
    NoRun = NoRun
    BackendMax = 1
    RunMax <- NoRunMax
    Requests = {"create", "cancel", "rerun", "delete"}
    Cached = {}
    Faults = {"refuse", "raise"}
    Lossy = {1, 2, 3}
    MaxLost = 1
SPECIFICATION Spec
INVARIANT BoundedOvershoot
SYMMETRY Coroutines
CHECK_DEADLOCK FALSE
