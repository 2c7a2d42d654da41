CONSTANTS
    r1 = r1  r2 = r2  c1 = c1  c2 = c2
    Run = {r1, r2}
    NumItems = 5
    RunOf <- MCRunOf
    Deps <- MCDeps
    Coro = {c1}
    NoRun = NoRun
    BackendMax = 2
    RunMax <- MCRunMax
    Requests = {"create", "cancel", "rerun", "delete"}
    Cached = {1}
    Faults = {"refuse", "raise"}
    Lossy = {1}
    MaxLost = 1
SPECIFICATION Spec
INVARIANTS TypeOK BackendCap RunCap
PROPERTIES NoJobForgotten TakesSlotFromPending DepsFirst VerdictStands NoSlotLeftIdle
CHECK_DEADLOCK FALSE
