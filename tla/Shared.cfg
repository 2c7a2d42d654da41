CONSTANTS
    FileRuns = {"r1"}
    MaxStamp = 2
    CacheRuns = {"r1", "r2"}
    DirOf <- MCDirOf
    CommitOf <- MCCommitOf
    Scope = "inputs"
    Patterns = {"p", "q"}
    Optional = {"q"}
    Versions = {1}
    CacheFaults = {"lookup", "restore", "hash_outputs", "store"}
    MaxEdits = 2
    MaxReruns = 1
    Requests = {"q1", "q2"}
    Branches = {"main", "dev"}
    Main = "main"
    Kinds = {"source", "branch", "agent", "sync"}
    Keyed = TRUE
    HasPostclone = TRUE
    MaxPush = 1
    Pids = {1, 2, 3}
    Starters = {"s1", "s2"}
    Stoppers = {"t1"}
    MaxAccidents = 2
    BySsh = {"i1"}
    ByTask = {"k1"}
    Hashes = {"h1", "h2"}
    Steps = 2
SPECIFICATION Spec
INVARIANTS SubmittedOnce KeysRemoved PidfileNamesServer ReadyIsWhole
PROPERTIES UsageKept HitIsTrue
CHECK_DEADLOCK FALSE
