CONSTANTS
    Requests = {"q1", "q2"}
    Branches = {"main", "dev"}
    Main = "main"
    Kinds = {"source", "branch"}
    Keyed = FALSE
    HasPostclone = FALSE
    MaxPush = 0
SPECIFICATION Spec
INVARIANT FetchedIsOfBranch
CHECK_DEADLOCK FALSE
