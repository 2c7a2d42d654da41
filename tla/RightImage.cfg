CONSTANTS
    Tasks = {"a", "b"}
    Images = {"base", "x"}
    Base = "base"
    Modes = {"revisions"}
    Pinned = FALSE
    Faults = {}
    MaxCrashes = 0
SPECIFICATION Spec
INVARIANT RightImage
CHECK_DEADLOCK FALSE
