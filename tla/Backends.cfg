CONSTANTS
    Ec2Tasks = {"a"}
    Polls = {"poll", "toggle"}
    Loop = "poll"
    max_instances = 1
    Ec2Faults = {"ssh", "disk"}
    LocalTasks = {"a", "b"}
    Pids = {1, 2}
    BatchTasks = {"a", "b"}
    Images = {"base", "x"}
    Base = "base"
    Modes = {"revisions", "auto"}
    ClusterTasks = {"a"}
    Kinds = {"slurm", "pbs"}
    MaxCrashes = 1
SPECIFICATION Spec
INVARIANT RightImage
PROPERTIES Contract ExitIsCollected
CHECK_DEADLOCK FALSE
