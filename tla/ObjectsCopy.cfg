CONSTANTS
    Child <- MCChild
    Links <- MCLinks
    Commits = {"c1", "c2"}
    Seed = "s"
    Blobs = {"a", "b", "e1"}
    Events = {"e1"}
    MaxSubmits = 3
    MaxTicks = 1
    MaxCrashes = 0
SPECIFICATION Spec
INVARIANT CopyIsWhole
\* Every submission may have been made.
CHECK_DEADLOCK FALSE
