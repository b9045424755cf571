\* A worker batch on one shared branch, longer than its one slot, and its liveness.
SPECIFICATION FairSpec
CONSTANTS
    N = 3
    Cap = 1
    RunIn = "shared"
    Worker = TRUE
    MaxRuns = 2
    MaxReclaims = 1
    Happens = {"pause", "away", "treesGone", "delete"}
PROPERTIES
    LaunchesUnderCap QueueDrains
CHECK_DEADLOCK FALSE
