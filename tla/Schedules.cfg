\* Two schedules, on the clock or chained to each other, under every policy.
SPECIFICATION Spec
CONSTANTS
    M = 2
    Period = 2
    Grace = 1
    MaxChain = 1
    MaxTime = 4
    MaxRuns = 2
    MaxUpsets = 1
    Chained = {2}
    Overlaps = {"skip", "queue", "replace"}
    CatchUps = {"skip"}
    Happens = {"edit", "restart", "deleteRun", "foreign"}
INVARIANTS
    TypeOK WakeUpIsSet Told
PROPERTIES
    NoOverlap OncePerPeriod
CHECK_DEADLOCK FALSE
