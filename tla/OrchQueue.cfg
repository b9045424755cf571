\* A queue longer than its slots.
SPECIFICATION Spec
CONSTANTS
    N = 3
    Cap = 2
    RunIn = "worktree"
    Worker = FALSE
    MaxRuns = 2
    MaxReclaims = 1
    Happens = {"pause", "retry"}
INVARIANTS
    NoOrphanRun LedgerMirrorsRuns
PROPERTIES
    ImplementsLedger
CHECK_DEADLOCK FALSE
