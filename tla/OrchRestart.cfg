\* Every operation, and the process dies at any moment.
SPECIFICATION Spec
CONSTANTS
    N = 2
    Cap = 2
    RunIn = "worktree"
    Worker = FALSE
    MaxRuns = 2
    MaxReclaims = 1
    Happens = {"pause", "retry", "delete", "deleteRun", "rerun", "restart"}
INVARIANTS
    TypeOK LaunchesTracked CompletedHasNoQueue HeadOfThisAttempt
    CompletionDetected DoneIsDurable
CHECK_DEADLOCK FALSE
