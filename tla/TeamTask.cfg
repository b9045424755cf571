SPECIFICATION Spec
CONSTANTS
    K = 1
    P = 2
    Plan <- TwoThenOne
    AskFirst = TRUE
    ReviewFirst = TRUE
    FinalReview = TRUE
    Code = TRUE
    Happens = {"away", "redo", "spend", "idle", "restart", "skip", "delete"}
\* A task may be over, or deleted, and there is no other.
CHECK_DEADLOCK FALSE
INVARIANTS TypeOK NothingRunsOn RunningIsPursued StageOrder
