SPECIFICATION FairSpec
CONSTANTS
    K = 2
    P = 1
    Plan <- OneThenPack
    AskFirst = TRUE
    ReviewFirst = TRUE
    FinalReview = TRUE
    Code = FALSE
    Happens = {"away", "delete", "rejects"}
\* Both tasks may be over.
CHECK_DEADLOCK FALSE
PROPERTIES StartsAlone QueueMoves
