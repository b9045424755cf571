\* The life of a run.
SPECIFICATION FairSpec
CONSTANTS
    Last = 2
    Parties = {"a", "b"}
    Flows <- BuildAndShip
    MaxRetries = 1
    MaxReasks = 1
    MaxRounds = 1
    MaxMoves <- TwoMoves
INVARIANTS
    TypeOK GateHeld DoneMeansSettled WatchdogArmed
PROPERTIES
    RestStays ComesToRest
CHECK_DEADLOCK FALSE
