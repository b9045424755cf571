\* A run is aborted while its last step is asked to sum up a chat.
SPECIFICATION Spec
CONSTANTS
    Last = 2
    Parties = {"a", "b"}
    Flows <- ShipOnly
    MaxRetries = 1
    MaxReasks = 1
    MaxRounds = 1
    MaxMoves <- ThreeMoves
PROPERTIES
    AbortStays
CHECK_DEADLOCK FALSE
