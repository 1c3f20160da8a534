CONSTANTS
    ValidNames = {"main", "other"}
    Plans <- SharedFilePlans
    Serials = {0, 1, 2, 3, 4, 5}
    MaxFaults = 0
    MaxEdits = 0
SPECIFICATION Spec
CHECK_DEADLOCK FALSE
INVARIANT EngineBoundToItsDatabase
