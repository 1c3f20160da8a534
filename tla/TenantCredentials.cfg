CONSTANTS
    ValidNames = {"main", "other"}
    Plans <- MCPlans
    Serials = {0, 1, 2, 3, 4, 5, 6}
    MaxFaults = 1
    MaxEdits = 1
SPECIFICATION FairSpec
CHECK_DEADLOCK FALSE
INVARIANTS
    FilesFollowRoles
    ServicesBound
    ReadersAgree
PROPERTY RotationRepairs
