CONSTANTS
    Results <- MCResults
    Replies <- MCReplies
    Configs <- MCConfigs
    RequestTimeout = 3
    BackoffBase = 2
SPECIFICATION FairPresentationSpec
CHECK_DEADLOCK FALSE
INVARIANTS
    PlanSound
    RetriesBounded
PROPERTY RowsDelivered
