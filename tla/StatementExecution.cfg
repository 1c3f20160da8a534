CONSTANTS
    c1 = c1
    c2 = c2
    k1 = k1
    Calls = {c1, c2}
    Slots = {k1}
    Statements <- MCStatements
    Rows <- MCRows
    RowFilter <- MCRowFilter
    Sensitive <- MCSensitive
    ReadonlyRole = TRUE
    DefaultLimit = 1
    MaxRowLimit = 2
    MaxResultBytes = 4
    CostThreshold = 10
    CostAction = "deny"
    TableCount = 1
    MaxSelected = 3
    SystemTables = {"pg_class"}
    TableAllowlist = {"album"}
    ColumnAllowlist <- MCColumnAllowlist
SPECIFICATION FairSpec
CHECK_DEADLOCK FALSE
INVARIANTS
    ConnectionsAccounted
    SessionSetUp
    ReportsTrue
    DeliveredUpToTheCap
PROPERTY HangsOnlyUntimed
