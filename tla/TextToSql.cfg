CONSTANTS
    Candidates <- MCCandidates
    Retries = 2
    SystemTables = {"pg_class"}
    TableAllowlist = {}
    ColumnAllowlist <- NoColumns
SPECIFICATION FairSpec
CHECK_DEADLOCK FALSE
INVARIANTS
    LoopsBounded
    SendJustified
    QuotesLastStatement
PROPERTY RequestAnswered
