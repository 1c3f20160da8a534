CONSTANTS
    absent = absent
    null = null
    Absent = absent
    Null = null
    Lower <- MCLower
    Documents <- MCDocuments
    Principals <- MCPrincipals
    Databases = {"default"}
    Tables = {"album", "artist"}
    Columns = {"id", "name"}
    MaxPolicies = 2
SPECIFICATION Spec
CHECK_DEADLOCK FALSE
INVARIANTS
    EvaluatorsAgree
    RunsOnlyIfGranted
    SchemaMirrorsQueries
PROPERTY PublishNeverWeakens
