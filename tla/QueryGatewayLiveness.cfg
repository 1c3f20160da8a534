CONSTANTS
    r1 = r1
    r2 = r2
    r3 = r3
    r4 = r4
    acme = acme
    Requests = {r1, r2, r3}
    Tenants = {acme}
    TenantOf <- OneTenant
    ConcurrentLimit = 2
    QueueLimit = 3
SPECIFICATION FairSpec
PROPERTY EveryRequestLeaves
