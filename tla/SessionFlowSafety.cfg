CONSTANTS
    None = None
    a1 = a1
    a2 = a2
    l1 = l1
    c1 = c1
    Attempts = {a1, a2}
    Logouts = {l1}
    Calls = {c1}
    Environments <- AllEnvironments
    SESSION_MAX_AGE = 1
    MaxTime = 1
SPECIFICATION Spec
CHECK_DEADLOCK FALSE
SYMMETRY AttemptSymmetry
INVARIANTS
    LoginStateSound
    CsrfMirrorsSession
PROPERTIES
    LogoutRevokesTokenFirst
    OrphansHaveACause
