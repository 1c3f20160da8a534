CONSTANTS
    s1 = s1
    s2 = s2
    Statements = {s1, s2}
    Empty = Empty
    NoEditor = NoEditor
    MaxRuns = 2
SPECIFICATION FairSpec
INVARIANTS
    BusyTruthful
    MixUpsHaveCause
    VerdictShown
PROPERTY PageSettles
