CONSTANTS
    c1 = c1
    c2 = c2
    out = out
    s3 = s3
    cw = cw
    Contexts = {c1, c2}
    Stdout = {out}
    CloudWatch = {cw}
    S3 = {s3}
    Configs <- CompositeThenStdout
    MaxBatch = 2
    MaxEvents = 3
SPECIFICATION FairSpec
CHECK_DEADLOCK FALSE
INVARIANTS
    EventsAccounted
    PredecessorBeforeEvent
PROPERTY BufferIsFlushed
