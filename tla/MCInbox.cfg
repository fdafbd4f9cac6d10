CONSTANTS
    i1 = i1
    i2 = i2
    o1 = o1
    o2 = o2
    w1 = w1
    w2 = w2
    u1 = u1
    u2 = u2
    s1 = s1
    s2 = s2
    s3 = s3
    a1 = a1
    Items = {i1, i2}
    Fixtures = {i1}
    Operations = {o1, o2}
    ItemOf <- MCItemOf
    MarkTargets = {"IGNORED"}
    Workers = {w1, w2}
    Users = {u1, u2}
    Nobody = Nobody
    MaxCrashes = 1
    Steps = {s1, s2, s3}
    Appenders = {a1}
CHECK_DEADLOCK FALSE
SPECIFICATION MCSpec
INVARIANTS
    OperationRunsOnce
    DecidedOnce
    ResumeLosesNothing
PROPERTIES
    JobsEnd
    EventsArrive
