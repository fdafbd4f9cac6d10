CONSTANTS
    t1 = t1
    a = a
    b = b
    None = None
    Tasks = {t1}
    Titles = {a, b}
    Handlers = {h1, h2, h3}
    InitialStatuses = {"ready"}
    MaxCommits = 3
    c1 = c1
    c2 = c2
    c3 = c3
    a1 = a1
    a2 = a2
    k1 = k1
    k2 = k2
    w1 = w1
    w2 = w2
    p1 = p1
    p2 = p2
    s1 = s1
    s2 = s2
    r1 = r1
    r2 = r2
    b1 = b1
    b2 = b2
    h1 = h1
    h2 = h2
    h3 = h3
    Clients = {c1, c2, c3}
    Resetters = {c1}
    Emails = {"user@example.com"}
    MaxWorkspaces = 3
    Artifacts = {a1, a2}
    AllowBucketCreation = TRUE
    NoWorkspace = NoWorkspace
    Keys = {k1}
    MaxRequests = 3
    Window = 3
    MaxTime = 9
    Workspaces = {w1, w2}
    Processes = {p1, p2}
    OAuthStates = {s1, s2}
    Callbacks = {b1, b2}
    Ttl = 1
    MaxClock = 2
    Requesters = {h1, h2}
    Commands = {r1, r2}
    IdempotencyKeys = {k1, k2}
    Nothing = Nothing
CHECK_DEADLOCK FALSE
SPECIFICATION MCSpec
INVARIANTS
    LimitersAgree
    OneWorkspacePerUser
    UploadsAreStored
    ConnectionsAreGranted
    ActionsAreReal
PROPERTIES
    NoLostUpdate
    StatusFollowsTable
    TransitionAuditIsTrue
