CONSTANTS
    p1 = p1
    p2 = p2
    t1 = t1
    h1 = h1
    h2 = h2
    h3 = h3
    None = None
    Proposals = {p1, p2}
    Tasks = {t1}
    Handlers = {h1, h2, h3}
    MaxVersion = 3
CHECK_DEADLOCK FALSE
SPECIFICATION Spec
INVARIANTS
    CommandIsApproved
    ApprovedInTime
SYMMETRY Symmetry
