CONSTANTS
    t1 = t1
    a = a
    b = b
    h1 = h1
    h2 = h2
    p1 = p1
    p2 = p2
    d1 = d1
    d2 = d2
    None = None
    Tasks = {t1}
    Titles = {a, b}
    Handlers = {h1}
    InitialStatuses = {"cancelled"}
    MaxCommits = 2
    Proposals = {p1, p2}
    Deciders = {d1, d2}
SPECIFICATION Spec
INVARIANTS
    OneDecision
PROPERTIES
    ExecutedAsShown
SYMMETRY DeciderSymmetry
