CONSTANTS
    t1 = t1
    a = a
    b = b
    h1 = h1
    h2 = h2
    h3 = h3
    None = None
    Tasks = {t1}
    Titles = {a, b}
    Handlers = {h1, h2, h3}
    InitialStatuses = {"ready"}
    MaxCommits = 3
SPECIFICATION TaskSpec
PROPERTIES
    NoLostUpdate
