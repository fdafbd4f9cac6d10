CONSTANTS
    s1 = s1
    s2 = s2
    s3 = s3
    c1 = c1
    c2 = c2
    v1 = v1
    None = None
    Plans = {s1, s2, s3}
    Callers = {c1, c2}
    Readers = {v1}
    MaxEdits = 1
SPECIFICATION ViewsSpec
INVARIANTS
    OneCurrentPlan
    TasksFollowTheirPlan
    ViewsNeverGoBack
SYMMETRY Symmetry
