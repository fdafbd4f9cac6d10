CONSTANTS
    e1 = e1
    e2 = e2
    w1 = w1
    Events = {e1, e2}
    Round = Round
    Receivers = {w1}
    Interval = 1
    MaxChanges = 3
CHECK_DEADLOCK FALSE
SPECIFICATION FairSyncSpec
INVARIANTS
    StoredUnlessCrossed
PROPERTIES
    OnlyUnsyncableBlocks
