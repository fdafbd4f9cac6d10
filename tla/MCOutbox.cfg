CONSTANTS
    c1 = c1
    c2 = c2
    w1 = w1
    w2 = w2
    w3 = w3
    None = None
    Commands = {c1, c2}
    Workers = {w1, w2, w3}
    Equipped = {w1, w2}
    Answering = {c1}
    BatchSize = 2
    MaxAttempts = 1
    CreatedAt <- MCCreatedAt
SPECIFICATION FairSpec
INVARIANTS
    SuccessIsReal
    RowsAgree
    ClaimIsExclusive
PROPERTIES
    KeepsContract
    AnsweredCommandsSettle
