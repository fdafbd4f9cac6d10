CONSTANTS
    Tasks = {1, 2, 3}
    Milestones = {1}
    NoMilestone = 0
    Never = 1000
    SlotMinutes = 2
    DayLength = 12
    TimezoneOffset = 3
    Horizon = 48
    CapacityPercent = 80
    Jobs = {1, 2, 3, 11, 12}
    MaxChunksPerDay = 2
    Inputs <- MCInputs
    Scenarios <- MCScenarios
    FreezeWindow = 1
    MinimumSlack = 1
    MustDoLimit = 2
    Review <- TheReview
    Submission <- TheSubmission
CHECK_DEADLOCK FALSE
SPECIFICATION ReplanSpec
INVARIANT DoneTasksUnblock
