SPECIFICATION Spec
CONSTANTS
    DayLen = 2
    MaxBackdate = 2
    MaxFuture = 0
    CatchUpSpan = 3
    Skew = 0
    Handlers = {h1, h2}
    MaxTime = 2
    MaxFailures = 1
    MaxCrashes = 1
SYMMETRY HandlerSymmetry
INVARIANTS
    AggregatesAreSound
    StaleIsMarked
    DeletedLeavesNothing
CHECK_DEADLOCK FALSE
