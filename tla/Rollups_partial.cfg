SPECIFICATION Spec
CONSTANTS
    DayLen = 2
    MaxBackdate = 2
    MaxFuture = 0
    CatchUpSpan = 3
    Skew = 0
    Handlers = {h1}
    MaxTime = 3
    MaxFailures = 1
    MaxCrashes = 0
INVARIANT NoMinuteVanishes
CHECK_DEADLOCK FALSE
