SPECIFICATION FairSpec
CONSTANTS
    DayLen = 2
    MaxBackdate = 2
    MaxFuture = 1
    CatchUpSpan = 3
    Skew = 1
    Handlers = {h1}
    MaxTime = 2
    MaxFailures = 1
    MaxCrashes = 1
PROPERTIES
    RollupsSettle
CHECK_DEADLOCK FALSE
