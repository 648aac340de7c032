SPECIFICATION FunctionsSpec
CONSTANTS
    HourLen = 2
    DayHours = 2
    Horizon = 5
    MaxRows = 2
    Offsets = {0, 1, 3}
    Ranges = {1, 2}
    Limit = 2
    WindowSecs = 3
    MaxDelay = 1
    MaxAttempts = 5
    MaxClock = 6
    ByteMax = 3
    WordHigh = 8
    DWordHigh = 32
    Populated = 4
    BoardVendors = {1, 2}
    Unprogrammed = {0, 15}
    MaxInfoString = 5
    MaxLog = 2
    CheckEvery = 2
    MaxLines = 12
    Absent = Absent
    MaxDisplays = 2
    TickMod = 4
    MaxTicks = 9
    Templates = {b1, b2}
    NoTemplate = NoTemplate
    Procs = {p1, p2}
INVARIANTS
    IntegralIsExact
    PanelsAgree
    CapHolds
    RefusalHasCause
    InventoryIsExact
    IdentityIsStable
    LogIsKept
    SampleIsTrue
    UninstallHolds
PROPERTIES
    LastOneOut
CHECK_DEADLOCK FALSE
