SPECIFICATION FairSpec
CONSTANTS
    Builds = {1, 2, 3}
    Installed = 1
    Broken = {3}
    CrashThreshold = 3
    CrashWindow = 1
    MaxTime = 2
    MaxFaults = 1
INVARIANTS
    WayBackHolds
    LatestStaysOut
PROPERTY BadBuildIsLeft
