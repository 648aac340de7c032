SPECIFICATION Spec
CONSTANTS
    Interval = 2
    StallAfter = 10
    SampleTime = 1
    UploadTimeout = 1
    DownloadTimeout = 10
    OfflineAfter = 30
    CheckEvery = 2
    MaxTroubles = 2
    MaxUpdates = 1
PROPERTIES
    OnlyTheStuckAreKilled
