SPECIFICATION FairSpec
CONSTANTS
    MaxQueue = 2
    MaxEvents = 1
    MaxBody = 1
    MaxBackdate = 2
    MaxFuture = 0
    Skew = 0
    MonitorStates = {}
    Conns = {c1}
    NoConn = NoConn
    MaxTime = 2
PROPERTY
    QueueDrains
