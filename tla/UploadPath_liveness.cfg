SPECIFICATION FairSpec
CONSTANTS
    MaxQueue = 2
    MaxEvents = 1
    MaxBody = 3
    MaxBackdate = 2
    MaxFuture = 0
    Skew = 0
    MonitorStates = {1}
    Conns = {c1, c2}
    NoConn = NoConn
    MaxTime = 2
PROPERTIES
    QueueDrains
