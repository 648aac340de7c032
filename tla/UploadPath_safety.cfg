SPECIFICATION Spec
CONSTANTS
    MaxQueue = 2
    MaxEvents = 2
    MaxBody = 4
    MaxBackdate = 2
    MaxFuture = 0
    Skew = 0
    MonitorStates = {0, 1}
    Conns = {c1, c2}
    NoConn = NoConn
    MaxTime = 3
SYMMETRY ConnSymmetry
PROPERTIES
    DeliversSamples
    DeliversTransitions
INVARIANTS
    UploadInv
    SampleCustody
    EventCustody
