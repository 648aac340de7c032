SPECIFICATION Spec
CONSTANTS
    Uuids = {u1, u2}
    Computers = {p1, p2, p3}
    Handlers = {h1}
    Attempts = 2
    EnrollTTL = 0
    MaxTime = 1
    MaxFailures = 1
    NoUuid = NoUuid
    Torn = Torn
SYMMETRY RegistrySymmetry
CONSTRAINT Bounded
INVARIANTS
    TypeOK
    RowsBelongToSender
    OptOutHolds
    OneIdentity
    IdentityCustody
    StatusIsTrue
CHECK_DEADLOCK FALSE
