SPECIFICATION MCFairSpec
CONSTANTS
    Inventories = {v1, v2}
    Partial = Partial
    None = None
    Builds = {0, 1, 2}
    ResendAfter = 1
    Conns = {c1, c2}
    NoConn = NoConn
    Budgets <- MCBudgets
INVARIANTS
    KnownIsStored
    AuditComplete
    DowngradeHasCause
PROPERTIES
    ProfileCatchesUp
