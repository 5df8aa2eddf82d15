SPECIFICATION FairSpec
CONSTANTS
    old = old
    new = new
    crashing = crashing
    mislabelled = mislabelled
    raw = raw
    flagged = flagged
    Packages <- MCPackages
    Version <- MCVersion
    TrueVersion <- MCTrueVersion
    Downgrade <- MCDowngrade
    Healthy <- MCHealthy
    WellFormed <- MCWellFormed
    Rescue = flagged
    Other = Other
    None = None
    MaxFaults = 3
    MaxSessions = 3
INVARIANTS RunsOnlyVerified OneTrial ConfirmedIsItsOwn
PROPERTY Recovers
CHECK_DEADLOCK FALSE
