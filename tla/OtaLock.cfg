SPECIFICATION FairSpec
CONSTANTS
    Wrappers = {w1, w2}
    Clients = {c1, c2, c3}
    Supervisor = supervisor
    NoFile = NoFile
    Truncated = Truncated
    MaxCrashes = 1
    MaxKills = 1
    MaxSignals = 1
INVARIANTS InterfaceIsTheHosts LockCoversHost
PROPERTIES ClientReturns UnitRestored
CHECK_DEADLOCK FALSE
