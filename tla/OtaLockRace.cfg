SPECIFICATION Spec
CONSTANTS
    Wrappers = {w1, w2}
    Clients = {c1, c2, c3}
    Supervisor = supervisor
    NoFile = NoFile
    Truncated = Truncated
    MaxCrashes = 0
    MaxKills = 0
    MaxSignals = 0
INVARIANT HostsExclusive
CHECK_DEADLOCK FALSE
