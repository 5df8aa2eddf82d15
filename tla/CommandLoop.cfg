SPECIFICATION LoopSpec
CONSTANTS
    Values = {"on", "heartbeat"}
    MaxCommands = 2
    MaxToggles = 2
    MaxApplies = 0
    MaxEvents = 1
    MaxRefusals = 0
    MaxBreaks = 0
    MaxSlows = 1
    MaxDelay = 3
    None = None
    Refusals = 0
    Breaks = 0
    Slows = 0
    LedFaults = 1
    Repeats = 1
    Kills = 1
    Budget <- AllFaults
INVARIANT SuccessMeansLed
PROPERTIES DashboardImplemented CommandsInOrder
CHECK_DEADLOCK FALSE
