SPECIFICATION FairSpec
CONSTANTS
    Values = {"on", "off"}
    MaxCommands = 2
    MaxToggles = 2
    MaxApplies = 1
    MaxEvents = 1
    MaxRefusals = 1
    MaxBreaks = 1
    MaxSlows = 1
    None = None
INVARIANT ControlConsistent
PROPERTIES CommandEnds ViewSettles
CHECK_DEADLOCK FALSE
