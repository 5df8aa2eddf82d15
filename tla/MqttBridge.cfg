SPECIFICATION FairSpec
CONSTANTS
    Values = {"on", "invalid"}
    MaxCommands = 2
    MaxDelay = 2
    None = None
    Refusals = 1
    Breaks = 1
    Slows = 1
    LedFaults = 1
    Repeats = 1
    Kills = 1
    Budget <- AllFaults
INVARIANTS OnlineWhileServing ReportedIsSet AnswerStaysTrue AnsweredOnce
PROPERTIES BridgeRecovers ShutdownShown LastAnswered
CHECK_DEADLOCK FALSE
