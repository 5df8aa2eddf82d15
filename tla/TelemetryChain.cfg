SPECIFICATION FairSpec
CONSTANTS
    OfflineAfter = 3
    ClientPeriod = 1
    SocketTimeout = 4
    ConnectTimeout = 1
    ReconnectMax = 2
    StaleAfter = 2
    MaxConns = 2
    BufferFrames = 1
    MaxHeard = 20
    MaxFaults = 1
    MaxStops = 1
INVARIANT OnlineIsRecent
PROPERTY DisplayRecovers
