\* The host waits for a status while the application sends heartbeats.
CONSTANTS
  good = good
  bad = bad
  old = old
  Packages = {good, bad, old}
  Authentic = {good, bad, old}
  WellFormed = {good, bad, old}
  Healthy = {good, old}
  TrueVersion = {good, bad, old}
  Downgrade = {}
  Version <- MCVersion
  LegacyVersion = 1
  Legacy = Legacy
  Other = Other
  NBlocks = 2
  LegacyRoom = 0
  MaxFaults = 1
  MaxEnters = 4
  FifoDepth = 3
  ManifestFrames = 5
  TableFrames = 2
  FramesPerBlock = 5
  StatusEvery = 3
  FullTail = {bad}
  Attempts = 2
  MaxLosses = 0
  MaxRuns = 1
  MaxUpsets = 1
SPECIFICATION LinkFairSpec
PROPERTY HostRunEnds
CHECK_DEADLOCK FALSE
