\* Three host runs with one failure of the board (power, flash), one killed host
\* and one lost frame.
CONSTANTS
  good = good
  bad = bad
  old = old
  Packages = {good, bad, old}
  Authentic = {good, bad, old}
  WellFormed = {good, bad, old}
  Healthy = {good, old}
  TrueVersion = {good, bad, old}
  Downgrade = {}
  Version <- MCVersion
  LegacyVersion = 1
  Legacy = Legacy
  Other = Other
  NBlocks = 2
  LegacyRoom = 0
  MaxFaults = 1
  MaxEnters = 12
  FifoDepth = 3
  ManifestFrames = 5
  TableFrames = 2
  FramesPerBlock = 5
  StatusEvery = 3
  FullTail = {bad}
  Attempts = 2
  MaxRuns = 3
  MaxUpsets = 1
  MaxLosses = 1
SPECIFICATION LinkFairSpec
INVARIANTS
  InStep
  QuietWhileBusy
  BufferInPlace
PROPERTIES
  SuccessMeansConfirmed
  ImplementsBoard
  UpdateSucceeds
CHECK_DEADLOCK FALSE
