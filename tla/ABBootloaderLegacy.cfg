\* A v1 application in Slot A, and Resume page 1 is recycled.
CONSTANTS
  good = good
  bad = bad
  old = old
  older = older
  broken = broken
  forged = forged
  Packages = {good, bad, older}
  Authentic = {good, bad, older}
  WellFormed = {good, bad, older}
  Healthy = {good, older}
  TrueVersion = {good, bad}
  Downgrade = {older}
  Version <- MCVersion
  LegacyVersion = 1
  Legacy = Legacy
  Other = Other
  NBlocks = 2
  LegacyRoom = 2
  MaxFaults = 0
  MaxEnters = 1
SPECIFICATION FairSpec
PROPERTY RollsBackToLegacy
CHECK_DEADLOCK FALSE
