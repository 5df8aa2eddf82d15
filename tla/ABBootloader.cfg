\* Every failure and every session, two blocks.
CONSTANTS
  good = good
  bad = bad
  old = old
  older = older
  broken = broken
  forged = forged
  Packages = {good, bad, old, older, broken, forged}
  Authentic = {good, bad, old, older, broken}
  WellFormed = {good, bad, old, older, forged}
  Healthy = {good, old, older, broken, forged}
  TrueVersion = {good, bad, old, broken, forged}
  Downgrade = {older}
  Version <- MCVersion
  LegacyVersion = 1
  Legacy = Legacy
  Other = Other
  NBlocks = 2
  LegacyRoom = 2
  MaxFaults = 3
  MaxEnters = 4
SPECIFICATION FairSpec
INVARIANTS
  MetaCoherent
  ConfirmedBootable
  RunsOnlyVerified
  OneTrial
  ResumeSound
  NoSilentDowngrade
PROPERTIES
  ReturnsToService
  ConfirmedSlotUntouched
CHECK_DEADLOCK FALSE
