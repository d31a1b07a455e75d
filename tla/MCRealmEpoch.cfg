CONSTANTS
  Daemons = {d1, d2}
  Trees = {t0, t1}
  First = t0
  None = None
  MaxEpoch = 6
  MaxCrashes = 1
SPECIFICATION FairSpec
CHECK_DEADLOCK FALSE
PROPERTIES EpochsAdvance
