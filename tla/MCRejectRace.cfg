CONSTANTS
  i1 = i1
  i2 = i2
  k1 = k1
  k2 = k2
  none = none
  NoKey = none
  Home = i1
  Amount = 9
  Base = 36
  Threshold = 40
  UsedCalls = 0
  Instances <- TwoInstances
  Keys <- OneKey
  Decisions <- RejectOnly
  MaxToolCalls = 6
  EngineMayFail = FALSE
  StorageMayFail = FALSE
  OtherRuns = {}
  MaxDisturbances = 0
SPECIFICATION FairSpec
PROPERTIES
  RejectedRunCancels
CHECK_DEADLOCK FALSE
