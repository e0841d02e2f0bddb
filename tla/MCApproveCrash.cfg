CONSTANTS
  i1 = i1
  i2 = i2
  k1 = k1
  k2 = k2
  none = none
  NoKey = none
  Home = i1
  Amount = 9
  Base = 36
  Threshold = 40
  UsedCalls = 0
  Instances <- OneInstance
  Keys <- OneKey
  Decisions <- ApproveOnly
  MaxToolCalls = 6
  EngineMayFail = FALSE
  StorageMayFail = FALSE
  OtherRuns = {}
  MaxDisturbances = 1
SPECIFICATION FairSpec
PROPERTIES
  ApprovedRunResumes
CHECK_DEADLOCK FALSE
