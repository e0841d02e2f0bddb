CONSTANTS
  w1 = w1
  w2 = w2
  k = k
  none = none
  d1 = d1
  Writers <- MCWriters
  Bodies <- MCBodies
  Summaries <- MCSummaries
  Keys <- MCKeys
  NoKey = none
  Decisions <- MCDecisions
  MaxRevision = 5
SPECIFICATION Spec
INVARIANTS
  TypeOK
  SnapshotCurrent
  NothingLost
  VerifierExact
  KeyRecordedOnce
PROPERTY
  HistoryOnlyGrows
CHECK_DEADLOCK FALSE
