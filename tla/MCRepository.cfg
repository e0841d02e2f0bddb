CONSTANTS
  p1 = p1
  p2 = p2
  Procs <- TwoProcs
  Traces = {1}
  MaxEvents = 2
  MaxRevision = 3
  MaxVersion = 2
  MaxFaults = 1
  MaxResets = 1
  BatchSize = 3
SPECIFICATION Spec
SYMMETRY Symmetry
INVARIANTS
  SnapshotFaithful
  AckedKept
  ApprovalCopiesAgree
  ResetResumable
  VerdictExplained
CHECK_DEADLOCK FALSE
