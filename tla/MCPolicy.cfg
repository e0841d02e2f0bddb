CONSTANTS
  Weights = {0, 1, 2}
  Amounts = {0, 1}
SPECIFICATION Spec
INVARIANTS
  OutcomeParity
  PrimaryReasonParity
CHECK_DEADLOCK FALSE
