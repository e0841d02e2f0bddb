CONSTANTS
  Weights = {0, 1, 2}
  Amounts = {0, 1}
SPECIFICATION Spec
INVARIANT ReasonsParity
CHECK_DEADLOCK FALSE
