CONSTANTS
  MaxTraces = 2
  Slots <- MCSlots
  MaxClicks = 3
  MaxAborts = 1
SPECIFICATION Spec
INVARIANTS
  PageConsistent
PROPERTIES
  DecisionBecomesVisible
  NeverStuck
CHECK_DEADLOCK FALSE
