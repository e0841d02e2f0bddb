CONSTANTS
  Runs <- MCRuns
  Vehicles <- MCVehicles
  Quotes <- MCQuotes
  VehicleData <- MCVehicleData
  QuoteData <- MCQuoteData
  Weight = 5
  Weights = {1, 5}
  MaxToolCalls = 10
  MaxGuidedAttempts = 2
  MaxTurns = 6
SPECIFICATION ParitySpec
INVARIANTS
  ScriptedRunSafe
  RuntimesAgree
  TimeoutOnlyShortens
  ProvenanceShown
CHECK_DEADLOCK FALSE
