CONSTANTS
  Runs <- ModelRuns
  Vehicles <- ModelVehicles
  Quotes <- ModelQuotes
  VehicleData <- ModelVehicleData
  QuoteData <- ModelQuoteData
  Weight = 5
  Weights = {1, 5}
  MaxToolCalls = 8
  MaxGuidedAttempts = 2
  MaxTurns = 4
SPECIFICATION FairSpec
PROPERTY NoEffectOnceFailed
CHECK_DEADLOCK FALSE
