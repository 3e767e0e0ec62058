SPECIFICATION FairUnitSpec
CONSTANTS
    MaxCalls = 3
    MaxStops = 1
CHECK_DEADLOCK FALSE
INVARIANTS ResultIsOwn
PROPERTIES ResultsAreTaken CallsReturn
