SPECIFICATION FairSpec
CONSTANTS
    Config = {c1}
    Upload = {u1, u2}
    BadConfig = BadConfig
    Drift = Drift
    Startup = Startup
    NoOne = NoOne
    MaxFaults = 1
    MaxOutages = 1
CHECK_DEADLOCK FALSE
PROPERTIES EveryUploadAnswered OutageIsRepaired
