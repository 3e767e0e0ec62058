SPECIFICATION Spec
CONSTANTS
    Config = {c1, c2}
    Upload = {u1, u2}
    BadConfig = BadConfig
    Drift = Drift
    Startup = Startup
    NoOne = NoOne
    MaxFaults = 1
    MaxOutages = 2
SYMMETRY Symmetry
CHECK_DEADLOCK FALSE
INVARIANTS ApplyUsesDisk AppliedPrefix DriftIsReported AckedUploadSurvives
PROPERTIES PromiseKept
