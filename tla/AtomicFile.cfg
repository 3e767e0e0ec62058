SPECIFICATION Spec
CONSTANTS
    Call = {w1, w2, w3}
    Reader = {r1, r2}
    Original = Original
    NoFile = NoFile
    MaxFaults = 2
    MaxOutages = 2
SYMMETRY Symmetry
CHECK_DEADLOCK FALSE
INVARIANTS NeverPartial AckedSurvives
PROPERTIES IsRegister
