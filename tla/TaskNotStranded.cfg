SPECIFICATION Spec
CONSTANTS
    N = 1
    Deps <- NoDeps
    WriteNodes <- Node1
    MaxConcurrency = 2
    MaxTries = 2
    MaxNo = 1
    Controls = {}
    ControlActions = {}
    MaxMessages = 0
    MaxRuns = 0
    MaxLost = 0
    ProposingNodes <- Node1
    ParkingNodes <- Node1
    GiveUpNodes <- None
    PersonNodes <- None
    Exploring = FALSE
    SpentCancels = TRUE
    EarlyReports = FALSE
    Duplicates = FALSE
INVARIANTS
    NotStranded
CHECK_DEADLOCK FALSE
