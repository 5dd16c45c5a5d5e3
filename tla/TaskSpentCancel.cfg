SPECIFICATION Spec
CONSTANTS
    N = 1
    Deps <- NoDeps
    WriteNodes <- Node1
    MaxConcurrency = 2
    MaxTries = 2
    MaxNo = 2
    Controls = {c1}
    ControlActions = {"interrupt"}
    MaxMessages = 2
    MaxRuns = 0
    MaxLost = 0
    ProposingNodes <- None
    ParkingNodes <- Node1
    GiveUpNodes <- None
    PersonNodes <- None
    Exploring = FALSE
    SpentCancels = TRUE
    EarlyReports = FALSE
    Duplicates = FALSE
INVARIANTS
    OneWriter
CHECK_DEADLOCK FALSE
