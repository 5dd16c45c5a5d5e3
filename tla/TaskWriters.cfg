SPECIFICATION Spec
CONSTANTS
    N = 2
    Deps <- NoDeps
    WriteNodes <- Both
    MaxConcurrency = 2
    MaxTries = 2
    MaxNo = 2
    Controls = {c1}
    ControlActions = {"cancel", "interrupt"}
    MaxMessages = 1
    MaxRuns = 0
    MaxLost = 0
    ProposingNodes <- None
    ParkingNodes <- None
    GiveUpNodes <- None
    PersonNodes <- None
    Exploring = FALSE
    SpentCancels = FALSE
    EarlyReports = FALSE
    Duplicates = FALSE
INVARIANTS
    Accounted
    OneWriter
CHECK_DEADLOCK FALSE
