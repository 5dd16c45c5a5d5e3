SPECIFICATION Spec
CONSTANTS
    N = 1
    Deps <- NoDeps
    WriteNodes <- Node1
    MaxConcurrency = 2
    MaxTries = 2
    MaxNo = 1
    Controls = {c1}
    ControlActions = {"cancel"}
    MaxMessages = 0
    MaxRuns = 0
    MaxLost = 0
    ProposingNodes <- None
    ParkingNodes <- None
    GiveUpNodes <- None
    PersonNodes <- None
    Exploring = FALSE
    SpentCancels = FALSE
    EarlyReports = FALSE
    Duplicates = FALSE
INVARIANTS
    EndsWithoutChildren
CHECK_DEADLOCK FALSE
