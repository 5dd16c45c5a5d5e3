SPECIFICATION Spec
CONSTANTS
    N = 1
    Deps <- NoDeps
    WriteNodes <- Node1
    MaxConcurrency = 2
    MaxTries = 1
    MaxNo = 2
    Controls = {c1, c2}
    ControlActions = {"pause", "stop", "resume", "cancel", "takeover", "handback"}
    MaxMessages = 0
    MaxRuns = 1
    MaxLost = 1
    ProposingNodes <- None
    ParkingNodes <- None
    GiveUpNodes <- None
    PersonNodes <- Node1
    Exploring = TRUE
    SpentCancels = FALSE
    EarlyReports = FALSE
    Duplicates = FALSE
INVARIANTS
    Attended
    NotStranded
PROPERTIES
    HeldStaysHeld
CHECK_DEADLOCK FALSE
