SPECIFICATION Spec
CONSTANTS
    N = 2
    Deps <- Chain2
    WriteNodes <- Both
    MaxConcurrency = 2
    MaxTries = 2
    MaxNo = 2
    Controls = {}
    ControlActions = {}
    MaxMessages = 1
    MaxRuns = 0
    MaxLost = 0
    ProposingNodes <- Node1
    ParkingNodes <- Node2
    GiveUpNodes <- Node1
    PersonNodes <- None
    Exploring = FALSE
    SpentCancels = TRUE
    EarlyReports = FALSE
    Duplicates = FALSE
INVARIANTS
    TypeOK
    CountedOnce
    CompletedOnlyVerified
    VerdictComes
    DependenciesRespected
CHECK_DEADLOCK FALSE
