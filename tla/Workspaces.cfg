SPECIFICATION Spec
CONSTANTS
    a1 = a1
    a2 = a2
    f1 = f1
    f2 = f2
    Absent = Absent
    Same = Same
    None = None
    Attempts <- const_Attempts
    Files <- const_Files
    backend = "docker"
    Edits <- const_Edits
    Boxes <- const_Boxes
    Outcomes <- const_Outcomes
    MaxParks <- const_MaxParks
    Faulty <- const_Faulty
    MaxFaults = 1
INVARIANTS TypeOK SavedWhatItEdited RowOutlivesSandbox
PROPERTIES ImplementsTaskHead Reclaimed
CHECK_DEADLOCK FALSE
