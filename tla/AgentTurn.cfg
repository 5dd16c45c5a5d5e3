SPECIFICATION Spec
CONSTANTS
  Tools <- const_Tools
  Info <- const_Info
  Batches <- const_Batches
  Ids = {1, 2}
  Messages = {m1}
  FirstMessages = {}
  Preset <- const_Preset
  Layers <- const_Layers
  Exploration = TRUE
  Limit <- const_Limit
  MaxRounds = 1
  MaxVersion = 2
  MaxRuns = 3
  MaxFaults = 1
INVARIANTS TypeOK AtMostOnce  ExplorationBounded SpendBounded  OutcomeTold ResumeFindsIt HistoryKept
PROPERTIES TurnEnds
CHECK_DEADLOCK FALSE
