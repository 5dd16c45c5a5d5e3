SPECIFICATION Spec
CONSTANTS
  Tools <- const_Tools
  Info <- const_Info
  Batches <- const_AskBatches
  Ids = {1, 2}
  Messages = {m1, m2}
  FirstMessages = {m1}
  Preset <- const_Preset
  Layers <- const_Layers
  Exploration = FALSE
  Limit <- const_Limit
  MaxRounds = 1
  MaxVersion = 1
  MaxRuns = 3
  MaxFaults = 0
INVARIANT HeardOrReturned
CHECK_DEADLOCK FALSE
