CONSTANTS
  Members <- const_Members
  Leader = "lead"
  Mentions <- const_Mentions
  CallLists <- const_CallLists
  MaxRounds = 3
  MaxMessages = 7
  MaxHops = 1
  MaxNotes = 2
  MaxParks = 2
  MaxFaults = 1
SPECIFICATION Spec
INVARIANTS TypeOK AnsweredInFull MessageHeard
PROPERTIES StageEnds
CHECK_DEADLOCK FALSE
