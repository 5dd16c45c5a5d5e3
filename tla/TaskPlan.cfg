SPECIFICATION Spec
CONSTANTS
  Members <- const_Members
  Mentions <- const_Mentions
  Contract <- const_Contract
  StepContract <- const_StepContract
  Evidence <- const_Evidence
  Sops <- const_Sops
  Scopes <- const_Scopes
  MaxOps = 8
  MaxDepth = 1
  MaxChain = 4
  MaxNodes = 5
  CompactAt = 3
  KeepRecent = 1
  MaxConcurrency = 2
  MaxReviewRounds = 1
  MaxTries = 2
  MaxDedup = 1
INVARIANTS TypeOK GraphSound SopTracks AppliedOnce OnlyPeopleKill  MessageKept
PROPERTIES FrozenKept ReviewKept ReviewComes
CHECK_DEADLOCK FALSE
