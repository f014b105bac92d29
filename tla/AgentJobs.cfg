CONSTANTS
  MaxSteps = 4
  MaxTokens = 1
  GroundingRetries = 1
  TurnTokens = {0, 1}
  MaxToolCalls = 2
  MaxPerHour = 3
  MaxPerCycle = 2
  Hour = 1
  MaxCandidates = 3
  MaxClock = 2
  MaxRestarts = 1
  MaxStarts = 0
SPECIFICATION FairSpec
INVARIANTS
  TypeOK
  RunIsBounded
  RecordedSpendIsCapped
  NotesAreGrounded
PROPERTY AlertsReachTheNotifier
