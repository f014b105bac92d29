CONSTANTS
  MaxSteps = 2
  MaxTokens = 1
  GroundingRetries = 0
  TurnTokens = {1}
  MaxToolCalls = 1
  MaxPerHour = 2
  MaxPerCycle = 1
  Hour = 1
  MaxCandidates = 1
  MaxClock = 1
  MaxRestarts = 0
  MaxStarts = 3
SPECIFICATION Spec
INVARIANT SpendIsCapped
