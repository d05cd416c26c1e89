CONSTANTS
  MaxProcs = 3
  AutoReap = FALSE
  MaxPids = 1
  KillRounds = 4
  EmptyPolls = 1
  StopPolls = 1
  MaxLossy = 0
  PromptDeath = TRUE
  HasTimeout = TRUE
SPECIFICATION FairSpec
PROPERTIES ImplementsContract TimeoutReturns ReturnsAfterExit
CHECK_DEADLOCK FALSE
