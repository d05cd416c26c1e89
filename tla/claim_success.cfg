CONSTANTS
  MaxProcs = 3
  AutoReap = FALSE
  MaxPids = 1
  KillRounds = 32
  EmptyPolls = 4
  StopPolls = 0
  MaxLossy = 0
  PromptDeath = FALSE
  HasTimeout = FALSE
SPECIFICATION FairSpec
INVARIANT SuccessMeansEnded
CHECK_DEADLOCK FALSE
