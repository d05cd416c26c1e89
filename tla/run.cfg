CONSTANTS
  MaxProcs = 3
  AutoReap = FALSE
  MaxPids = 1
  KillRounds = 3
  EmptyPolls = 1
  StopPolls = 1
  MaxLossy = 1
  PromptDeath = FALSE
  HasTimeout = TRUE
SPECIFICATION RSpec
INVARIANTS CleanReportMeansEnded SignalsOnlyItsOwn GroupIsStopped
CHECK_DEADLOCK FALSE
