CONSTANTS
  MaxProcs = 3
  MaxPids = 1
  Polls = 2
  MaxLies = 1
SPECIFICATION Spec
INVARIANTS LeadersAreTold RecordedAreGone
PROPERTIES NeverStartsLate NobodyWaitsForever
CHECK_DEADLOCK FALSE
