CONSTANTS
  Run = {"r1", "r2"}
  Path = {"env", "ssh", "out"}
  Workspace = {"env", "ssh"}
  Occupiable = {"env", "ssh"}
  Folder = {"ssh"}
  Strict = {"r1"}
  MaxEdits = 1
  MaxLaunches <- MCMaxLaunches
SPECIFICATION Spec
INVARIANTS DestsAreHidden NothingIsMissed NotHiddenIsTold PlantsAreRemoved OldFilesSurvive
CHECK_DEADLOCK FALSE
