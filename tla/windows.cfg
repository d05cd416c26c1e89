SPECIFICATION Spec
CONSTANTS
  Stream = {out}
  Object <- Objects
  RwRoots <- Roots
  ReadRoots <- Reads
  DestDenied <- DestDeny
  Secrets <- SecretDirs
  Names <- NameDirs
  Spaces <- SpaceDirs
  Helper = "helper"
  Program = "program"
  Device = "pipe device"
  SystemPath <- System
  Original <- Before
  RestoreFails = 1
INVARIANTS
  RunsConfined
  OkMeansRestored
  DeadlineIsTold
PROPERTIES
  DeadlineReturns
