CONSTANTS
  Path <- MCPath
  Dir = {"work", "bin", "far"}
  DirOf <- MCDirOf
  Denied = {"env", "far"}
  Asked = "notes"
  LinkDirs = {"work", "bin"}
  Inode = {"i1", "i2"}
  MaxChanges = 3
  Tree <- MCTree
  Cwd <- MCCwd
  Home <- MCHome
  Temp <- MCTemp
  RootAsked <- MCRootAsked
  ExtraAsked <- MCExtraAsked
  PathAsked <- MCPathAsked
  MaxLinks = 4
  MaxExtras = 2
SPECIFICATION FilesSpec
INVARIANTS ReadIsClean RootsAreMeant StaysInside
CHECK_DEADLOCK FALSE
