SPECIFICATION Spec
CONSTANTS
  Addresses <- OneAddress
  NotFound = NotFound
  Junk = Junk
  StackMayMatch = TRUE
  PageRoom = 15
  MaxCrashes = 2
  Names = {a, b}
  LastCluster = 5
  FatPerSector = 2
  DirPerSector = 1
  SS = 2
  CSize = 1
  Lengths = {1, 3}
  Offsets = {0, 4}
  Layouts <- SomeLayouts
  Modes <- AllModes
  MaxCalls = 4
  MaxFailures = 1
  Sectors = {0, 1, 2}
  Used = {0, 1}
  Data = {0, 1}
  Kinds = {"SD2", "SDHC"}
  BLOCK = 2
  POWER_WAIT = 1
  INIT_WAIT = 2
  READY_WAIT = 1
  TOKEN_WAIT = 1
SYMMETRY Symmetric
CHECK_DEADLOCK FALSE
INVARIANTS SavedIsLoaded DiskIsSound SyncedSurvives ReadsBack ClustersAccounted NoAssertionFails ReadsWhatWasWritten CallsEndInTime
PROPERTIES SavedIsKept
