CONSTANTS
  Garbage = Garbage
  Missing = Missing
  None = None
  Contents <- MCContents
  Backends = {"polling", "inotify"}
  MaxWrites = 2
  Levels = {"INFO", "ERROR"}
  Requests <- MCRequests
  MaxRequests = 1
  BadSinks = "bad"
SPECIFICATION ReloadSpec
INVARIANTS
  ReloadIsAllOrNothing
  ReportedLevelIsReal
  EveryReloadIsRecorded
PROPERTY LastWriteIsApplied
CHECK_DEADLOCK FALSE
