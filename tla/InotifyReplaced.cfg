CONSTANTS
  Garbage = Garbage
  Missing = Missing
  None = None
  Contents <- MCContents
  Backends = {"inotify"}
  MaxWrites = 2
  Levels = {"INFO", "ERROR"}
  Requests <- MCRequests
  MaxRequests = 0
  BadSinks = "bad"
SPECIFICATION ReloadSpec
PROPERTY UniformBackends
CHECK_DEADLOCK FALSE
