\* Undisturbed, a ready element should be typed into.
CONSTANTS
  Targets = {"t1", "t2"}
  Callers = {"c1", "c2"}
  Absent = Absent
  MaxSids = 2
  MaxCalls = 2
  MaxWire = 5
  FrameCallers = {"c1"}
  None = None
  MaxDocuments = 3
  MaxContexts = 4
  MaxObservations = 2
  MaxLosses = 1
  MaxEvents = 5
  Nothing = Nothing
  Asked <- MCAsked
  Desktops <- MCDesktops
  MaxMoves = 1
  MaxFailures = 1
  Requests <- MCRequests
  RequireVisibleGui = TRUE
  MaxChanges = 2
  Pids = {1, 2}
  Nil = Nil
  MaxBirths = 4
  MaxLaunches = 2
SPECIFICATION Spec
INVARIANT UndisturbedTypes
CHECK_DEADLOCK FALSE
