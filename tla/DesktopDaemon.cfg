\* Two launches, a maintenance coroutine and two shutdowns.
CONSTANTS
  Sessions = {s1, s2}
  NoSession = NoSession
  Maintainers = {m}
  Stoppers = {x1, x2}
  NoTask = NoTask
  LeaseTimeout = 0
  MaxTime = 1
  PidReuse = TRUE
  JobFailure = TRUE
  Kinds = {TRUE, FALSE}
SPECIFICATION Spec
SYMMETRY Symmetry
INVARIANT StoppedClosesSessions
PROPERTIES KillsWhatItLaunched LaunchedIsActive
CHECK_DEADLOCK FALSE
