\* Two launches, maintenance and a shutdown, with a fair event loop.
CONSTANTS
  Sessions = {s1, s2}
  NoSession = NoSession
  Maintainers = {m}
  Stoppers = {x}
  NoTask = NoTask
  LeaseTimeout = 0
  MaxTime = 0
  PidReuse = TRUE
  JobFailure = FALSE
  Kinds = {TRUE}
SPECIFICATION FairSpec
PROPERTIES ShutdownCompletes EveryLaunchAnswers CycleClosesDead RefinesSessionManager
CHECK_DEADLOCK FALSE
