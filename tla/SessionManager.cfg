\* Every interleaving of two callers on two sessions.
CONSTANTS
  Sessions = {s1, s2}
  NoSession = NoSession
  Tasks = {t1, t2}
  NoTask = NoTask
  CloseReasons = {"normal_closure"}
  LeaseTimeout = 1
  MaxTime = 2
SPECIFICATION Spec
SYMMETRY Symmetry
PROPERTIES ClosedIsFinal CloseAlwaysCloses PruneOnlyExpired
CHECK_DEADLOCK FALSE
