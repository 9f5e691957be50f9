\* Two runs of two missions, or of one, under one breaker.
CONSTANTS
  Recoverers = {r1, r2}
  Missions = {m1, m2}
  Roles = {"TESTER", "REALITY_INSPECTOR", "EVIDENCE_SPECIALIST"}
  MaxActions = 3
  MaxDelegations = 4
  MaxRecoveries = 1
  MaxCandidates = 3
  MaxTools = 1
  Threshold = 1
  Cooldown = 1
  MaxTime = 1
SPECIFICATION Spec
SYMMETRY Symmetry
INVARIANTS PassIsEarned
PROPERTIES ReportsAreTrue NoRecoveryInCooldown
CHECK_DEADLOCK FALSE
