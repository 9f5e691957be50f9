\* Knowledge should need more than one occurrence.
CONSTANTS
  Versions <- MCVersions
  Released <- MCVersions
  Prereleases <- MCPrereleases
  Good <- MCGood
  Delivers <- MCDelivers
  EntryFiles = {"a", "b"}
  Candidates <- MCCandidates
  ProjectKinds <- MCProjectKinds
  MaxText = 1
  MaxPlans = 2
  Instances = {"i1"}
  Signals = {"APP_READY"}
  Waiters = {"w1"}
  MaxSends = 2
  MaxEvents = 1
  MaxRestarts = 2
  Collectors = {"c1", "c2"}
  Executions = {"e1"}
  ActionIds = {"x"}
  MaxCrashes = 1
  MaxDamage = 1
  Stores = {"p1", "p2"}
  StoreSessions = {"s1"}
  StoreProjects = {"j1"}
  StoreActions = {"a1"}
  Labels = {"X"}
  NoStore = NoStore
  Nothing = Nothing
  SessionLimit = 1
  RowLimit = 1
  MaxRows = 3
  Facts = {"f1"}
  SessionOf <- MCSessionOf
  Commands = {"c1", "c2"}
  None = None
  MaxCount = 5
  Sessions = {"s1", "s2"}
  Missions = {"m1"}
  Actions = {"a1", "a2"}
  Conversations = {"k1"}
  Projects = {"j1"}
  Nobody = Nobody
  WindowSize = 2
  MaxHooks = 1
SPECIFICATION Spec
INVARIANT OneOccurrenceIsNotEnough
CHECK_DEADLOCK FALSE
