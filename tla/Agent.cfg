SPECIFICATION FairMCSpec
CONSTANTS
  Trees <- MCTrees
  Tasks <- MCTasks
  MaxSteps = 1
  MaxBudgets = 2
  MaxRetries = 1
  MaxUnusable = 2
  StallStop = 2
  DoneGuard = 1
  MaxVerify = 1
  MaxAudits = 1
  GoalAudits = 1
  MaxTooling = 1
  SubtaskRetries = 1
  Kinds <- MCKinds
  MaxParallel = 2
  MaxAgents = 3
  Members = {m1, m2}
  Timers = {t1, t2}
  Ticker = ticker
  Closer = closer
  MaxChanges = 2
  Files = {"go", "lock", "git"}
  Counted = {"go", "lock"}
  Sources = {"go"}
  Contents <- MCContents
  Asks <- MCAsks
  WholeFile = 9
  EvidenceEach = 2
  EvidenceTotal = 3
  MaxReads = 2
  MaxWrites = 1
  MaxKept = 3
INVARIANTS PassIsEarned AgentsAreKept 
PROPERTIES TurnEnds LetsGo NeverGoesBack ChangeIsShown
CHECK_DEADLOCK FALSE
