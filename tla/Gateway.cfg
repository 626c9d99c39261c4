\* Three lines and two questions; two tasks, three hours and two
\* edits; two projects and one draft at a time; two names and two agents; three attempts; three
\* sessions, two removals and a turn or an edit.
SPECIFICATION MCSpec
CONSTANTS
  Lines <- MCLines
  Rounds <- MCRounds
  MaxQuestions = 2
  MaxClients = 1
  Tasks = {1, 2}
  Passes = {p1, p2}
  Every = 1
  MaxNow = 2
  MaxEdits = 2
  MaxDeaths = 1
  Projects <- MCProjects
  Limits = {1}
  MaxFixes = 2
  MaxFalls = 1
  Names = {1, 2}
  Agents = {a1, a2}
  MaxTasks = 3
  MaxAgentDeaths = 1
  MaxAttempts = 3
  BackoffInitial = 1
  BackoffMax = 2
  TransientBudget = 4
  RetryAfterMax = 3
  MaxRetryAfter = 4
  MaxFragments = 2
  Askers = {r1, r2}
  MaxSessions = 3
  MaxWork = 1
  Removals = {"delete", "project", "prune"}
SYMMETRY MCSymmetry
INVARIANTS   RanWasAllowed NotAskedAgain NeverTwiceAtOnce UnaskedIsVetted   CallIsBounded 
PROPERTIES NothingForgotten EditsSurviveFirings  LimitIsKept
\* A gateway nobody writes to has nothing left to do.
CHECK_DEADLOCK FALSE
