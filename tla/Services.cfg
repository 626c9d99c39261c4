\* Two tasks, three hours, one edit and one death; a pull request, two pushes and one stop.
SPECIFICATION FairMCSpec
CONSTANTS
  Tasks = {1, 2}
  Passes = {p1, p2}
  Every = 1
  MaxNow = 2
  MaxEdits = 1
  MaxDeaths = 1
  AutoMerge = TRUE
  MaxFixes = 1
  NoneLimit = 1
  ErrorLimit = 1
  IdleLimit = 2
  MaxPushes = 2
  MaxComments = 1
  MaxTurns = 1
  MaxLives = 1
  MaxStops = 1
PROPERTIES DueFires  
\* A pull request that is merged or closed is left, and the clock is bounded.
CHECK_DEADLOCK FALSE
