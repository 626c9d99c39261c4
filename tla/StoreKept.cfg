\* Two instances: turns started one at a time, with two crashes at any step and a file that is
\* lost (below), and everything else that meets a save (Files in MCStore).
\* And the local model: three requests, two servers, two installs of two pieces, one death.
SPECIFICATION FairMCSpec
CONSTANTS
  Handlers = {h1, h2}
  Runs = {r1, r2}
  Main = main0
  Msgs = {m1, m2}
  Requests = {"start"}
  Faults = {"crash", "cut_save", "bad_file"}
  MaxCrashes = 2
  NoMsg = none
  NoFile = no_file
  Torn = torn
  Nobody = nobody
  Callers = {c1}
  Pieces = 2
  MaxStarts = 2
  MaxInstalls = 2
  MaxLocalDeaths = 1
  LocalFaults = {}
INVARIANTS NeverWithoutACopy TurnsAreKept 
PROPERTIES NoTurnTwice TurnsAreAnswered StartEnds
\* A gateway nobody writes to, or starts again, has nothing left to do.
CHECK_DEADLOCK FALSE
