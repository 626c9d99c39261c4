\* A crash in a save.
SPECIFICATION Spec
CONSTANTS
  Handlers = {h1}
  Runs = {r1, r2}
  Main = main0
  Msgs = {m1}
  Requests = {"start"}
  Faults = {"crash", "cut_save"}
  MaxCrashes = 1
  NoMsg = none
  NoFile = no_file
  Torn = torn
  Nobody = nobody
PROPERTY CutSaveCostsOneTurn
\* A gateway nobody writes to, or starts again, has nothing left to do.
CHECK_DEADLOCK FALSE
