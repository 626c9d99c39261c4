\* A save that meets a deletion.
SPECIFICATION Spec
CONSTANTS
  Handlers = {h1, h2}
  Runs = {r1, r2}
  Main = main0
  Msgs = {m1}
  Requests = {"touch", "delete"}
  Faults = {}
  MaxCrashes = 0
  NoMsg = none
  NoFile = no_file
  Torn = torn
  Nobody = nobody
PROPERTY DeletedStaysDeleted
\* A gateway nobody writes to, or starts again, has nothing left to do.
CHECK_DEADLOCK FALSE
