\* Progress of the queue.
SPECIFICATION FairSpec
CONSTANTS
    Handlers = {h1, h2}
    Runs = {r1, r2}
    Msgs = {m1, m2}
    NoRun = NoRun
    NoHandler = NoHandler
    Requests = {"queue", "steer", "work", "delete"}
    IsDefault = TRUE
PROPERTY AcceptedIsServed
\* A conversation nobody writes to has nothing left to do.
CHECK_DEADLOCK FALSE
