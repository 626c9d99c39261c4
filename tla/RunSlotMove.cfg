\* A session moved to a project while a message is queued.
SPECIFICATION Spec
CONSTANTS
    Handlers = {h1, h2}
    Runs = {r1, r2}
    Msgs = {m1, m2}
    NoRun = NoRun
    NoHandler = NoHandler
    Requests = {"queue", "move"}
    IsDefault = FALSE
INVARIANT NoLostWakeup
\* A conversation nobody writes to has nothing left to do.
CHECK_DEADLOCK FALSE
SYMMETRY Symmetry
