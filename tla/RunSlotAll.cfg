\* Every kind of holder of the slot.
SPECIFICATION Spec
CONSTANTS
    Handlers = {h1, h2}
    Runs = {r1, r2}
    Msgs = {m1, m2}
    NoRun = NoRun
    NoHandler = NoHandler
    Requests = {"queue", "steer", "work", "terminal", "move", "delete", "prune", "merge", "shutdown"}
    IsDefault = FALSE
INVARIANTS SlotHasOneHolder DoneMeansReleased
\* A conversation nobody writes to has nothing left to do.
CHECK_DEADLOCK FALSE
SYMMETRY Symmetry
