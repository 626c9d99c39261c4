\* Turns: everything that starts, queues, steers or stops one.
SPECIFICATION Spec
CONSTANTS
    Handlers = {h1, h2}
    Runs = {r1, r2, r3}
    Msgs = {m1, m2, m3}
    NoRun = NoRun
    NoHandler = NoHandler
    Requests = {"start", "queue", "interrupt", "cancel", "steer", "work"}
    IsDefault = FALSE
INVARIANTS NoLostWakeup EachInTurn
PROPERTY InterruptSparesItsOwn
\* A conversation nobody writes to has nothing left to do.
CHECK_DEADLOCK FALSE
SYMMETRY Symmetry
