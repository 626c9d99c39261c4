\* One client that is slower than the run.
SPECIFICATION Spec
CONSTANTS
    Readers = {c1}
    LogSize = 6
    Buffer = 2
    RunAttempts = 2
    MaxEvents = 4
    MaxQuestions = 0
INVARIANT CutOffHeals
\* A run that is over and whose clients left has nothing left to do.
CHECK_DEADLOCK FALSE
