\* One client, a log it can fall behind and a queue it can overflow.
SPECIFICATION FairSpec
CONSTANTS
    Readers = {c1}
    LogSize = 2
    Buffer = 2
    RunAttempts = 2
    MaxEvents = 4
    MaxQuestions = 1
INVARIANT StreamIsSound
PROPERTIES StreamKept CutOffOnlyIfBehind FollowedToTheEnd
\* A run that is over and whose clients left has nothing left to do.
CHECK_DEADLOCK FALSE
