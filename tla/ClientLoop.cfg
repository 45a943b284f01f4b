CONSTANTS
    q1 = q1
    q2 = q2
    h1 = h1
    h2 = h2
    Null = Null
    NEVER = NEVER
    Reqs = {q1, q2}
    Handles = {h1, h2}
    BodyLen = 2
    CLen = 1
    InitMayFail = TRUE
    MaxdsChoices = {1, NEVER}

SPECIFICATION LoopSpec

INVARIANT TypeOK
INVARIANT NoUseAfterCleanupUnlessInitFailed
INVARIANT SelectWatchesTransfers
PROPERTY ResultExact
PROPERTY InputEventuallyRead

\* once every easy handle of the bounded pool is used up and cleaned, and
\* no timeout is scheduled, the loop sleeps in select() for good
CHECK_DEADLOCK FALSE
