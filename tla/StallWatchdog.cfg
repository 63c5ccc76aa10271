\* A database that answers at once, takes up to the writes' timeout, or longer.
SPECIFICATION Spec
CONSTANTS
    Timeout = 5
    Delays = {0, 1, 2, 3}
    PipeSize = 6
INVARIANTS
    TypeOK
    LiveStreamIsKept
    StallIsJudged
