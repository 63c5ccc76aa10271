\* Two recordings of one stream, three commands, two crashes or shutdowns, one
\* lost write of each kind.
SPECIFICATION Spec
CONSTANTS
    r1 = r1
    r2 = r2
    s1 = s1
    Recordings <- Two
    Streams <- OnlyS1
    StreamOf <- TwoOfS1
    AutoMP4 <- One
    MaxActive = 2
    MaxCommands = 3
    MaxLimit = 1
    MaxStops = 2
    MaxFaults = 1
    MaxLost = 1
INVARIANTS
    TypeOK
    ReadyHasFile
    ActiveIsOwned
    RunningIsActive
PROPERTIES
    RowsFollowContract
CHECK_DEADLOCK FALSE
