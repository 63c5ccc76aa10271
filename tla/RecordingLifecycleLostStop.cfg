\* A stop handled before the start has registered its process.
SPECIFICATION Spec
CONSTANTS
    r1 = r1
    r2 = r2
    s1 = s1
    Recordings <- One
    Streams <- OnlyS1
    StreamOf <- OneOfS1
    AutoMP4 <- One
    MaxActive = 1
    MaxCommands = 3
    MaxLimit = 1
    MaxStops = 0
    MaxFaults = 0
    MaxLost = 0
INVARIANTS
    StopIsHonoured
CHECK_DEADLOCK FALSE
