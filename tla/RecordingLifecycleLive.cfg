\* One recording, one crash or shutdown, one lost write, under fairness.
SPECIFICATION FairSpec
CONSTANTS
    r1 = r1
    r2 = r2
    s1 = s1
    Recordings <- One
    Streams <- OnlyS1
    StreamOf <- OneOfS1
    AutoMP4 <- One
    MaxActive = 1
    MaxCommands = 4
    MaxLimit = 1
    MaxStops = 1
    MaxFaults = 0
    MaxLost = 1
PROPERTIES
    StoppedRecordingEnds
    AutoConversionIsQueued
CHECK_DEADLOCK FALSE
