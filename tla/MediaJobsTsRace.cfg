\* A deletion of the TS checked before a conversion is requested.
SPECIFICATION Spec
CONSTANTS
    j1 = j1
    j2 = j2
    Jobs <- MCJobs
    MaxCommands = 3
    MaxLimit = 1
    MaxStops = 0
    MaxFaults = 0
    MaxLost = 0
PROPERTIES
    TsKeptWhileConverting
CHECK_DEADLOCK FALSE
