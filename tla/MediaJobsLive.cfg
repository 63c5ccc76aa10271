\* Two conversions, two commands, one crash or shutdown, one lost write of each
\* kind, under fairness.
SPECIFICATION FairSpec
CONSTANTS
    j1 = j1
    j2 = j2
    Jobs <- MCJobs
    MaxCommands = 2
    MaxLimit = 1
    MaxStops = 1
    MaxFaults = 1
    MaxLost = 1
PROPERTIES
    JobsEnd
CHECK_DEADLOCK FALSE
