\* Two conversions and deletions, three commands, two slots, one crash or shutdown,
\* one error that ends a handler without telling its job or row.
SPECIFICATION Spec
CONSTANTS
    j1 = j1
    j2 = j2
    Jobs <- MCJobs
    MaxCommands = 3
    MaxLimit = 2
    MaxStops = 1
    MaxFaults = 0
    MaxLost = 1
INVARIANTS
    TypeOK
    OneConverter
    ActiveJobIsOwned
    RowsMatchFiles
SYMMETRY Swap
CONSTRAINT BothSlots
CHECK_DEADLOCK FALSE
