\* Three commands, two crashes or shutdowns, one lost write, under fairness.
SPECIFICATION FairSpec
CONSTANTS
    t1 = t1
    Targets <- MCTargets
    MaxCommands = 3
    MaxLimit = 2
    MaxStops = 2
    MaxFaults = 1
INVARIANTS
    TypeOK
    SlotsMatchHandlers
    ClaimsAreHeld
PROPERTIES
    KeepsLedger
    EveryCommandFinishes
