\* The two processes and the two migrations of the repository, with up to three
\* crashes, outages or lost answers.
SPECIFICATION Spec
CONSTANTS
    Procs = {web, worker}
    Webs = {web}
    Last = 2
    MaxFaults = 3
INVARIANTS
    TypeOK
    SchemaIsWhole
    ServingIsReady
PROPERTIES
    EverybodyServes
CHECK_DEADLOCK FALSE
