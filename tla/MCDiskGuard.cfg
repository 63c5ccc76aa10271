\* Two savers and one recording; 8 GiB overflows a word.
SPECIFICATION FairSpec
CONSTANTS
    r1 = r1
    q1 = q1
    q2 = q2
    Recordings <- MCRecordings
    Savers <- MCSavers
    Percents = {5, 10}
    GiBs = {0, 1, 8}
    Total = 20
    Free <- MCFree
    GiB = 2
    Word = 16
INVARIANTS
    TypeOK
    SettingsAreValid
    LevelsMatchClient
PROPERTIES
    HardStopsRecordings
