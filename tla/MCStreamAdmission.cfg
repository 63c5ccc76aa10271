\* Two concurrent requests about three streams, at most two of them recorded.
SPECIFICATION Spec
CONSTANTS
    s1 = s1
    s2 = s2
    s3 = s3
    q1 = q1
    q2 = q2
    Nobody = Nobody
    NoURL = NoURL
    Streams <- MCStreams
    Inputs <- MCInputs
    Requests <- MCRequests
    MaxActive = 2
SYMMETRY Symmetry
INVARIANTS
    TypeOK
    ActiveWithinLimit
    ClashesComeFromEdits
    EditsAreWhole
    StoredStreamIsUsable
PROPERTIES
    AdmittedStreamIsLive
