\* A caller: two FFmpeg attempts and two stops, from any of the four threads.
SPECIFICATION FairSpec
CONSTANTS
    Mode = "caller"
    MaxAttempts = 2
    MaxStops = 2
INVARIANTS
    TypeOK
    StopIsEnforced
    NoRetryAfterStop
    MediaIsFinalized
PROPERTIES
    KeepsRun
    StopEndsRecording
