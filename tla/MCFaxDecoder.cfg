SPECIFICATION FaxSpec
CONSTANTS
    samplesperLine = 20
    nrLines = 1
    CheckAfter = 1
    LimitAfter = 3
    MaxAlarms = 2
    MaxCheats = 1
    StartLines = 1
    WaitLines = 1
CHECK_DEADLOCK FALSE
INVARIANTS InBounds
PROPERTIES PictureEnds
