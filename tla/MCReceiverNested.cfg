SPECIFICATION Spec
CONSTANTS
    Block = 2
    inputLimit = 3
    outSize = 2
    Capacity = 6
    ReportLimit = 1
    Decoders = {"am decoder", "wfax decoder"}
    Devices = {"sdrplay-v3"}
    MaxSamples = 9
    MaxEvents = 3
    MaxNesting = 1
CHECK_DEADLOCK FALSE
INVARIANTS OneAtATime
