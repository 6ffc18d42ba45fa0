SPECIFICATION Spec
CONSTANTS
    decoderRate = 20
    CardRate = 40
    Capacity = 8
    framesPerBuffer = 3
    MaxFrames = 7
    MaxSelections = 1
INVARIANTS ChunksConverted StereoKept ClosedWhenQuiet ActivePlays
PROPERTY GuiReturns
CHECK_DEADLOCK FALSE
