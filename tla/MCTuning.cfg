SPECIFICATION Spec
CONSTANTS
    scopeWidth = 1920
    kHz = 20
    decoderRate = 240
    Band <- BandMC
    Frequencies <- FrequenciesMC
    Steps <- StepsMC
    Word32 = 8192
    Word64 = 32768
    MaxOps = 5
CHECK_DEADLOCK FALSE
INVARIANTS InBandwidth FrequencyTrue
PROPERTIES ComesBack
