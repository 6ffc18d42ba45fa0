SPECIFICATION RttySpec
CONSTANTS
    rttySymbolLength = 10
    RttyFormats <- RttyFormatsMC
    RttyMessages <- RttyMessagesMC
    RttySkews = {0}
CHECK_DEADLOCK FALSE
INVARIANTS ParityIsTheNamedOne
