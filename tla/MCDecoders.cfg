SPECIFICATION Spec
CONSTANTS
    PerBit = 4
    AmtorMessages <- AmtorMessagesMC
    Phasing = 4
    AmtorTrailer = 3
    AmtorSkews <- AmtorSkewsMC
    AmtorHits <- AmtorHitsMC
    rttySymbolLength = 10
    RttyFormats <- RttyFormatsMC
    RttyMessages <- RttyMessagesMC
    RttySkews <- RttySkewsMC
    Header = 3
    Recovers = 5
    TooLong = 9
    MAXPERR = 2
    Prekey = 4
    theSlots = 2
    AcarsMessages <- AcarsMessagesMC
    AcarsHits <- AcarsHitsMC
    CwDefault = 12
    CW_RECEIVE_CAPACITY = 32
    CwSpeeds <- CwSpeedsMC
    CwTexts <- CwTextsMC
    CwSpikes <- CwSpikesMC
    CwMemory = {0, 40}
    PskMessages <- PskMessagesMC
    PskPreamble = 17
    PskTrailer <- PskTrailerMC
    PskPostamble = 17
    PskOpens = 5
    PATHMEM = 24
    IntMax = 16000
CHECK_DEADLOCK FALSE
INVARIANTS TextTrue MetricsFit
PROPERTIES PrinterReturns PrinterIsFifo
