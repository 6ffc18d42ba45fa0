SPECIFICATION Spec
CONSTANTS
    samplesinFile = 5
    Block = 2
    Spare = 1
    FileRing = 6
    FileLimit = 2
    outputRates = {0, 3, 100}
    StickRing = 8
    HackrfRing = 12
    HackrfLimit = 3
    Garbage <- GarbageMC
    Frequencies = {"7 MHz", "14 MHz"}
    Gains = {20, 30}
    DefaultFrequency = "92 MHz"
    StartFrequency = "91.976 MHz"
    TcpRing = 8
    TcpLimit = 2
    BlockElems = 1
    MaxBlocks = 3
    MaxCommands = 4
    MaxClicks = 2
    HeaderSize = 2
    BodySizes = {0, 3}
    SpyRing = 6
    MaxMessages = 3
    Cnt = 2
    Chunk = 2
CHECK_DEADLOCK FALSE
INVARIANTS HeldWhileUsed SamplesTrue
PROPERTY GoesOn
