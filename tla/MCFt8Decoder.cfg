SPECIFICATION Ft8Spec
CONSTANTS
    nrBlocks = 2
    MaxBlocksIn = 2
    CacheSize = 2
    Messages = {"cq", "reply"}
    MaxLines = 4
    MaxDecoders = 2
CHECK_DEADLOCK FALSE
INVARIANTS DecodesUndisturbed InOrder CountIsExact
PROPERTY BothGoOn
