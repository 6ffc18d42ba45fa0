SPECIFICATION Spec
CONSTANTS
    HeaderSize = 2
    BodySizes = {0, 3}
    Capacity = 6
    MaxMessages = 3
CHECK_DEADLOCK FALSE
INVARIANTS BodyWhole
