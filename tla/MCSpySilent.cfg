SPECIFICATION Spec
CONSTANTS
    MaxClicks = 1
    MaxReturns = 1
    MaxMessages = 3
CHECK_DEADLOCK FALSE
PROPERTY AwaitAlwaysEnds
