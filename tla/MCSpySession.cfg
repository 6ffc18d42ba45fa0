SPECIFICATION Spec
CONSTANTS
    MaxClicks = 2
    MaxReturns = 2
    MaxMessages = 3
CHECK_DEADLOCK FALSE
INVARIANTS ParentAlive ConnectedHasServer SetupAfterSync
PROPERTIES SyncEndsAwait DeleteEnds
