SPECIFICATION Spec
CONSTANT MaxCalls = 4
CHECK_DEADLOCK FALSE
INVARIANTS RequestsAlive JobsAreQueued DeletedAlone NothingLeftBehind
PROPERTIES EffectIsThere GuiNeverHangs
