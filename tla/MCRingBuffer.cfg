SPECIFICATION Spec
CONSTANTS
    ElementCount = 4
    DefaultSize = 2
    Data = {d1, d2}
    Requests <- MCRequests
INVARIANTS NoSharedSlot GrantsHold
PROPERTY FifoSpec
