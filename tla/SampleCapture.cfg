SPECIFICATION Spec
CONSTANTS
    SlotCount = 3
    FramesPerSlot = 2
    MaxHandles = 2
    MaxSequence = 6
    MaxGeneration = 3
CHECK_DEADLOCK FALSE
INVARIANTS
    ViewsIntact
    LossVisible
PROPERTIES
    UnflaggedIsContiguous
