SPECIFICATION Spec
CONSTANTS
    SlotCount = 2
    MaxSequence = 4
    MaxBoundary = 1
CHECK_DEADLOCK FALSE
INVARIANTS
    NoTornCopy
    MarkerKept
    NoStableColumnOvertaken
