SPECIFICATION Spec
CONSTANTS
    SlotCount = 1
    MaxBlocks = 2
    MaxChanges = 1
    MaxFailures = 0
    MaxDiscards = 1
CHECK_DEADLOCK FALSE
INVARIANT UndeliveredMarkerKept
