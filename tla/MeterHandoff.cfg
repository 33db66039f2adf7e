SPECIFICATION HandoffSpec
CONSTANTS
    MeterSlotCount = 2
    MaxBlocks = 5
    MaxFormats = 2
INVARIANTS
    NewestKept
PROPERTIES
    UnflaggedExtends
    OvertakenOnlyInScan
