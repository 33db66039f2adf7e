SPECIFICATION FairSpec
CONSTANTS
    SlotCount = 2
    MaxBlocks = 3
    MaxChanges = 2
    MaxFailures = 1
    MaxDiscards = 1
CHECK_DEADLOCK FALSE
INVARIANTS
    OneSideOfGap
    RecoveryAfterDelivery
    CaptureNotResurrected
PROPERTIES
    EpisodeEnds
    CapturedIsAnalysed
