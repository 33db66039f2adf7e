SPECIFICATION Spec
CONSTANTS
    SlotCount = 3
    MaxPublications = 6
CHECK_DEADLOCK FALSE
PROPERTIES
    IsLatestMailbox
    CopiesLatest
