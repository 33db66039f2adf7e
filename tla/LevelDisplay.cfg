SPECIFICATION FairSpec
CONSTANTS
    MaxBlocks = 2
    MaxResets = 1
    MaxChanges = 1
    Changes = {"temporal", "mapping", "restart"}
INVARIANTS
    ClearedStaysCleared
PROPERTIES
    ResetIsShown
    SilenceIsShown
