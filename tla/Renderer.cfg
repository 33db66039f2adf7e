SPECIFICATION Spec
CONSTANTS
    BufferCount = 2
    ColumnCounts = {2, 3}
    MaxDrain = 2
    Budgets <- MCBudgets
INVARIANTS
    ShownHistoryIsTrue
    OutcomesCountedOnce
    TimingPublishedOnce
    IntervalsArePacing
PROPERTIES
    SuccessfulUploadIsKept
