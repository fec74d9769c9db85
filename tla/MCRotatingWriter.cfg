SPECIFICATION Spec
CONSTANTS
    MaxFileSize = 3
    MaxTotalSize = 7
    HeaderSize = 1
    EventSizes = {1, 2}
    Faults <- FaultKinds
    MaxSegments = 5
    MaxBytes = 6
INVARIANTS
    TypeOK
    Gapless
    TrackedOnDisk
    SealedHasEvents
    BudgetBound
PROPERTIES
    SealedImmutable
    OnlyEvictionLosesEvents
    ImplementsSource
CHECK_DEADLOCK FALSE
