SPECIFICATION Spec
CONSTANTS
    MaxFileSize = 3
    MaxTotalSize = 7
    HeaderSize = 1
    EventSizes = {1, 2}
    Faults <- NoFaults
    MaxSegments = 5
    MaxBytes = 6
INVARIANT DiskWithinBudget
CHECK_DEADLOCK FALSE
