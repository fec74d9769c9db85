SPECIFICATION Spec
CONSTANTS
    MaxFileSize = 3
    MaxTotalSize = 7
    HeaderSize = 1
    EventSizes = {1, 2}
    Faults <- FaultKinds
    MaxSegments = 4
    MaxBytes = 6
PROPERTY SealedComplete
CHECK_DEADLOCK FALSE
