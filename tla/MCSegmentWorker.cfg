SPECIFICATION Spec
CONSTANTS
    Configs <- Symbolizing
    InitialBackoff = 2
    MaxBackoff = 3
    Persistent <- NoOperation
    MaxFaults = 2
    MaxRestarts = 1
    MaxSegments = 2
INVARIANTS TypeOK Accounted  UploadedOnce 
PROPERTIES SegmentsSettle WorkerStops
CHECK_DEADLOCK FALSE
