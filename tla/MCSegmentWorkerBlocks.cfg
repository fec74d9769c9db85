SPECIFICATION Spec
CONSTANTS
    Configs <- OnlyS3
    InitialBackoff = 2
    MaxBackoff = 3
    Persistent <- Reading
    MaxFaults = 0
    MaxRestarts = 0
    MaxSegments = 2
PROPERTIES WorkerStops
CHECK_DEADLOCK FALSE
