SPECIFICATION Spec
CONSTANTS
    w1 = w1  w2 = w2  b1 = b1
    Workers = {w1, w2}
    Others = {b1}
    DataSize = 16
    MaxFrequency = 1
    Byte = 2
    Format <- MCFormat
    Scenarios <- MCScenarios
    MaxTime = 2
SYMMETRY Symmetry
INVARIANTS
    TypeOK
    SamplesAttributed
    RingIntact
    
PROPERTIES
    OwnWorker
CHECK_DEADLOCK FALSE
