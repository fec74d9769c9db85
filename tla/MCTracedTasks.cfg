SPECIFICATION Spec
CONSTANTS
    w1 = w1  w2 = w2  b1 = b1  t1 = t1  t2 = t2  c1 = c1  c2 = c2
    Workers = {w1, w2}
    Others = {b1}
    Tasks = {t1, t2}
    Channels = {c1, c2}
    Location <- MCLocation
    Depths = {1, 4}
    Byte = 4
    Threshold = 1
    Limit = 3
    Scenarios <- MCScenarios
    MaxTime = 2
SYMMETRY Symmetry
INVARIANTS
    TypeOK
    NoLostWakeup
    PeriodsGenuine
    PollTimeAddsUp
    WakeDelaysGenuine
    IdleWorkersFound
CHECK_DEADLOCK FALSE
