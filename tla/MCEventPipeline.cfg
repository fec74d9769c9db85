SPECIFICATION Spec
CONSTANTS
    main = main
    w = w
    flusher = flusher
    Threads = {main, w}
    Main = main
    Flusher = flusher
    BufferCapacity = 2
    QueueCapacity = 2
    MaxEvents <- SafetyEvents
    MaxErrors = 1
INVARIANTS
    TypeOK
    InOrder
    NothingVanishes
    DropAccounting
    HandedOverSettled
