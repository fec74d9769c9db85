SPECIFICATION FairSpec
CONSTANTS
    main = main
    w = w
    flusher = flusher
    Threads = {main, w}
    Main = main
    Flusher = flusher
    BufferCapacity = 1
    QueueCapacity = 1
    MaxEvents <- LiveEvents
    MaxErrors = 1
PROPERTIES
    StopReturns
    QueueDrains
