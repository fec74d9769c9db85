SPECIFICATION Spec
CONSTANTS
    main = main
    w = w
    flusher = flusher
    Threads = {main, w}
    Main = main
    Flusher = flusher
    BufferCapacity = 3
    QueueCapacity = 2
    MaxEvents <- LiveEvents
    MaxErrors = 1
INVARIANT ParkedHoldsNothing
