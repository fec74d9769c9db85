SPECIFICATION Spec
CONSTANTS
    Radix = 4
    VarintLen = 3
    Width = 32
    MaxDelta = 2
    Derived <- MCDerived
    NarrowWidth <- MCNarrowWidth
    NoThreadName <- MCNoThreadName
    Events <- MCEvents
    Manual <- MCManual
    SymbolTable = 21
    ProcMaps <- MCProcMaps
    KernelStart = 12
    Code <- MCCode
    MaxOps = 3
    MaxFailures = 1
    MaxTorn = 1
INVARIANTS
    TypeOK
    ReadsBack
    ReadersAgree
    TakenUpAlike
    EventsUnderstood
CHECK_DEADLOCK FALSE
