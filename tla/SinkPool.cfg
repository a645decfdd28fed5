SPECIFICATION FairSpec
CONSTANTS
    Groups = {"wide", "narrow"}
    Sinks = {0, 1, 2}
    Owner <- MCOwner
    InitialSinks = {0}
    NWorkers = 2
    RingN = 3
    QueueCap = 1
    OutN = 2
    Warmup = 1
    MaxCalls = 6
    MaxAdded = 1
INVARIANTS InOrder FlushComplete
PROPERTIES CallsReturn
