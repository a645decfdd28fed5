SPECIFICATION FairSpec
CONSTANTS
    Capacity = 3
    MaxTotal = 5
    Appends = {1, 2}
    Pre = 1
    Post = 1
    QueueCap = 1
    MaxPolls = 1
    JanitorEvery = 2
    IqSize = 2
    JsonSize = 1
    DiskCap = 3
    MaxLocks = 4
INVARIANTS  ShutdownDrains
PROPERTY ShutdownReturns
