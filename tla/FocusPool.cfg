SPECIFICATION FairSpec
CONSTANTS
    Capacity = 2
    MaxTotal = 3
    Appends = {1, 3}
    PoolSize = 1
    Slots = {"a", "b"}
    Batch = 1
    Rewind = 1
    MaxPromotes = 2
INVARIANTS PendingServed Drained
PROPERTY WorkersReturn
