SPECIFICATION FairSpec
CONSTANTS
    Replicas <- MCReplicas
    Workers = {w1, w2}
    RingSize = 2
    Window = 1
    Tier3Window = 1
    Adjacency = 0
    Proximity = 1
    FpThresh = 1
    FpThreshBad = 2
    DrainBatch = 1
    MaxTime = 2
INVARIANTS OnePlace BestWins StopLeavesNothing
PROPERTY EveryReplicaSettled
