SPECIFICATION Spec
CONSTANTS
    Stations = {1, 2, 3}
    Emissions <- MCEmissions
    Feeds <- MCFeeds
    Anchors = {"anchor"}
    NoLock <- MCNoLock
    Blind = {}
    Near <- MCNear
    Skew <- MCSkew
    StepBack = 60
    SameEmission = 4
    Window = 0
    MinAnchorEvents = 2
    MaxMAD = 1
    MaxAge = 2
    MaxSamples = 2
    Tol = 1
    TickLen = 10
    Steppable = {{2}, {2, 3}}
    MaxNow = 3
    FaultKinds = {"late", "lost", "step", "restart"}
    MaxFaults = 1
INVARIANTS OneWavefront   
CHECK_DEADLOCK FALSE
