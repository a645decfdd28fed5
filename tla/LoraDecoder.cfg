SPECIFICATION FairSpec
CONSTANTS
    PREAMBLE_MIN = 5
    HeaderSyms = 10
    Sfs = {7, 12}
    Lens = {1, 3}
    Crs = {5}
    MaxRuns = 2
INVARIANTS AllBytesDecoded MetaOwn
PROPERTIES FrameEnds
