SPECIFICATION FairSpec
CONSTANTS
    Cap = 2
    NBuf = 5

    
PROPERTIES
    StreamSpec
    EveryBufferProcessed
    ShutdownCompletes
