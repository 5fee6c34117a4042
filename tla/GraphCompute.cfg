SPECIFICATION Spec
CONSTANTS
    MaxThreads = 3
    MaxComputes = 2
    Graphs <- MCGraphs
    ChunkSize = 1
    ThinChunkSize = 2
CHECK_DEADLOCK FALSE
INVARIANTS
    TypeOK
    BarrierCounts
    NoStrayWorker
    PoolOutlivesThreads
    ChunksReadQuantized
    EveryElementOnce
    SuccessIsComplete
PROPERTIES
    CallsReturn
    ImplementsNodeByNode
