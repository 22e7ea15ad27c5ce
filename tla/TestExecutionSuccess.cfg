SPECIFICATION Spec
CONSTANTS
    Streams = 2
    DataSize = 3
    ChunkSize = 2
    Window = 1
    MaxStreams = 2
INVARIANT
    SuccessMeansNoFault
