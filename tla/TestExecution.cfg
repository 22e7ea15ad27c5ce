SPECIFICATION FairSpec
CONSTANTS
    Streams = 2
    DataSize = 3
    ChunkSize = 2
    Window = 1
    MaxStreams = 1
INVARIANTS
    SuccessIsComplete
    NeverStuck
PROPERTIES
    ImplementsTest
    ExecutionEnds
    EverythingReleased
