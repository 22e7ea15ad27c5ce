SPECIFICATION FairSpec
CONSTANTS
    Size = 4
    Iterations = 2
    Window = 1
INVARIANTS
    Lockstep
    CloseIsGraceful
    NoShortTransfer
    NeverStuck
PROPERTY
    SessionEnds
