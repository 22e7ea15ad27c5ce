SPECIFICATION FairSpec
CONSTANTS
    Relays = 2
    Rounds = 2
    Patience = 2
INVARIANTS
    EachInOneList
    SuccessIsAnswered
PROPERTY
    ProbingEnds
