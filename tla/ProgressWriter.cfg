SPECIFICATION ProgressFairSpec
CONSTANTS
    TotalBytes = 5
    MaxWrite = 3
INVARIANT
    ShownTruthfully
PROPERTIES
    ShownMonotone
    ProgressEnds
