SPECIFICATION Spec
CONSTANTS
    None = None
    Choices <- MCChoices
INVARIANTS
    WireChunkIsReported
    DecidedOnEvidence
PROPERTY
    PortsOnlyRefine
