SPECIFICATION FairSpec
CONSTANT Iterations = 5
INVARIANTS
    ReportedPingsMeasured
PROPERTIES
    ImplementsTest
    TestEnds
    HandlerReturns
