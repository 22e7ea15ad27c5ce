SPECIFICATION Spec
CONSTANTS
    t1 = t1
    t2 = t2
    a1 = a1
    a2 = a2
    NoJob = NoJob
    Tasks <- TwoTasks
    Assignments <- TwoTests
    ZeroIterations <- OneTest
PROPERTY
    NoLaunchAfterRefusal
