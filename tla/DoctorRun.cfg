SPECIFICATION FairSpec
INVARIANTS
    ServesAsRegistered
PROPERTIES
    
    InterruptEnds
    StartupSettles
    AnsweredStartupEnds
    MappingIsNoticed
