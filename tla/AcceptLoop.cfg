SPECIFICATION FairSpec
CONSTANT Incoming = {c1, c2, c3}
INVARIANTS
    TypeOK
    AtMostOneGui
PROPERTY
    CounterSettles
