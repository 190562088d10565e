CONSTANTS
    c1 = c1
    c2 = c2
    guard = guard
    Context = {c1, c2}
    Authority = {}
    Instances <- LiveInstances
    Capacity = 1
    AuthorityCapacity = 1
    ActiveBurst = 1
SPECIFICATION FairSpec
PROPERTIES
    ShutdownEnds
    ContextsMoveOn
