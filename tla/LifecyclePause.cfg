CONSTANTS
    c1 = c1
    c2 = c2
    guard = guard
    Context = {c1}
    Authority = {}
    Instances <- PauseInstances
    Capacity = 1
    AuthorityCapacity = 1
    ActiveBurst = 1
SPECIFICATION Spec
INVARIANT
    HandlersSucceed
