CONSTANTS
    a = a
    b = b
    c = c
    AnyDevice = AnyDevice
    Session = {a, b, c}
    Device = {0, 1}
    CapacityOf <- Units
    ExclusiveOnly = {1}
    Workload <- AllWorkloads
    Resource = {a}
    RetryLimit <- Retries
    Abortable = {a}
SPECIFICATION FairSpec
INVARIANTS
    Accounts
    LeasesAccounted
    GrantsAwaited
PROPERTIES
    EverySessionEnds
