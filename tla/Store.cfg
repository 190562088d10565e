CONSTANTS
    a = a
    b = b
    w = w
    v = v
    s1 = s1
    s2 = s2
    k1 = k1
    k2 = k2
    k3 = k3
    k4 = k4
    g = g
    layout = layout
    Never = Never
    MaintenanceItems = 2
    Client = {a, b}
    Walker = {w, v}
    Instances <- AllInstances
    MaxAttempts = 2
    MaxFilters = 2
    MaxPages = 3
SPECIFICATION Spec
INVARIANTS
    StoreSound
    StoredOnce
    ReadersComplete
CHECK_DEADLOCK FALSE
