SPECIFICATION Spec
CONSTANTS
    c1 = c1
    k1 = k1
    Context = {c1}
    Graph <- TwoInARow
    MaxProfiles = 1
    MaxSteps = 2
    Instances <- ReturnsWarm
INVARIANT
    ReportsConsistent
CHECK_DEADLOCK FALSE
