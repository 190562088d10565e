CONSTANTS
    c1 = c1
    c2 = c2
    guard = guard
    Context = {c1, c2, guard}
    Authority = {guard}
    Instances <- SafetyInstances
    Capacity = 1
    AuthorityCapacity = 1
    ActiveBurst = 2
SYMMETRY Symmetry
SPECIFICATION Spec
INVARIANTS
    ExecutionsAgree
    WaitsOnce
    PlacementsAgree
PROPERTIES
    StopFinal
    AuthorityLast
