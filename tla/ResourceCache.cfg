SPECIFICATION FairSpec
CONSTANTS
    c1 = c1
    c2 = c2
    fieldA = fieldA
    fieldB = fieldB
    fieldC = fieldC
    fieldD = fieldD
    opA = opA
    opB = opB
    db = db
    gpu = gpu
    Context = {c1, c2}
    Key = {db, gpu}
    ParallelSafe = {gpu}
    Operator = {opA, opB}
    Field = {fieldA, fieldB, fieldC, fieldD}
    OperatorOf <- OperatorOfField
    KeyOf <- KeyOfField
    Graph <- GraphOfContext
    MaxIteration = 2
    None = None
INVARIANTS
    PinsAccounted
    PinnedIsLoaded
    UsersAccounted
PROPERTIES
    SetupNeverLost
    ImplementsLifecycle
    TakedownEnds
