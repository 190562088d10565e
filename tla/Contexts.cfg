SPECIFICATION ContextsSpec
CONSTANTS
    h = h
    w = w
    v = v
    c1 = c1
    c2 = c2
    c3 = c3
    k1 = k1
    k2 = k2
    k3 = k3
    k4 = k4
    k5 = k5
    a1 = a1
    a2 = a2
    a3 = a3
    o1 = o1
    o2 = o2
    o3 = o3
    r1 = r1
    r2 = r2
    Artifact = {a1, a2, a3}
    Operator = {o1, o2, o3}
    NoArtifact = NoArtifact
    NoOperator = NoOperator
    Declaration <- AllDeclarations
    Contract <- SomeContract
    Version = {1, 2, 3}
    Requires <- Requirement1
    WithResource <- NeedsResource
    Resource = {r1}
    ResourceRequires <- ResourceVersion
    SerializerRequires = {2}
    EventLoop = {o2}
    MayBeAbsent = {a1}
    MayGiveNone = {o2}
    MayFail = {o3}
    Repeating = {o1}
    MaxRepeats = 1
    MaxIterations = 2
    MaxTransfers = 1
INVARIANTS
    GraphAgrees
    FlowsAsLaidOut
    RunsOnce
    OwnershipAccounted
    ApplySucceeds
PROPERTIES
    KnowledgeAdvances
    PublishedIsValid
    ProgressTrue
CHECK_DEADLOCK FALSE
